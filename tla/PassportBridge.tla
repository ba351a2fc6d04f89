--------------------------- MODULE PassportBridge ---------------------------
(***************************************************************************)
(* The bridge to Midnight Passport: PassportIdentityBridge, its embedded   *)
(* handshake watcher and the session adapter on top of it.                 *)
(*                                                                         *)
(* Passport runs in another window and talks by posted messages.  Framed   *)
(* by Passport the app reuses the one pair (request id and nonce) Passport *)
(* minted; otherwise every handshake mints its own and opens the one named *)
(* window, so a second one takes the window over from the first.  A pair   *)
(* is named by the handshake that minted it, 0 for Passport's own.         *)
(***************************************************************************)
EXTENDS Naturals

CONSTANTS MaxHandshakes,    \* bound: calls of the bridge
          Networks,         \* the networks a message may name
          Expected,         \* the network of the app
          NoNetwork         \* a message need not name one

ASSUME BridgeAssumption == MaxHandshakes \in Nat /\ Expected \in Networks /\ NoNetwork \notin Networks

Handshakes == 1..MaxHandshakes
NoSession == MaxHandshakes + 1

VARIABLES
    embedded,   \* the app is framed by Passport
    latched,    \* the watcher holds Passport's pair
    call,       \* per handshake: idle, opening (no pair yet), asked, or settled
    window,     \* the handshake whose page the named window shows, 0 when it is closed
    asked,      \* the pairs Passport has a consent request for
    flight,     \* the responses Passport has posted and the browser not delivered
    approved,   \* history: the responses by which the user approved a pair
    session     \* session of the adapter: its pair, or NoSession

bvars == <<embedded, latched, call, window, asked, flight, approved, session>>

Responses == [pair : 0..MaxHandshakes, approved : BOOLEAN, network : Networks \cup {NoNetwork}]

BTypeOK ==
    /\ embedded \in BOOLEAN /\ latched \in BOOLEAN
    /\ call \in [Handshakes -> {"idle", "opening", "asked", "connected", "failed"}]
    /\ window \in 0..MaxHandshakes
    /\ asked \subseteq 0..MaxHandshakes
    /\ flight \subseteq Responses /\ approved \subseteq Responses
    /\ session \in 0..NoSession

BInit ==
    /\ embedded \in BOOLEAN /\ latched = FALSE
    /\ call = [c \in Handshakes |-> "idle"]
    /\ window = 0 /\ asked = {} /\ flight = {} /\ approved = {}
    /\ session = NoSession

\* connectEmbedded answers for the watcher's pair, connectStandalone for its own.
PairOf(c) == IF embedded THEN 0 ELSE c

Waiting(c) == call[c] \in {"opening", "asked"}

\* EmbeddedHandshakeWatcher: the first ready message is latched, repeats are ignored.
Latch ==
    /\ embedded /\ ~latched /\ latched' = TRUE
    /\ UNCHANGED <<embedded, call, window, asked, flight, approved, session>>

\* connectStandalone opens the named window, which reloads the page an earlier handshake
\* may still wait for; connectEmbedded leaves it alone.
Open(c) == window' = IF embedded THEN window ELSE c

\* The bridge's connect: a bad origin, no fields, a network it is not configured for or
\* a blocked popup end it at once.
Handshake(c) ==
    /\ call[c] = "idle" /\ \A d \in Handshakes : d < c => call[d] # "idle"
    /\ \/ call' = [call EXCEPT ![c] = "opening"] /\ Open(c)
       \/ call' = [call EXCEPT ![c] = "failed"] /\ UNCHANGED window
    /\ UNCHANGED <<embedded, latched, asked, flight, approved, session>>

\* The adapter's connect, and requestCapability, which asks for consent afresh on top of
\* a session; both keep the session the handshake returns.
ConnectPassport(c) == session = NoSession /\ Handshake(c)

RequestCapability(c) == session # NoSession /\ Handshake(c)

\* A ready message of the right window and pair: the profile request is posted.  A
\* malformed one, or one that names another network, ends the handshake.
Ready(c) ==
    /\ call[c] = "opening"
    /\ IF embedded THEN latched ELSE window = c
    /\ \/ call' = [call EXCEPT ![c] = "asked"] /\ asked' = asked \cup {PairOf(c)}
       \/ call' = [call EXCEPT ![c] = "failed"] /\ UNCHANGED asked
    /\ UNCHANGED <<embedded, latched, window, flight, approved, session>>

\* The user approves or denies in Passport, which posts the answer.
PassportAnswers(m) ==
    /\ m.pair \in asked /\ (embedded \/ window = m.pair)
    /\ flight' = flight \cup {m}
    /\ approved' = IF m.approved THEN approved \cup {m} ELSE approved
    /\ asked' = asked \ {m.pair}
    /\ UNCHANGED <<embedded, latched, call, window, session>>

Matches(c, m) == m.pair = PairOf(c)

\* Mutant: an answer for another network is taken.
AcceptedAnywhere(m) == m.approved

Accepted(m) == m.approved /\ m.network \in {Expected, NoNetwork}

\* onMessage of every handshake that waits: an answer to another pair is ignored, a
\* denial or another network rejects, an approval resolves and becomes the session.
Deliver(m) ==
    /\ m \in flight /\ flight' = flight \ {m}
    /\ LET to == {c \in Handshakes : call[c] = "asked" /\ Matches(c, m)}
       IN  /\ call' = [c \in Handshakes |-> IF c \notin to THEN call[c]
                                            ELSE IF Accepted(m) THEN "connected" ELSE "failed"]
           /\ session' = IF to # {} /\ Accepted(m) THEN m.pair ELSE session
    /\ UNCHANGED <<embedded, latched, window, asked, approved>>

\* The timeout of 180 s, the poll that finds the window closed, or a malformed message.
GiveUp(c) ==
    /\ Waiting(c)
    /\ call' = [call EXCEPT ![c] = "failed"]
    /\ UNCHANGED <<embedded, latched, window, asked, flight, approved, session>>

CloseWindow ==
    /\ window # 0 /\ window' = 0
    /\ UNCHANGED <<embedded, latched, call, asked, flight, approved, session>>

\* disconnect, of lockAndDisconnect and removeLocalData; handshakes under way go on.
DisconnectPassport ==
    /\ session # NoSession /\ session' = NoSession
    /\ UNCHANGED <<embedded, latched, call, window, asked, flight, approved>>

BNext ==
    \/ Latch \/ CloseWindow \/ DisconnectPassport
    \/ \E c \in Handshakes : ConnectPassport(c) \/ RequestCapability(c) \/ Ready(c) \/ GiveUp(c)
    \/ \E m \in Responses : PassportAnswers(m) \/ Deliver(m)

BSpec == BInit /\ [][BNext]_bvars

-----------------------------------------------------------------------------
(* Properties. *)

\* A session stands on consent: the user approved its very pair in Passport, for no other
\* network than the app's, whatever answers to earlier handshakes arrive meanwhile; and
\* standalone a handshake succeeds only on the approval of its own request.
SessionApproved ==
    /\ session # NoSession =>
         \E m \in approved : m.pair = session /\ m.network \in {Expected, NoNetwork}
    /\ \A c \in Handshakes : ~embedded /\ call[c] = "connected" => \E m \in approved : m.pair = c
=============================================================================
