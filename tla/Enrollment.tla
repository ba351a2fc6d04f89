----------------------------- MODULE Enrollment -----------------------------
(***************************************************************************)
(* Obtaining a civic credential: the journey on screen, the browser's      *)
(* RarimoCivicCredentialAdapter with its encrypted vault, and behind HTTP  *)
(* the Rarimo gateway of the credential service and its issuer.            *)
(*                                                                         *)
(* Every await of the adapter is a step of its own: the journey may be     *)
(* left and opened again, the page reloaded or the credential cleared at   *)
(* any of them, the service may restart and any answer may be lost.  The   *)
(* clock matters in two ways: an enrollment expires, and the claims of an  *)
(* issuance name the second in which they were written.                    *)
(*                                                                         *)
(* The application builds a new adapter, with an empty memory over the     *)
(* same vault, whenever the wallet or its providers change.  A call goes   *)
(* on with the adapter it was made to, and so does the journey that waits  *)
(* for it; every later call, a vote's too, is made to the new one.         *)
(***************************************************************************)
EXTENDS Naturals

CONSTANTS MaxEnrollments,   \* bound: attempts to enroll
          MaxAdapters,      \* bound: adapters the application builds in a page
          MaxNow,           \* bound: seconds told apart
          MaxFaults         \* bound: disturbances, what the user, the clock and the network
                            \* do to an enrollment that is under way

ASSUME EnrollmentAssumption ==
    /\ MaxEnrollments \in Nat \ {0} /\ MaxAdapters \in Nat \ {0}
    /\ MaxNow \in Nat /\ MaxFaults \in Nat

E == 1..MaxEnrollments
Adapters == 1..MaxAdapters
None == 0                      \* no enrollment, a null credential
Unread == MaxEnrollments + 1   \* restoredCredential while it is undefined
NotIssued == MaxNow + 1

\* Who may be inside clearCredential: the journey, the settings, a beginEnrollment.
Journey == 0
Settings == MaxEnrollments + 1
Callers == E \cup {Journey, Settings}

VARIABLES
    screen,     \* stage of the journey, "closed" when it is not mounted
    shown,      \* the enrollment the journey follows
    attempt,    \* the attempt in the tab's session storage
    owner,      \* the calls the mounted journey waits for
    begin,      \* per enrollment, where its beginEnrollment stands
    poll,       \* per enrollment, where its status check stands
    claims,     \* per enrollment, the second its last claims were written in
    clear,      \* per caller, where its clearCredential stands
    seen,       \* per caller, the records it read when it started
    loading,    \* per adapter, what a loadRestoredCredential has read, Unread when none runs
    adapter,    \* the adapter the application uses now
    home,       \* per caller, the adapter its call was made to: that of an enrollment
    st,         \* per enrollment, status of its record in its adapter
    inMap,      \* the records the adapters hold
    live,       \* the records whose holder material is not zeroized
    blank,      \* the records whose material was copied after it was zeroized
    active,     \* per adapter, activeEnrollmentId
    restored,   \* per adapter, restoredCredential
    kept,       \* the credential in the encrypted vault
    lapsed,     \* the enrollments past expiresAt
    now,        \* the clock, in seconds
    context,    \* contexts of the gateway
    evidence,   \* issuanceAuthorizations of the gateway
    verdict,    \* per enrollment, what the verificator says
    leaf,       \* per enrollment, the claims its credential was issued with, or NotIssued
    faults

view == <<screen, shown, attempt, owner>>
memory == <<st, inMap, live, blank, active, restored>>
clearing == <<clear, seen, loading>>
service == <<context, evidence, verdict, leaf>>
world == <<lapsed, now, adapter, home>>
evars == <<view, begin, poll, claims, clearing, memory, kept, world, service, faults>>

ETypeOK ==
    /\ screen \in {"closed", "provider", "enrollment", "credential"}
    /\ shown \in {None} \cup E /\ attempt \in {None} \cup E /\ owner \subseteq {Journey} \cup E
    /\ begin \in [E -> {"none", "reading", "clearing", "creating", "over"}]
    /\ poll \in [E -> {"idle", "status", "evidence", "issue", "answer", "conflict", "refused", "save", "saved", "cleanup"}]
    /\ claims \in [E -> 0..NotIssued] /\ leaf \in [E -> 0..NotIssued]
    /\ clear \in [Callers -> {"idle", "cleanup", "erase", "erase_failed"}]
    /\ seen \in [Callers -> SUBSET E] /\ loading \in [Adapters -> {None, Unread} \cup E]
    /\ adapter \in Adapters /\ home \in [Callers -> Adapters]
    /\ st \in [E -> {"none", "pending", "issued", "failed", "expired"}]
    /\ inMap \subseteq E /\ live \subseteq E /\ blank \subseteq E
    /\ active \in [Adapters -> {None} \cup E] /\ restored \in [Adapters -> {None, Unread} \cup E]
    /\ kept \in {None} \cup E
    /\ lapsed \subseteq E /\ context \subseteq E /\ evidence \subseteq E
    /\ now \in 0..MaxNow /\ faults \in 0..MaxFaults
    /\ verdict \in [E -> {"none", "not_verified", "verified", "failed", "foreign", "gone", "unlisted"}]

EInit ==
    /\ screen = "provider" /\ shown = None /\ attempt = None /\ owner = {}
    /\ begin = [e \in E |-> "none"] /\ poll = [e \in E |-> "idle"] /\ claims = [e \in E |-> NotIssued]
    /\ clear = [c \in Callers |-> "idle"] /\ seen = [c \in Callers |-> {}]
    /\ adapter = 1 /\ home = [c \in Callers |-> 1] /\ loading = [k \in Adapters |-> Unread]
    /\ active = [k \in Adapters |-> None] /\ restored = [k \in Adapters |-> Unread]
    /\ st = [e \in E |-> "none"] /\ inMap = {} /\ live = {} /\ blank = {}
    /\ kept = None /\ lapsed = {} /\ now = 0
    /\ context = {} /\ evidence = {} /\ verdict = [e \in E |-> "none"]
    /\ leaf = [e \in E |-> NotIssued] /\ faults = 0

\* busy and pollingRef: the buttons are disabled while a call of the journey runs.
Busy == owner # {}

\* The buttons of the three screens.
CanBegin == screen = "provider" /\ ~Busy
CanCheck == screen = "enrollment" /\ ~Busy
CanRestart == screen \in {"enrollment", "credential"} /\ ~Busy

Fault == faults < MaxFaults /\ faults' = faults + 1

-----------------------------------------------------------------------------
(* The gateway of the credential service. *)

\* createVerificationRequest: the request is kept with the hash of the link.
CreateVerificationRequest(e) == context' = context \cup {e} /\ verdict' = [verdict EXCEPT ![e] = "not_verified"]

\* decodeVerificationStatus: the provider says verified, whatever proof it will then give.
Verified(e) == verdict[e] \notin {"none", "not_verified", "failed"}

\* deleteVerification: whatever the verificator answers, the gateway forgets the request.
Forget(es) == context' = context \ es /\ evidence' = evidence \ es

\* validateProofProjection and evidenceFromProof: the proof is that of the request.
Bound(e) == e \in context /\ verdict[e] # "foreign"

\* getVerifiedEvidence: null once the proof is gone, an error without the context of the
\* request or with the proof of another.
Evidence(e) ==
    CASE e \in context /\ verdict[e] = "gone" -> "null"
      [] Bound(e) /\ verdict[e] # "gone" -> "evidence"
      [] OTHER -> "error"

\* validateCredentialIssuance: the claims are derived again from evidence the gateway holds.
Authorized(e) == e \in evidence /\ verdict[e] # "unlisted"

-----------------------------------------------------------------------------
(* clearCredential: the provider records, then the adapter's memory, then the vault. *)

\* The records of an adapter.
Records(k) == {e \in inMap : home[e] = k}

StartClear(c, k) == clear' = [clear EXCEPT ![c] = "cleanup"] /\ seen' = [seen EXCEPT ![c] = Records(k)]

\* The user restarts from the journey, or removes the local data from the settings.
ClearCredential(c) ==
    /\ c \notin E /\ clear[c] = "idle" /\ Fault
    /\ home' = [home EXCEPT ![c] = adapter] /\ StartClear(c, adapter)
    /\ IF c = Journey THEN CanRestart /\ owner' = {Journey}
       ELSE screen = "closed" /\ UNCHANGED owner
    /\ UNCHANGED <<screen, shown, attempt, begin, poll, claims, loading, memory, kept, lapsed, now, adapter, service>>

\* Every record goes and the material of those read at the start is zeroized, also when
\* the provider could not be reached.
Cleared(c) ==
    /\ clear[c] = "cleanup"
    /\ \/ clear' = [clear EXCEPT ![c] = "erase"] /\ Forget(seen[c]) /\ UNCHANGED faults
       \/ seen[c] # {} /\ clear' = [clear EXCEPT ![c] = "erase_failed"] /\ Fault /\ UNCHANGED <<context, evidence>>
    /\ live' = live \ seen[c] /\ inMap' = inMap \ Records(home[c])
    /\ active' = [active EXCEPT ![home[c]] = None] /\ restored' = [restored EXCEPT ![home[c]] = None]
    /\ UNCHANGED <<view, begin, poll, claims, seen, loading, st, blank, kept, world, verdict, leaf>>

\* The vault is emptied and the call returns, to whoever still waits for it.
Erased(c) ==
    /\ clear[c] \in {"erase", "erase_failed"} /\ clear' = [clear EXCEPT ![c] = "idle"] /\ seen' = [seen EXCEPT ![c] = {}] /\ kept' = None
    /\ begin' = IF c \in E THEN [begin EXCEPT ![c] = IF clear[c] = "erase" THEN "creating" ELSE "over"] ELSE begin
    /\ IF clear[c] = "erase" /\ (c = Settings \/ (c = Journey /\ Journey \in owner))
       THEN attempt' = None /\ shown' = None /\ screen' = IF c = Journey THEN "provider" ELSE screen
       ELSE UNCHANGED <<attempt, shown, screen>>
    /\ owner' = IF c = Journey \/ (c \in E /\ clear[c] # "erase") THEN owner \ {c} ELSE owner
    /\ UNCHANGED <<poll, claims, loading, memory, world, service, faults>>

\* loadRestoredCredential, on the first question about a credential: the vault is read ...
LoadRestored(k) ==
    /\ k <= adapter /\ restored[k] = Unread /\ loading[k] = Unread
    /\ loading' = [loading EXCEPT ![k] = kept]
    /\ UNCHANGED <<view, begin, poll, claims, clear, seen, memory, kept, world, service, faults>>

\* ... and what it held is remembered, if it was nothing too.
Loaded(k) ==
    /\ loading[k] # Unread /\ restored' = [restored EXCEPT ![k] = loading[k]]
    /\ loading' = [loading EXCEPT ![k] = Unread]
    /\ UNCHANGED <<view, begin, poll, claims, clear, seen, st, inMap, live, blank, active, kept, world, service, faults>>

-----------------------------------------------------------------------------
(* beginEnrollment. *)

Begin(e) ==
    /\ CanBegin
    /\ begin[e] = "none" /\ \A d \in E : d < e => begin[d] # "none"
    /\ begin' = [begin EXCEPT ![e] = "reading"] /\ owner' = owner \cup {e}
    /\ home' = [home EXCEPT ![e] = adapter]
    /\ UNCHANGED <<screen, shown, attempt, poll, claims, clearing, memory, kept, lapsed, now, adapter, service, faults>>

\* The attempts and the credential it can see are cleared first.
BeginClears(e) ==
    /\ begin[e] = "reading"
    /\ IF Records(home[e]) # {} \/ restored[home[e]] \in E
       THEN begin' = [begin EXCEPT ![e] = "clearing"] /\ StartClear(e, home[e])
       ELSE restored[home[e]] = None /\ begin' = [begin EXCEPT ![e] = "creating"] /\ UNCHANGED <<clear, seen>>
    /\ UNCHANGED <<view, poll, claims, loading, memory, kept, world, service, faults>>

\* active.current: only the journey that made the call follows its answer.
Mounted(e) == e \in owner

\* The record of the attempt, with fresh holder material, becomes the active one.
NewRecord(e) ==
    /\ st' = [st EXCEPT ![e] = "pending"] /\ inMap' = inMap \cup {e} /\ live' = live \cup {e}
    /\ active' = [active EXCEPT ![home[e]] = e]

\* The gateway has created the verification and its link has arrived.
Created(e) ==
    /\ begin[e] = "creating" /\ begin' = [begin EXCEPT ![e] = "over"]
    /\ CreateVerificationRequest(e) /\ NewRecord(e) /\ owner' = owner \ {e}
    /\ IF Mounted(e) THEN shown' = e /\ attempt' = e /\ screen' = "enrollment"
       ELSE UNCHANGED <<shown, attempt, screen>>
    /\ UNCHANGED <<poll, claims, clearing, blank, restored, kept, world, evidence, leaf, faults>>

CreateFails(e) ==
    /\ begin[e] = "creating" /\ Fault
    /\ begin' = [begin EXCEPT ![e] = "over"] /\ owner' = owner \ {e}
    /\ UNCHANGED <<screen, shown, attempt, poll, claims, clearing, memory, kept, world, service>>

-----------------------------------------------------------------------------
(* getEnrollmentStatus: one check per enrollment at a time. *)

\* Mutant: the credential is shown without asking the adapter for it.
HeldAnyway(e) == TRUE

\* getCredentialSummary: the active record, or what was restored from the vault.
Held(e) == LET k == home[e] IN (active[k] = e /\ e \in inMap) \/ (active[k] = None /\ restored[k] = e)

\* The timer of the enrollment screen, or its button; a check that already runs is joined.
\* An adapter that has no record of the enrollment knows nothing of it.
Check(e) ==
    /\ CanCheck /\ shown = e /\ home[e] = adapter
    /\ poll[e] # "idle" \/ (e \in inMap /\ st[e] = "pending")
    /\ owner' = {e} /\ poll' = [poll EXCEPT ![e] = IF poll[e] = "idle" THEN "status" ELSE poll[e]]
    /\ UNCHANGED <<screen, shown, attempt, begin, claims, clearing, memory, kept, world, service, faults>>

\* A check of an enrollment that was issued while nobody waited for it: the snapshot of its
\* terminal record, and the journey asks for the credential.
CheckIssued(e) ==
    /\ CanCheck /\ shown = e /\ home[e] = adapter
    /\ poll[e] = "idle" /\ e \in inMap /\ st[e] = "issued"
    /\ attempt' = None /\ screen' = IF Held(e) THEN "credential" ELSE screen
    /\ UNCHANGED <<shown, owner, begin, poll, claims, clearing, memory, kept, world, service, faults>>

\* The check is over: its status is s, and the journey that still shows it follows.
Ends(e, s) ==
    /\ poll' = [poll EXCEPT ![e] = "idle"] /\ st' = [st EXCEPT ![e] = s]
    /\ IF Mounted(e) /\ screen = "enrollment" /\ s = "issued"
       THEN attempt' = None /\ screen' = IF Held(e) THEN "credential" ELSE screen
       ELSE UNCHANGED <<attempt, screen>>
    /\ owner' = owner \ {e} /\ UNCHANGED shown

\* failAndCleanup and expireRecord: the record is terminal and its material gone.
Fails(e, s) == Ends(e, s) /\ live' = live \ {e} /\ Forget({e})

\* expireRecord, a status other than verified, or the evidence to fetch next.
StatusAnswers(e) ==
    /\ poll[e] = "status"
    /\ CASE e \in lapsed -> Fails(e, "expired")
         [] e \notin lapsed /\ verdict[e] = "failed" -> Fails(e, "failed")
         [] e \notin lapsed /\ verdict[e] # "failed" /\ ~Verified(e) -> Ends(e, st[e]) /\ UNCHANGED <<live, context, evidence>>
         [] OTHER -> poll' = [poll EXCEPT ![e] = "evidence"] /\ UNCHANGED <<view, st, live, context, evidence>>
    /\ UNCHANGED <<begin, claims, clearing, inMap, blank, active, restored, kept, world, verdict, leaf, faults>>

\* validateEvidenceBinding and deriveClaims: a country of the catalogue.
Acceptable(e) == verdict[e] # "unlisted"

\* The evidence, and the claims written on it.  No evidence, or evidence that cannot be
\* claimed on, is the end of the record; after an error the check is retried.
EvidenceAnswers(e) ==
    /\ poll[e] = "evidence"
    /\ CASE Evidence(e) = "error" -> Ends(e, st[e]) /\ UNCHANGED <<claims, live, context, evidence>>
         [] Evidence(e) = "evidence" /\ Acceptable(e) ->
              /\ evidence' = evidence \cup {e} /\ claims' = [claims EXCEPT ![e] = now]
              /\ poll' = [poll EXCEPT ![e] = "issue"] /\ UNCHANGED <<view, st, live, context>>
         [] OTHER -> Fails(e, "failed") /\ UNCHANGED claims
    /\ UNCHANGED <<begin, clearing, inMap, blank, active, restored, kept, world, verdict, leaf, faults>>

\* requestFingerprint: evidence, holder binding and claims are those issued before.
SameRequest(e) == leaf[e] = claims[e]

\* issueCredential of the service, once per enrollment: the same request is answered with
\* the same credential, another one is a conflict.
IssueCredential(e) ==
    /\ poll[e] = "issue"
    /\ CASE SameRequest(e) -> poll' = [poll EXCEPT ![e] = "answer"] /\ UNCHANGED leaf
         [] leaf[e] # NotIssued /\ ~SameRequest(e) -> poll' = [poll EXCEPT ![e] = "conflict"] /\ UNCHANGED leaf
         [] leaf[e] = NotIssued /\ Authorized(e) -> /\ leaf' = [leaf EXCEPT ![e] = claims[e]]
                                                      /\ poll' = [poll EXCEPT ![e] = "answer"]
         [] OTHER -> poll' = [poll EXCEPT ![e] = "refused"] /\ UNCHANGED leaf
    /\ UNCHANGED <<view, begin, claims, clearing, memory, kept, world, context, evidence, verdict, faults>>

\* ISSUANCE_FAILED is retryable: the record stays pending for the next check.
IssueFails(e) ==
    /\ poll[e] \in {"conflict", "refused"} /\ Ends(e, st[e])
    /\ UNCHANGED <<begin, claims, clearing, inMap, live, blank, active, restored, kept, world, service, faults>>

\* Mutant: the leaf of the answer is not derived again from the holder's material.
ValidIssuanceAnyway(e) == TRUE

\* validateIssuance: the leaf is that of the claims and of a binding not yet zeroized.
ValidIssuance(e) == e \in live /\ leaf[e] = claims[e]

\* The answer is validated and the material copied for the vault, in one turn.
Answered(e) ==
    /\ poll[e] = "answer"
    /\ IF ValidIssuance(e)
       THEN /\ poll' = [poll EXCEPT ![e] = "save"] /\ blank' = IF e \in live THEN blank ELSE blank \cup {e}
            /\ UNCHANGED <<view, st>>
       ELSE Ends(e, st[e]) /\ UNCHANGED blank
    /\ UNCHANGED <<begin, claims, clearing, inMap, live, active, restored, kept, world, service, faults>>

\* persistIssuedRecord: the copy is encrypted and put in the vault.
SaveVault(e) ==
    /\ poll[e] = "save" /\ poll' = [poll EXCEPT ![e] = "saved"] /\ kept' = e
    /\ UNCHANGED <<view, begin, claims, clearing, memory, world, service, faults>>

\* The vault cannot be written: any error but two is the end of the record.
SaveFails(e) ==
    /\ poll[e] = "save" /\ Fault /\ Fails(e, "failed")
    /\ UNCHANGED <<begin, claims, clearing, inMap, blank, active, restored, kept, world, verdict, leaf>>

Saved(e) ==
    /\ poll[e] = "saved" /\ poll' = [poll EXCEPT ![e] = "cleanup"]
    /\ restored' = [restored EXCEPT ![home[e]] = e] /\ st' = [st EXCEPT ![e] = "issued"]
    /\ UNCHANGED <<view, begin, claims, clearing, inMap, live, blank, active, kept, world, service, faults>>

\* The provider's record is deleted, as far as it can be.
CleanedUp(e) ==
    /\ poll[e] = "cleanup" /\ Ends(e, "issued") /\ Forget({e})
    /\ UNCHANGED <<begin, claims, clearing, inMap, live, blank, active, restored, kept, world, verdict, leaf, faults>>

\* A request is refused by the HTTP boundary, or it or its answer is lost; what the service
\* did stays done.
AnswerLost(e) ==
    /\ poll[e] \in {"status", "evidence", "issue", "answer", "conflict", "refused"}
    /\ Fault /\ Ends(e, st[e])
    /\ UNCHANGED <<begin, claims, clearing, inMap, live, blank, active, restored, kept, world, service>>

-----------------------------------------------------------------------------
(* The journey, the page, the holder, the clock and the service. *)

\* The browser's back button, from the enrollment to the provider.
Back ==
    /\ screen = "enrollment" /\ screen' = "provider" /\ Fault
    /\ UNCHANGED <<shown, attempt, owner, begin, poll, claims, clearing, memory, kept, world, service>>

\* The journey is left; its calls go on without it.
Close ==
    /\ screen # "closed" /\ screen' = "closed" /\ owner' = {} /\ shown' = None /\ Fault
    /\ UNCHANGED <<attempt, begin, poll, claims, clearing, memory, kept, world, service>>

\* loadPassportAttempt: an attempt that has expired is dropped.
Attempt == IF attempt \in lapsed THEN None ELSE attempt

\* It is opened again and resumes the attempt of the tab's session storage.
Reopen ==
    /\ screen = "closed" /\ clear[Settings] = "idle"
    /\ attempt' = Attempt /\ shown' = Attempt
    /\ screen' = IF Attempt # None THEN "enrollment" ELSE "provider"
    /\ UNCHANGED <<owner, begin, poll, claims, clearing, memory, kept, world, service, faults>>

\* The page is reloaded.  The Passport session was in memory too, and without it the
\* journey drops the attempt.
EReload ==
    /\ Fault /\ screen' = "closed" /\ shown' = None /\ attempt' = None /\ owner' = {}
    /\ begin' = [e \in E |-> IF begin[e] = "none" THEN "none" ELSE "over"]
    /\ poll' = [e \in E |-> "idle"] /\ clear' = [c \in Callers |-> "idle"] /\ seen' = [c \in Callers |-> {}]
    /\ adapter' = 1 /\ home' = [c \in Callers |-> 1] /\ loading' = [k \in Adapters |-> Unread]
    /\ active' = [k \in Adapters |-> None] /\ restored' = [k \in Adapters |-> Unread]
    /\ st' = [e \in E |-> "none"] /\ inMap' = {} /\ live' = {}
    /\ UNCHANGED <<claims, blank, kept, lapsed, now, service>>

\* The wallet connects, is lost or changes its mode: passportJourneyPorts is built again.
ReplaceAdapter ==
    /\ adapter < MaxAdapters /\ adapter' = adapter + 1 /\ Fault
    /\ UNCHANGED <<view, begin, poll, claims, clearing, memory, kept, lapsed, now, home, service>>

\* The holder shows a document to the provider; what it says is then final.
Verifies(e) ==
    /\ verdict[e] = "not_verified"
    /\ \E v \in {"verified", "failed", "foreign", "gone", "unlisted"} : verdict' = [verdict EXCEPT ![e] = v]
    /\ UNCHANGED <<view, begin, poll, claims, clearing, memory, kept, world, context, evidence, leaf, faults>>

Lapse(e) ==
    /\ e \notin lapsed /\ st[e] = "pending" /\ lapsed' = lapsed \cup {e} /\ Fault
    /\ UNCHANGED <<view, begin, poll, claims, clearing, memory, kept, now, adapter, home, service>>

Tick ==
    /\ now < MaxNow /\ now' = now + 1 /\ Fault
    /\ UNCHANGED <<view, begin, poll, claims, clearing, memory, kept, lapsed, adapter, home, service>>

\* The credential service restarts: the gateway keeps nothing on disk.
Restart ==
    /\ Fault /\ context # {} /\ context' = {} /\ evidence' = {}
    /\ UNCHANGED <<view, begin, poll, claims, clearing, memory, kept, world, verdict, leaf>>

ENext ==
    \/ \E k \in Adapters : LoadRestored(k) \/ Loaded(k)
    \/ ReplaceAdapter \/ Back \/ Close \/ Reopen \/ EReload \/ Tick \/ Restart
    \/ \E c \in Callers : ClearCredential(c) \/ Cleared(c) \/ Erased(c)
    \/ \E e \in E :
        \/ Begin(e) \/ BeginClears(e) \/ Created(e) \/ CreateFails(e)
        \/ Check(e) \/ CheckIssued(e) \/ StatusAnswers(e) \/ EvidenceAnswers(e) \/ IssueCredential(e) \/ IssueFails(e)
        \/ Answered(e) \/ SaveVault(e) \/ SaveFails(e) \/ Saved(e) \/ CleanedUp(e) \/ AnswerLost(e)
        \/ Verifies(e) \/ Lapse(e)

ESpec == EInit /\ [][ENext]_evars

-----------------------------------------------------------------------------
(* What the enrollment promises. *)

\* A credential the browser keeps, in the vault or in the memory of any adapter, opens the
\* leaf the issuer put on the ledger: its material was copied before any clearCredential
\* zeroized it, its claims are those of the issuance, and it was issued on a proof made for
\* this very request, whatever proofs the verificator handed out (validateIssuance,
\* persistIssuedRecord, evidenceFromProof, validateCredentialIssuance).
KeptCredentialOpens ==
    \A e \in E : \/ kept = e
                 \/ \E k \in Adapters : restored[k] = e \/ (active[k] = e /\ st[e] = "issued")
       => e \notin blank /\ leaf[e] = claims[e] /\ verdict[e] = "verified"

\* getPrivateCredentialMaterial of an adapter: what a vote is made with.
Material(k, e) == \/ active[k] = e /\ st[e] = "issued" /\ e \in live
                  \/ active[k] = None /\ restored[k] = e

BecomesReady == screen # "credential" /\ screen' = "credential"

\* When the journey says the credential is ready, the adapter the check was made to has an
\* issued credential and can hand out its material: it has not been cleared, no other
\* attempt has been begun on it, and nothing was zeroized, since (loadCredential).  The
\* adapter the votes use may be another by then, see ReadyIsVotable.
ReadyIsUsable ==
    [][BecomesReady => \E e \in E : leaf[e] # NotIssued /\ Material(home[e], e)']_evars

\* The adapter has not asked the vault yet, and will find the credential there.
WillRestore(k, e) == active[k] = None /\ restored[k] = Unread /\ loading[k] \in {Unread, e} /\ kept = e

\* The screen: "Your credential is ready".  The adapter of the application, the one a vote
\* is authorised by, has the credential or finds it in the vault, which is "read on mount to
\* restore an already-issued credential" (passportJourneyPorts).
ReadyIsVotable ==
    [][BecomesReady => \E e \in E : Material(adapter, e)' \/ WillRestore(adapter, e)']_evars

\* The issuer's test: "allows an idempotent same-enrollment retry".  A check repeated after a
\* lost answer repeats the request of the enrollment, and is never a conflict.
RetryIsIdempotent == \A e \in E : poll[e] # "conflict"
=============================================================================
