----------------------------- MODULE CivicFront -----------------------------
(***************************************************************************)
(* The screens of CivicRuntime, the settings and the Passport tab, and the *)
(* conversation with the catalogue guide.                                  *)
(*                                                                         *)
(* Each screen is opened and closed by a flag of its own and the first one *)
(* set, in a fixed order, is shown; a vote and a removal of the local data *)
(* end later, whatever is shown by then.  The journey and the vote flow    *)
(* are here only as screens (Onboarding and VoteClient model them).        *)
(***************************************************************************)
EXTENDS Naturals

CONSTANT MaxMessages    \* messages.slice(-19) and one: the answers kept in a conversation

ASSUME FrontAssumption == MaxMessages \in Nat \ {0}

Tabs == {"discover", "credentials", "activity", "passport", "assistant"}

Panels == {"root", "privacy", "terms", "feedback", "recovery", "help", "advanced"}

VARIABLES
    front,     \* tab, policyDetailId, pulseOpen, settings panel, confirmRemove, flowStage, the journey, the toast
    chat,      \* messages, the answer a timer will reveal, reflectionContext
    held,      \* a Passport session, a credential
    under      \* a vote, and a removal, that has not ended

fvars == <<front, chat, held, under>>

\* What CivicRuntime renders, the first that is open.
Screen(f) ==
    CASE f.journey -> "journey"
      [] ~f.journey /\ f.pulse -> "pulse"
      [] ~f.journey /\ ~f.pulse /\ f.panel # "closed" -> "settings"
      [] ~f.journey /\ ~f.pulse /\ f.panel = "closed" /\ f.flow # "closed" -> "flow"
      [] ~f.journey /\ ~f.pulse /\ f.panel = "closed" /\ f.flow = "closed" /\ f.policy -> "policy"
      [] OTHER -> f.tab

screen == Screen(front)

FTypeOK ==
    /\ front \in [tab : Tabs, policy : BOOLEAN, pulse : BOOLEAN, panel : Panels \cup {"closed"},
                  confirm : BOOLEAN, flow : {"closed", "voting", "receipt"}, journey : BOOLEAN, toast : BOOLEAN]
    /\ chat \in [messages : 0..MaxMessages, answering : BOOLEAN, reflection : BOOLEAN]
    /\ held \in [session : BOOLEAN, credential : BOOLEAN] /\ under \in [vote : BOOLEAN, removal : BOOLEAN]

FInit ==
    /\ front = [tab |-> "discover", policy |-> FALSE, pulse |-> FALSE, panel |-> "closed", confirm |-> FALSE,
                flow |-> "closed", journey |-> TRUE, toast |-> FALSE]
    /\ chat = [messages |-> 0, answering |-> FALSE, reflection |-> FALSE]
    /\ held = [session |-> FALSE, credential |-> FALSE] /\ under = [vote |-> FALSE, removal |-> FALSE]

\* The chat that is no longer rendered clears its timer.
Unmounted(c, f) == IF Screen(f) = "assistant" THEN c ELSE [c EXCEPT !.answering = FALSE]

\* The flags become f; the confirmation belongs to the screen that asked for it.
Changes(f, c) ==
    /\ front' = IF Screen(f) = screen THEN f ELSE [f EXCEPT !.confirm = FALSE]
    /\ chat' = Unmounted(c, f)

Turns(f) == Changes(f, chat) /\ UNCHANGED <<held, under>>

InTab == screen \in Tabs
HeaderShown == ~front.journey

\* BottomNav, whose middle button is the guide for who holds a pass and the verification otherwise.
NavigateTab ==
    /\ InTab
    /\ \E t \in Tabs : /\ t = "assistant" => held.credential
                       /\ Turns([front EXCEPT !.tab = t, !.toast = FALSE])

VerifyButton ==
    /\ InTab /\ (~held.credential \/ screen \in {"discover", "credentials"})
    /\ Turns([front EXCEPT !.journey = TRUE, !.pulse = FALSE, !.flow = "closed", !.policy = FALSE])

\* Mutant: the pulse stays open under the settings.
SettingsOver(p) == [front EXCEPT !.flow = "closed", !.policy = FALSE, !.panel = p, !.confirm = FALSE]

SettingsOnly(p) == [front EXCEPT !.pulse = FALSE, !.flow = "closed", !.policy = FALSE, !.panel = p, !.confirm = FALSE]

\* openSettings, from the header and from the Passport tab; the view is mounted anew.
ShowSettings ==
    /\ HeaderShown
    /\ \E p \in {"root", "feedback"} \cup IF screen = "passport" THEN {"help"} ELSE {} : Turns(SettingsOnly(p))

\* The rows of the first panel and of the help.
RootRows == {"help", "privacy", "terms", "feedback", "recovery", "advanced"}
HelpRows == {"privacy", "recovery"}

OpenPanel ==
    /\ screen = "settings"
    /\ \E p \in Panels : /\ p \in (IF front.panel = "root" THEN RootRows ELSE IF front.panel = "help" THEN HelpRows ELSE {})
                         /\ Turns([front EXCEPT !.panel = p])

PanelBack ==
    /\ screen = "settings"
    /\ Turns([front EXCEPT !.panel = IF @ = "root" THEN "closed" ELSE "root"])

\* replayOnboarding, from the help.
ReplayOnboarding ==
    /\ screen = "settings" /\ front.panel = "help"
    /\ Turns([front EXCEPT !.panel = "closed", !.pulse = FALSE, !.flow = "closed", !.policy = FALSE, !.journey = TRUE])

\* The account controls: in the first and the advanced panel, and in the Passport tab.
AccountShown == (screen = "settings" /\ front.panel \in {"root", "advanced"}) \/ screen = "passport"

AskRemoval == AccountShown /\ Turns([front EXCEPT !.confirm = TRUE])

CancelRemoval == AccountShown /\ front.confirm /\ Turns([front EXCEPT !.confirm = FALSE])

\* The conversation and the reflection are forgotten first.
Forgotten == [messages |-> 0, answering |-> FALSE, reflection |-> FALSE]

ConfirmRemoval ==
    /\ AccountShown /\ front.confirm /\ ~under.removal
    /\ under' = [under EXCEPT !.removal = TRUE] /\ Changes(front, Forgotten) /\ UNCHANGED held

RemovalEnds ==
    /\ under.removal /\ under' = [under EXCEPT !.removal = FALSE]
    /\ held' = [session |-> FALSE, credential |-> FALSE] /\ Changes([front EXCEPT !.toast = FALSE], chat)

LockSession ==
    /\ (screen = "settings" /\ front.panel = "root") \/ screen = "passport"
    /\ held.session /\ held' = [held EXCEPT !.session = FALSE]
    /\ Changes(front, Forgotten) /\ UNCHANGED under

ConnectFromProfile ==
    /\ screen = "passport" /\ ~held.session /\ held' = [held EXCEPT !.session = TRUE]
    /\ UNCHANGED <<front, chat, under>>

\* The journey ends, with or without a session and a credential, on the first tab.
JourneyEnds ==
    /\ front.journey /\ Changes([front EXCEPT !.journey = FALSE, !.tab = "discover"], chat)
    /\ held' \in [session : {held.session, TRUE}, credential : {held.credential, TRUE}] /\ UNCHANGED under

OpenPolicy == screen \in {"discover", "assistant"} /\ Turns([front EXCEPT !.policy = TRUE])

PolicyBack == screen = "policy" /\ Turns([front EXCEPT !.policy = FALSE])

OpenGuide == screen = "discover" /\ Turns([front EXCEPT !.tab = "assistant"])

OpenPulse == screen = "discover" /\ Turns([front EXCEPT !.pulse = TRUE])

\* The pulse is left, or its summary is taken to the guide.
LeavePulse ==
    /\ screen = "pulse" /\ UNCHANGED <<held, under>>
    /\ \/ Changes([front EXCEPT !.pulse = FALSE], chat)
       \/ Changes([front EXCEPT !.pulse = FALSE, !.tab = "assistant"], [chat EXCEPT !.reflection = TRUE])

\* startVote of the list and of a policy, whose button opens the journey for who holds no credential.
BeginFlow ==
    /\ IF held.credential THEN /\ screen \in {"discover", "policy"}
                               /\ Turns([front EXCEPT !.flow = "voting", !.policy = FALSE, !.toast = FALSE])
                          ELSE screen = "policy" /\ Turns([front EXCEPT !.journey = TRUE])

SendVote ==
    /\ screen = "flow" /\ front.flow = "voting" /\ ~under.vote /\ under' = [under EXCEPT !.vote = TRUE] /\ UNCHANGED <<front, chat, held>>

\* The vote ends on its receipt or back at the review, over whatever is there.
VoteEnds ==
    /\ under.vote /\ under' = [under EXCEPT !.vote = FALSE]
    /\ \/ Changes([front EXCEPT !.flow = "receipt", !.toast = TRUE], chat)
       \/ Changes([front EXCEPT !.flow = "voting"], chat)
    /\ UNCHANGED held

LeaveFlow ==
    /\ screen = "flow"
    /\ \/ Turns([front EXCEPT !.flow = "closed"])
       \/ front.flow = "receipt" /\ Turns([front EXCEPT !.flow = "closed", !.tab = "activity"])

\* The toast: opened, dismissed, or gone after seven seconds.
Toast ==
    /\ front.toast
    /\ \/ front.flow # "receipt" /\ Turns([front EXCEPT !.toast = FALSE, !.flow = "closed", !.tab = "activity"])
       \/ Turns([front EXCEPT !.toast = FALSE])

(***************************************************************************)
(* CatalogueChat.                                                          *)
(***************************************************************************)

Added == [chat EXCEPT !.messages = IF @ < MaxMessages THEN @ + 1 ELSE @, !.answering = FALSE]

\* send: one question at a time, answered after a moment, or at once with reduced motion.
Send ==
    /\ screen = "assistant" /\ ~chat.answering
    /\ chat' \in {Added, [chat EXCEPT !.answering = TRUE]} /\ UNCHANGED <<front, held, under>>

\* The timer, or the person in a hurry.
RevealAnswer == chat.answering /\ chat' = Added /\ UNCHANGED <<front, held, under>>

ClearChat ==
    /\ screen = "assistant" /\ chat' = Forgotten /\ UNCHANGED <<front, held, under>>

\* The reflection brought from the pulse is put away.
DropReflection ==
    /\ screen = "assistant" /\ chat' = [chat EXCEPT !.reflection = FALSE] /\ UNCHANGED <<front, held, under>>

FNext ==
    \/ NavigateTab \/ VerifyButton \/ ShowSettings \/ OpenPanel \/ PanelBack \/ ReplayOnboarding
    \/ AskRemoval \/ CancelRemoval \/ ConfirmRemoval \/ RemovalEnds \/ LockSession \/ ConnectFromProfile
    \/ JourneyEnds \/ OpenPolicy \/ PolicyBack \/ OpenGuide \/ OpenPulse \/ LeavePulse
    \/ BeginFlow \/ SendVote \/ VoteEnds \/ LeaveFlow \/ Toast \/ Send \/ RevealAnswer \/ ClearChat \/ DropReflection

FSpec == FInit /\ [][FNext]_fvars

(***************************************************************************)
(* Properties.                                                             *)
(***************************************************************************)

OpenScreens(f) ==
    {s \in {"journey", "pulse", "settings", "flow", "policy"} :
        CASE s = "journey" -> f.journey [] s = "pulse" -> f.pulse [] s = "settings" -> f.panel # "closed"
          [] s = "flow" -> f.flow # "closed" [] s = "policy" -> f.policy}

\* Open, but behind the screen that is shown: what closing that one would lead back to.
Hidden(f) == OpenScreens(f) \ {Screen(f)}

\* No step leaves a screen open behind another, but a vote that ends while something else is
\* shown, which sets its flow behind that or over a policy, and the vote button of a policy,
\* which opens the journey over it (the flags of CivicRuntime).
LeavesNone ==
    \A s \in Hidden(front') \ Hidden(front) :
        \/ under.vote /\ ~under'.vote /\ s \in {"flow", "policy"}
        \/ screen = "policy" /\ s = "policy" /\ Screen(front') = "journey"

NoScreenForgotten == [][LeavesNone]_fvars
=============================================================================
