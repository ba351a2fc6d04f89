----------------------------- MODULE Onboarding -----------------------------
(***************************************************************************)
(* UnifiedPassportOnboarding and what the application keeps of it: the     *)
(* Passport session and the credential of CivicRuntime.                    *)
(*                                                                         *)
(* A request to Passport is answered whenever the person gets to it: after *)
(* the journey has been cancelled, left for another screen, closed, or     *)
(* opened again.  The journey numbers its attempts and heeds only the      *)
(* latest; here a call is the one under way or an outdated one.  The       *)
(* application's own button (connectPassport) heeds every answer.          *)
(***************************************************************************)
EXTENDS Naturals, Sequences

CONSTANTS Modes,        \* the builds: "demo", "showcase", "preview", "undeployed"
          Ages,         \* what may be typed as the age of a test pass
          MaxStages,    \* bound: screens in the journey's history
          MaxCalls      \* bound: outdated calls, and calls of the application, at once

ASSUME OnboardingAssumption == {MaxStages, MaxCalls} \subseteq Nat /\ Ages \subseteq Nat

Stages == {"welcome", "privacy", "passport", "consent-return", "eligibility", "demo-country", "credential-success"}

\* Nobody, the demo chosen in the journey, the demo of the application's button, Passport's.
Sessions == {"none", "local-demo-explicit", "local-demo-session", "real"}

\* A synthetic pass by its age class, and a verified credential.
Credentials == {"none", "18+", "under-18", "verified"}

VARIABLES
    appMode,
    journey,     \* the open journey: its history (<<>> when closed), session, connecting, createdDemo, documentOpen
    calls,       \* Passport calls: the attempt under way, outdated ones, the application's; removals under way
    app          \* CivicRuntime: passportSession, credential, onboardingRequired, journeyStage, a vote flow is open

ovars == <<appMode, journey, calls, app>>

Closed == [stages |-> <<>>, session |-> "none", connecting |-> FALSE, createdDemo |-> "none", documentOpen |-> FALSE]

stage == journey.stages[Len(journey.stages)]
IsOpen == journey.stages # <<>>
realMode == appMode \in {"preview", "undeployed"}

OTypeOK ==
    /\ appMode \in Modes
    /\ journey \in [stages : Seq(Stages \ {"consent-return"}), session : Sessions, connecting : BOOLEAN,
                    createdDemo : {"none", "18+", "under-18"}, documentOpen : BOOLEAN]
    /\ Len(journey.stages) <= MaxStages
    /\ calls \in [current : BOOLEAN, outdated : 0..MaxCalls, application : 0..MaxCalls, removals : 0..MaxCalls]
    /\ app \in [session : Sessions, credential : Credentials, required : BOOLEAN,
                entry : {"welcome", "passport", "eligibility"}, voting : BOOLEAN]

\* The stages that stand for a step inside another one are entered at that one.
EntryStage(initial) ==
    CASE initial \in {"demo-country", "credential-success"} -> "eligibility"
      [] initial = "consent-return" -> "passport"
      [] OTHER -> initial

\* The journey is mounted with the session the application knows.
Opened(initial, session) == [Closed EXCEPT !.stages = <<EntryStage(initial)>>, !.session = session]

NewApp == [session |-> "none", credential |-> "none", required |-> TRUE, entry |-> "welcome", voting |-> FALSE]

OInit ==
    /\ appMode \in Modes /\ app = NewApp /\ journey = Opened("welcome", "none")
    /\ calls = [current |-> FALSE, outdated |-> 0, application |-> 0, removals |-> 0]

(***************************************************************************)
(* The journey.                                                            *)
(***************************************************************************)

\* attempt.current += 1: the call under way is nobody's any more.
Outdate ==
    IF calls.current THEN calls.outdated < MaxCalls /\ calls' = [calls EXCEPT !.current = FALSE, !.outdated = @ + 1]
                     ELSE UNCHANGED calls

\* A stage is shown: the effect of the rendered stage outdates the attempt and ends the wait.
ShowsStages(stages) ==
    /\ journey' = [journey EXCEPT !.stages = stages, !.connecting = FALSE] /\ Outdate

Visit(next) == Len(journey.stages) < MaxStages /\ ShowsStages(Append(journey.stages, next))

At(s) == IsOpen /\ stage = s

Cancel == Outdate /\ journey' = [journey EXCEPT !.connecting = FALSE]

\* navigateBack and the browser's own button; an open document has a history of its own.
NavigateBack ==
    /\ IsOpen /\ Len(journey.stages) > 1 /\ ~journey.documentOpen
    /\ ShowsStages(SubSeq(journey.stages, 1, Len(journey.stages) - 1)) /\ UNCHANGED <<appMode, app>>

\* finish, and closeOnboarding of the application.
Finish(credential) ==
    /\ Outdate /\ journey' = Closed
    /\ app' = [app EXCEPT !.required = FALSE, !.credential = credential]

\* The exit of the top bar, once the first run is over.
Exit == IsOpen /\ ~app.required /\ Finish(app.credential) /\ UNCHANGED appMode

FromWelcome == At("welcome") /\ (\E next \in {"privacy", "passport"} : Visit(next)) /\ UNCHANGED <<appMode, app>>

FromPrivacy == At("privacy") /\ Visit("passport") /\ UNCHANGED <<appMode, app>>

\* connect: the busy ref admits one attempt.  The demo session is there at once.
ConnectJourney(demo) ==
    /\ ~journey.connecting
    /\ IF demo THEN /\ journey' = [journey EXCEPT !.session = "local-demo-explicit"]
                    /\ app' = [app EXCEPT !.session = "local-demo-explicit"] /\ UNCHANGED calls
               ELSE /\ journey' = [journey EXCEPT !.connecting = TRUE]
                    /\ calls' = [calls EXCEPT !.current = TRUE] /\ UNCHANGED app

\* Mutant: whatever answer arrives is taken.
HeededAlways(c) == IsOpen

\* Only the attempt under way is heeded.
Heeded(c) == c = "current"

\* Passport's answer to the journey: a session, told to the application, or an error.
AnswerJourney(c) ==
    /\ IF c = "current" THEN calls.current ELSE calls.outdated > 0
    /\ calls' = IF c = "current" THEN [calls EXCEPT !.current = FALSE] ELSE [calls EXCEPT !.outdated = @ - 1]
    /\ \/ /\ Heeded(c)
          /\ \E session \in {"real", journey.session} :
                /\ journey' = [journey EXCEPT !.session = session, !.connecting = FALSE]
                /\ app' = IF session = journey.session THEN app ELSE [app EXCEPT !.session = session]
       \/ ~Heeded(c) /\ UNCHANGED <<journey, app>>
    /\ UNCHANGED appMode

MayChooseDemo == appMode = "demo" /\ journey.session = "none"

\* The Passport screen: connect or go on, cancel the wait, skip, or the demo.
FromPassport ==
    /\ At("passport") /\ UNCHANGED appMode
    /\ \/ ~journey.connecting /\ journey.session # "none" /\ Visit("eligibility") /\ UNCHANGED app
       \/ journey.session = "none" /\ ConnectJourney(FALSE)
       \/ journey.connecting /\ Cancel /\ UNCHANGED app
       \/ ~journey.connecting /\ Finish(app.credential)
       \/ ~journey.connecting /\ MayChooseDemo /\ ConnectJourney(TRUE)

\* Use my real Passport: the demo session and its pass are put aside, here and in the application.
UseRealPassport ==
    /\ At("passport") /\ journey.session = "local-demo-explicit" /\ Outdate
    /\ journey' = [journey EXCEPT !.session = "none", !.connecting = FALSE, !.createdDemo = "none"]
    /\ app' = [app EXCEPT !.session = "none"] /\ UNCHANGED appMode

\* In a real build with a session the enrollment journey takes over (Enrollment models it): it
\* restores or connects a session, brings a verified credential, or goes back to Passport.
Enrolling == At("eligibility") /\ realMode /\ journey.session # "none"

EnrollmentJourney ==
    /\ Enrolling /\ UNCHANGED appMode
    /\ \/ app' = [app EXCEPT !.session = "real"] /\ UNCHANGED <<journey, calls>>
       \/ Finish("verified")
       \/ Finish(app.credential)
       \/ Len(journey.stages) = 1 /\ Visit("passport") /\ UNCHANGED app

\* Eligibility otherwise: the document is read on the device, a test pass is made, or both are left for later.
FromEligibility ==
    /\ At("eligibility") /\ ~Enrolling /\ UNCHANGED appMode
    /\ \/ realMode /\ ~journey.documentOpen /\ Visit("passport") /\ UNCHANGED app
       \/ /\ ~realMode /\ journey' = [journey EXCEPT !.documentOpen = ~@] /\ UNCHANGED <<calls, app>>
       \/ ~realMode /\ ~journey.documentOpen /\ Visit("demo-country") /\ UNCHANGED app
       \/ Finish(app.credential)

\* The form of the test pass takes an age between 1 and 120.
ValidAge(age) == age \in 1..120

CreateDemo(age) ==
    /\ At("demo-country") /\ ~realMode /\ ValidAge(age) /\ Len(journey.stages) < MaxStages
    /\ journey' = [journey EXCEPT !.createdDemo = IF age >= 18 THEN "18+" ELSE "under-18",
                                  !.stages = Append(@, "credential-success"), !.connecting = FALSE]
    /\ Outdate /\ UNCHANGED <<appMode, app>>

CredentialSuccess ==
    /\ At("credential-success") /\ journey.createdDemo # "none"
    /\ Finish(journey.createdDemo) /\ UNCHANGED appMode

(***************************************************************************)
(* The application around it.                                              *)
(***************************************************************************)

OpensJourney(entry) ==
    /\ journey' = Opened(entry, app.session) /\ app' = [app EXCEPT !.entry = entry, !.voting = FALSE]

\* openVerification, replayOnboarding, and the journey opened where it was last entered.
OpenVerification == OpensJourney(IF ~realMode \/ app.session # "none" THEN "eligibility" ELSE "passport")

OpenJourney ==
    /\ ~IsOpen /\ (OpenVerification \/ OpensJourney("welcome") \/ OpensJourney(app.entry))
    /\ UNCHANGED <<appMode, calls>>

\* connectPassport: a local session in the demo, else a call of which every answer is taken.
AppConnects ==
    /\ ~IsOpen /\ UNCHANGED <<appMode, journey>>
    /\ IF appMode = "demo" THEN app' = [app EXCEPT !.session = "local-demo-session"] /\ UNCHANGED calls
       ELSE calls.application < MaxCalls /\ calls' = [calls EXCEPT !.application = @ + 1] /\ UNCHANGED app

AnswerApp ==
    /\ calls.application > 0 /\ calls' = [calls EXCEPT !.application = @ - 1]
    /\ app' \in {app, [app EXCEPT !.session = "real"]} /\ UNCHANGED <<appMode, journey>>

LockAndDisconnect ==
    /\ ~IsOpen /\ app.session # "none" /\ app' = [app EXCEPT !.session = "none"]
    /\ UNCHANGED <<appMode, journey, calls>>

\* removeLocalData waits for the vault and the receipts before it forgets the rest.
StartRemoval ==
    /\ ~IsOpen /\ calls.removals < MaxCalls /\ calls' = [calls EXCEPT !.removals = @ + 1]
    /\ UNCHANGED <<appMode, journey, app>>

EndRemoval ==
    /\ calls.removals > 0 /\ calls' = [calls EXCEPT !.removals = @ - 1]
    /\ app' = [app EXCEPT !.session = "none", !.credential = "none"] /\ UNCHANGED <<appMode, journey>>

\* canUseDemoPass, for a consultation of the pass's country.
CanUseDemoPass == app.credential # "under-18"

\* startVote: the flow for who holds a credential, the journey for who does not.
BeginVote ==
    /\ ~IsOpen /\ UNCHANGED <<appMode, calls>>
    /\ IF app.credential = "none" THEN OpensJourney(app.entry)
       ELSE CanUseDemoPass /\ app' = [app EXCEPT !.voting = TRUE] /\ UNCHANGED journey

EndVote == ~IsOpen /\ app.voting /\ app' = [app EXCEPT !.voting = FALSE] /\ UNCHANGED <<appMode, journey, calls>>

\* The page is loaded again: the first run is over for this tab if it ever was, and a real
\* credential is found in the vault.
ReloadApp ==
    /\ app' = [NewApp EXCEPT !.required = app.required,
                             !.credential = IF app.credential = "verified" THEN "verified" ELSE "none"]
    /\ journey' = IF app.required THEN Opened("welcome", "none") ELSE Closed
    /\ calls' = [current |-> FALSE, outdated |-> 0, application |-> 0, removals |-> 0] /\ UNCHANGED appMode

ONext ==
    \/ NavigateBack \/ Exit \/ FromWelcome \/ FromPrivacy \/ FromPassport \/ UseRealPassport
    \/ EnrollmentJourney \/ FromEligibility \/ (\E age \in Ages : CreateDemo(age)) \/ CredentialSuccess
    \/ \E c \in {"current", "outdated"} : AnswerJourney(c)
    \/ OpenJourney \/ AppConnects \/ AnswerApp \/ LockAndDisconnect \/ StartRemoval \/ EndRemoval
    \/ BeginVote \/ EndVote \/ ReloadApp

OSpec == OInit /\ [][ONext]_ovars

(***************************************************************************)
(* Properties.                                                             *)
(***************************************************************************)

\* A session of Passport reaches the application only while somebody waits for one: the journey
\* on its screen, the enrollment journey, or the application's own button.  An answer to an
\* attempt that was cancelled or left never logs anyone in.
SessionArrivesAwaited ==
    [][app'.session = "real" /\ app.session # "real" =>
          journey.connecting \/ calls.application > 0 \/ Enrolling]_ovars
=============================================================================
