--------------------------- MODULE SessionsProofs ---------------------------
(***************************************************************************)
(* Theorems about what a browser keeps side by side: the screens, the      *)
(* civic pulse, the wallet with its providers, the session with Passport,  *)
(* the onboarding and the camera of the document journey.  The components  *)
(* share no variable, so each has an invariant and a theorem of its own.   *)
(***************************************************************************)
EXTENDS WalletSession, PassportBridge, DocumentJourney, Onboarding, CivicFront, CivicPulse,
        SequenceTheorems, FiniteSetTheorems, TLAPS

(***************************************************************************)
(* CivicFront: a screen that opens another one closes what would be        *)
(* forgotten under it.                                                     *)
(***************************************************************************)

Flags ==
    [tab : Tabs, policy : BOOLEAN, pulse : BOOLEAN, panel : Panels \cup {"closed"}, confirm : BOOLEAN,
     flow : {"closed", "voting", "receipt"}, journey : BOOLEAN, toast : BOOLEAN]

Chats == [messages : 0..MaxMessages, answering : BOOLEAN, reflection : BOOLEAN]

(* What is open behind another screen by f is so by g.                      *)
NoMore(f, g) ==
    /\ f.pulse /\ f.journey => g.pulse /\ g.journey
    /\ f.panel # "closed" /\ (f.journey \/ f.pulse) => g.panel # "closed" /\ (g.journey \/ g.pulse)
    /\ f.flow # "closed" /\ (f.journey \/ f.pulse \/ f.panel # "closed") =>
         g.flow # "closed" /\ (g.journey \/ g.pulse \/ g.panel # "closed")
    /\ f.policy /\ (f.journey \/ f.pulse \/ f.panel # "closed" \/ f.flow # "closed") =>
         g.policy /\ (g.journey \/ g.pulse \/ g.panel # "closed" \/ g.flow # "closed")

(* The screens behind the one that is shown, by their flags.                *)
LEMMA HiddenSays ==
    ASSUME NEW f \in Flags
    PROVE  /\ Hidden(f) \subseteq {"pulse", "settings", "flow", "policy"}
           /\ "pulse" \in Hidden(f) <=> f.pulse /\ f.journey
           /\ "settings" \in Hidden(f) <=> f.panel # "closed" /\ (f.journey \/ f.pulse)
           /\ "flow" \in Hidden(f) <=> f.flow # "closed" /\ (f.journey \/ f.pulse \/ f.panel # "closed")
           /\ "policy" \in Hidden(f) <=>
                f.policy /\ (f.journey \/ f.pulse \/ f.panel # "closed" \/ f.flow # "closed")
<1>1. f.journey \in BOOLEAN /\ f.pulse \in BOOLEAN /\ f.policy \in BOOLEAN /\ f.tab \in Tabs
  BY DEF Flags
<1>2. /\ OpenScreens(f) \subseteq {"journey", "pulse", "settings", "flow", "policy"}
      /\ "journey" \in OpenScreens(f) <=> f.journey
      /\ "pulse" \in OpenScreens(f) <=> f.pulse
      /\ "settings" \in OpenScreens(f) <=> f.panel # "closed"
      /\ "flow" \in OpenScreens(f) <=> f.flow # "closed"
      /\ "policy" \in OpenScreens(f) <=> f.policy
  BY <1>1 DEF OpenScreens
<1>3. /\ f.journey => Screen(f) = "journey"
      /\ ~f.journey /\ f.pulse => Screen(f) = "pulse"
      /\ ~f.journey /\ ~f.pulse /\ f.panel # "closed" => Screen(f) = "settings"
      /\ ~f.journey /\ ~f.pulse /\ f.panel = "closed" /\ f.flow # "closed" => Screen(f) = "flow"
      /\ ~f.journey /\ ~f.pulse /\ f.panel = "closed" /\ f.flow = "closed" /\ f.policy => Screen(f) = "policy"
  BY <1>1 DEF Screen
<1>. QED
  BY <1>1, <1>2, <1>3 DEF Hidden

LEMMA NoMoreHidden ==
    ASSUME NEW f \in Flags, NEW g \in Flags, NoMore(f, g)
    PROVE  Hidden(f) \subseteq Hidden(g)
BY HiddenSays DEF NoMore

(* The step keeps the types and leaves nothing behind what it shows.        *)
Tidy == FTypeOK' /\ Hidden(front') \subseteq Hidden(front)

(* What the screen that is shown says of the flags.                         *)
LEMMA ScreenSays ==
    ASSUME front \in Flags
    PROVE  /\ screen \in Tabs =>
                ~front.journey /\ ~front.pulse /\ front.panel = "closed" /\ front.flow = "closed" /\ ~front.policy
           /\ screen = "settings" => ~front.journey /\ ~front.pulse /\ front.panel # "closed"
           /\ screen = "policy" =>
                ~front.journey /\ ~front.pulse /\ front.panel = "closed" /\ front.flow = "closed" /\ front.policy
           /\ screen = "pulse" => ~front.journey /\ front.pulse
<1>1. /\ front.journey \in BOOLEAN /\ front.pulse \in BOOLEAN /\ front.policy \in BOOLEAN
      /\ front.tab \in Tabs
  BY DEF Flags
<1>2. CASE front.journey
  BY <1>1, <1>2 DEF screen, Screen, Tabs
<1>3. CASE ~front.journey /\ front.pulse
  BY <1>1, <1>3 DEF screen, Screen, Tabs
<1>4. CASE ~front.journey /\ ~front.pulse /\ front.panel # "closed"
  BY <1>1, <1>4 DEF screen, Screen, Tabs
<1>5. CASE ~front.journey /\ ~front.pulse /\ front.panel = "closed" /\ front.flow # "closed"
  BY <1>1, <1>5 DEF screen, Screen, Tabs
<1>6. CASE ~front.journey /\ ~front.pulse /\ front.panel = "closed" /\ front.flow = "closed" /\ front.policy
  BY <1>1, <1>6 DEF screen, Screen, Tabs
<1>7. CASE ~front.journey /\ ~front.pulse /\ front.panel = "closed" /\ front.flow = "closed" /\ ~front.policy
  <2>1. screen = front.tab
    BY <1>1, <1>7 DEF screen, Screen
  <2>. QED
    BY <1>1, <1>7, <2>1 DEF Tabs
<1>. QED
  BY <1>1, <1>2, <1>3, <1>4, <1>5, <1>6, <1>7

(* Turning to flags that hide no more leaves nothing behind, whether or not *)
(* the confirmation is withdrawn with the screen that asked for it.         *)
LEMMA ChangesTidy ==
    ASSUME front \in Flags, NEW f \in Flags, NEW c \in Chats, Changes(f, c)
    PROVE  /\ front' \in Flags /\ chat' \in Chats
           /\ Hidden(front') = Hidden(f) /\ Screen(front') = Screen(f)
           /\ NoMore(f, front) => Hidden(front') \subseteq Hidden(front)
<1>1. front' = f \/ front' = [f EXCEPT !.confirm = FALSE]
  BY DEF Changes
<1>2. /\ front' \in Flags
      /\ front'.journey = f.journey /\ front'.pulse = f.pulse /\ front'.panel = f.panel
      /\ front'.flow = f.flow /\ front'.policy = f.policy /\ front'.tab = f.tab
  BY <1>1 DEF Flags
<1>3. chat' = c \/ chat' = [c EXCEPT !.answering = FALSE]
  BY DEF Changes, Unmounted
<1>4. chat' \in Chats
  BY <1>3 DEF Chats
<1>5. OpenScreens(front') = OpenScreens(f) /\ Screen(front') = Screen(f)
  BY <1>2 DEF OpenScreens, Screen
<1>6. Hidden(front') = Hidden(f)
  BY <1>5 DEF Hidden
<1>7. NoMore(f, front) => Hidden(f) \subseteq Hidden(front)
  BY NoMoreHidden
<1>. QED
  BY <1>2, <1>4, <1>5, <1>6, <1>7

LEMMA TurnsTidy ==
    ASSUME FTypeOK, NEW f \in Flags, NoMore(f, front), Turns(f)
    PROVE  Tidy
<1>1. chat \in Chats /\ front \in Flags
  BY DEF FTypeOK, Chats, Flags
<1>2. front' \in Flags /\ chat' \in Chats /\ Hidden(front') \subseteq Hidden(front)
  BY <1>1, ChangesTidy DEF Turns
<1>. QED
  BY <1>2 DEF Tidy, FTypeOK, Turns, Flags, Chats

LEMMA FrontInit == FInit => FTypeOK
<1>1. 0 \in 0..MaxMessages
  BY FrontAssumption
<1>. QED
  BY <1>1 DEF FInit, FTypeOK, Tabs, Panels

(* The moves that open a screen of their own or change the tab.             *)
LEMMA OpeningsTidy ==
    ASSUME FTypeOK,
           \/ NavigateTab \/ VerifyButton \/ ShowSettings \/ OpenPanel \/ PanelBack \/ ReplayOnboarding
           \/ OpenPolicy \/ PolicyBack \/ OpenGuide \/ OpenPulse
    PROVE  Tidy
<1>1. front \in Flags /\ FTypeOK
  BY DEF FTypeOK, Flags
<1>2. CASE NavigateTab
  <2>1. PICK t \in Tabs : Turns([front EXCEPT !.tab = t, !.toast = FALSE])
    BY <1>2 DEF NavigateTab
  <2>2. [front EXCEPT !.tab = t, !.toast = FALSE] \in Flags
    BY <1>1 DEF Flags
  <2>3. NoMore([front EXCEPT !.tab = t, !.toast = FALSE], front)
    BY <1>1 DEF NoMore, Flags
  <2>. QED
    BY <1>1, <2>1, <2>2, <2>3, TurnsTidy
<1>3. CASE VerifyButton
  <2>1. [front EXCEPT !.journey = TRUE, !.pulse = FALSE, !.flow = "closed", !.policy = FALSE] \in Flags
    BY <1>1 DEF Flags
  <2>2. front.panel = "closed"
    BY <1>1, <1>3, ScreenSays DEF VerifyButton, InTab
  <2>3. NoMore([front EXCEPT !.journey = TRUE, !.pulse = FALSE, !.flow = "closed", !.policy = FALSE], front)
    BY <1>1, <2>2 DEF NoMore, Flags
  <2>. QED
    BY <1>1, <1>3, <2>1, <2>3, TurnsTidy DEF VerifyButton
<1>4. CASE ShowSettings
  <2>1. PICK p \in Panels : Turns(SettingsOnly(p))
    BY <1>4 DEF ShowSettings, Panels
  <2>2. SettingsOnly(p) \in Flags
    BY <1>1 DEF Flags, SettingsOnly
  <2>3. NoMore(SettingsOnly(p), front)
    BY <1>1, <1>4 DEF NoMore, Flags, SettingsOnly, ShowSettings, HeaderShown
  <2>. QED
    BY <1>1, <2>1, <2>2, <2>3, TurnsTidy
<1>5. CASE OpenPanel
  <2>1. PICK p \in Panels : Turns([front EXCEPT !.panel = p])
    BY <1>5 DEF OpenPanel
  <2>2. [front EXCEPT !.panel = p] \in Flags
    BY <1>1 DEF Flags
  <2>3. ~front.pulse /\ front.panel # "closed"
    BY <1>1, <1>5, ScreenSays DEF OpenPanel
  <2>4. NoMore([front EXCEPT !.panel = p], front)
    BY <1>1, <2>3 DEF NoMore, Flags
  <2>. QED
    BY <1>1, <2>1, <2>2, <2>4, TurnsTidy
<1>6. CASE PanelBack
  <2>. DEFINE p == IF front.panel = "root" THEN "closed" ELSE "root"
  <2>1. Turns([front EXCEPT !.panel = p]) /\ p \in Panels \cup {"closed"}
    BY <1>6 DEF PanelBack, Panels
  <2>. HIDE DEF p
  <2>2. [front EXCEPT !.panel = p] \in Flags
    BY <1>1, <2>1 DEF Flags
  <2>3. ~front.pulse /\ front.panel # "closed"
    BY <1>1, <1>6, ScreenSays DEF PanelBack
  <2>4. NoMore([front EXCEPT !.panel = p], front)
    BY <1>1, <2>3 DEF NoMore, Flags
  <2>. QED
    BY <1>1, <2>1, <2>2, <2>4, TurnsTidy
<1>7. CASE ReplayOnboarding
  <2>. DEFINE f == [front EXCEPT !.panel = "closed", !.pulse = FALSE, !.flow = "closed", !.policy = FALSE, !.journey = TRUE]
  <2>1. f \in Flags
    BY <1>1 DEF Flags
  <2>2. NoMore(f, front)
    BY <1>1 DEF NoMore, Flags
  <2>. QED
    BY <1>1, <1>7, <2>1, <2>2, TurnsTidy DEF ReplayOnboarding
<1>8. CASE OpenPolicy
  <2>1. ~front.journey /\ ~front.pulse /\ front.panel = "closed" /\ front.flow = "closed" /\ ~front.policy
    BY <1>1, <1>8, ScreenSays DEF OpenPolicy, Tabs
  <2>2. [front EXCEPT !.policy = TRUE] \in Flags
    BY <1>1 DEF Flags
  <2>3. NoMore([front EXCEPT !.policy = TRUE], front)
    BY <1>1, <2>1 DEF NoMore, Flags
  <2>. QED
    BY <1>1, <1>8, <2>2, <2>3, TurnsTidy DEF OpenPolicy
<1>9. CASE PolicyBack
  <2>1. [front EXCEPT !.policy = FALSE] \in Flags
    BY <1>1 DEF Flags
  <2>2. NoMore([front EXCEPT !.policy = FALSE], front)
    BY <1>1 DEF NoMore, Flags
  <2>. QED
    BY <1>1, <1>9, <2>1, <2>2, TurnsTidy DEF PolicyBack
<1>10. CASE OpenGuide
  <2>1. [front EXCEPT !.tab = "assistant"] \in Flags
    BY <1>1 DEF Flags, Tabs
  <2>2. NoMore([front EXCEPT !.tab = "assistant"], front)
    BY <1>1 DEF NoMore, Flags
  <2>. QED
    BY <1>1, <1>10, <2>1, <2>2, TurnsTidy DEF OpenGuide
<1>11. CASE OpenPulse
  <2>1. ~front.journey /\ ~front.pulse /\ front.panel = "closed" /\ front.flow = "closed" /\ ~front.policy
    BY <1>1, <1>11, ScreenSays DEF OpenPulse, Tabs
  <2>2. [front EXCEPT !.pulse = TRUE] \in Flags
    BY <1>1 DEF Flags
  <2>3. NoMore([front EXCEPT !.pulse = TRUE], front)
    BY <1>1, <2>1 DEF NoMore, Flags
  <2>. QED
    BY <1>1, <1>11, <2>2, <2>3, TurnsTidy DEF OpenPulse
<1>. QED
  BY <1>2, <1>3, <1>4, <1>5, <1>6, <1>7, <1>8, <1>9, <1>10, <1>11

(* The moves that end something, and those inside a screen.                 *)
LEMMA EndingsTidy ==
    ASSUME FTypeOK,
           \/ AskRemoval \/ CancelRemoval \/ ConfirmRemoval \/ RemovalEnds \/ LockSession
           \/ JourneyEnds \/ LeavePulse \/ LeaveFlow \/ Toast
    PROVE  Tidy
<1>1. /\ front \in Flags /\ FTypeOK /\ chat \in Chats
      /\ held \in [session : BOOLEAN, credential : BOOLEAN] /\ under \in [vote : BOOLEAN, removal : BOOLEAN]
  BY DEF FTypeOK, Flags, Chats
<1>2. Forgotten \in Chats
  BY FrontAssumption DEF Forgotten, Chats
<1>11. NoMore(front, front)
  BY DEF NoMore
<1>3. ASSUME NEW f \in Flags, NEW c \in Chats, NoMore(f, front), Changes(f, c),
             held' \in [session : BOOLEAN, credential : BOOLEAN], under' \in [vote : BOOLEAN, removal : BOOLEAN]
      PROVE  Tidy
  <2>1. front' \in Flags /\ chat' \in Chats /\ Hidden(front') \subseteq Hidden(front)
    BY <1>1, <1>3, ChangesTidy
  <2>. QED
    BY <1>3, <2>1 DEF Tidy, FTypeOK, Flags, Chats
<1>4. CASE AskRemoval \/ CancelRemoval
  <2>1. PICK b \in BOOLEAN : Turns([front EXCEPT !.confirm = b])
    BY <1>4 DEF AskRemoval, CancelRemoval
  <2>2. [front EXCEPT !.confirm = b] \in Flags
    BY <1>1 DEF Flags
  <2>3. NoMore([front EXCEPT !.confirm = b], front)
    BY <1>1 DEF NoMore, Flags
  <2>. QED
    BY <1>1, <2>1, <2>2, <2>3, TurnsTidy
<1>5. CASE ConfirmRemoval
  <2>1. under' \in [vote : BOOLEAN, removal : BOOLEAN] /\ held' = held /\ Changes(front, Forgotten)
    BY <1>1, <1>5 DEF ConfirmRemoval
  <2>. QED
    BY <1>1, <1>2, <1>3, <1>11, <2>1
<1>6. CASE RemovalEnds
  <2>. DEFINE f == [front EXCEPT !.toast = FALSE]
  <2>1. /\ under' \in [vote : BOOLEAN, removal : BOOLEAN] /\ held' \in [session : BOOLEAN, credential : BOOLEAN]
        /\ Changes(f, chat)
    BY <1>1, <1>6 DEF RemovalEnds
  <2>2. f \in Flags
    BY <1>1 DEF Flags
  <2>3. NoMore(f, front)
    BY <1>1 DEF NoMore, Flags
  <2>. HIDE DEF f
  <2>. QED
    BY <1>1, <1>3, <2>1, <2>2, <2>3
<1>7. CASE LockSession
  <2>1. under' = under /\ held' \in [session : BOOLEAN, credential : BOOLEAN] /\ Changes(front, Forgotten)
    BY <1>1, <1>7 DEF LockSession
  <2>. QED
    BY <1>1, <1>2, <1>3, <1>11, <2>1
<1>8. CASE JourneyEnds
  <2>. DEFINE f == [front EXCEPT !.journey = FALSE, !.tab = "discover"]
  <2>1. under' = under /\ Changes(f, chat)
    BY <1>8 DEF JourneyEnds
  <2>2. held' \in [session : BOOLEAN, credential : BOOLEAN]
    BY <1>1, <1>8 DEF JourneyEnds
  <2>3. f \in Flags
    BY <1>1 DEF Flags, Tabs
  <2>4. NoMore(f, front)
    BY <1>1 DEF NoMore, Flags
  <2>. HIDE DEF f
  <2>. QED
    BY <1>1, <1>3, <2>1, <2>2, <2>3, <2>4
<1>9. CASE LeavePulse
  <2>1. PICK t \in Tabs, b \in BOOLEAN :
           Changes([front EXCEPT !.pulse = FALSE, !.tab = t], [chat EXCEPT !.reflection = b])
    <3>1. CASE Changes([front EXCEPT !.pulse = FALSE], chat)
      <4>1. [front EXCEPT !.pulse = FALSE] = [front EXCEPT !.pulse = FALSE, !.tab = front.tab]
        BY <1>1 DEF Flags
      <4>2. chat = [chat EXCEPT !.reflection = chat.reflection]
        BY <1>1 DEF Chats
      <4>3. front.tab \in Tabs /\ chat.reflection \in BOOLEAN
        BY <1>1 DEF Flags, Chats
      <4>4. Changes([front EXCEPT !.pulse = FALSE, !.tab = front.tab], [chat EXCEPT !.reflection = chat.reflection])
        BY <3>1, <4>1, <4>2
      <4>. QED
        BY <4>3, <4>4
    <3>2. CASE Changes([front EXCEPT !.pulse = FALSE, !.tab = "assistant"], [chat EXCEPT !.reflection = TRUE])
      BY <3>2 DEF Tabs
    <3>. QED
      BY <1>9, <3>1, <3>2 DEF LeavePulse
  <2>2. held' = held /\ under' = under
    BY <1>9 DEF LeavePulse
  <2>3. [front EXCEPT !.pulse = FALSE, !.tab = t] \in Flags
    BY <1>1 DEF Flags
  <2>4. NoMore([front EXCEPT !.pulse = FALSE, !.tab = t], front)
    BY <1>1 DEF NoMore, Flags
  <2>5. [chat EXCEPT !.reflection = b] \in Chats
    BY <1>1 DEF Chats
  <2>. QED
    BY <1>1, <1>3, <2>1, <2>2, <2>3, <2>4, <2>5
<1>10. CASE LeaveFlow \/ Toast
  <2>1. CASE Turns([front EXCEPT !.flow = "closed"])
    <3>1. [front EXCEPT !.flow = "closed"] \in Flags
      BY <1>1 DEF Flags
    <3>2. NoMore([front EXCEPT !.flow = "closed"], front)
      BY <1>1 DEF NoMore, Flags
    <3>. QED
      BY <1>1, <2>1, <3>1, <3>2, TurnsTidy
  <2>2. CASE Turns([front EXCEPT !.flow = "closed", !.tab = "activity"])
    <3>1. [front EXCEPT !.flow = "closed", !.tab = "activity"] \in Flags
      BY <1>1 DEF Flags, Tabs
    <3>2. NoMore([front EXCEPT !.flow = "closed", !.tab = "activity"], front)
      BY <1>1 DEF NoMore, Flags
    <3>. QED
      BY <1>1, <2>2, <3>1, <3>2, TurnsTidy
  <2>3. CASE Turns([front EXCEPT !.toast = FALSE, !.flow = "closed", !.tab = "activity"])
    <3>1. [front EXCEPT !.toast = FALSE, !.flow = "closed", !.tab = "activity"] \in Flags
      BY <1>1 DEF Flags, Tabs
    <3>2. NoMore([front EXCEPT !.toast = FALSE, !.flow = "closed", !.tab = "activity"], front)
      BY <1>1 DEF NoMore, Flags
    <3>. QED
      BY <1>1, <2>3, <3>1, <3>2, TurnsTidy
  <2>4. CASE Turns([front EXCEPT !.toast = FALSE])
    <3>1. [front EXCEPT !.toast = FALSE] \in Flags
      BY <1>1 DEF Flags
    <3>2. NoMore([front EXCEPT !.toast = FALSE], front)
      BY <1>1 DEF NoMore, Flags
    <3>. QED
      BY <1>1, <2>4, <3>1, <3>2, TurnsTidy
  <2>. QED
    BY <1>10, <2>1, <2>2, <2>3, <2>4 DEF LeaveFlow, Toast
<1>. QED
  BY <1>4, <1>5, <1>6, <1>7, <1>8, <1>9, <1>10

LEMMA TidyLeavesNone == Tidy => FTypeOK' /\ LeavesNone
BY DEF Tidy, LeavesNone

(* The two that may leave a screen behind: the vote flow and its end.       *)
LEMMA FlowsLeaveNone ==
    ASSUME FTypeOK, BeginFlow \/ VoteEnds
    PROVE  FTypeOK' /\ LeavesNone
<1>1. /\ front \in Flags /\ chat \in Chats
      /\ held \in [session : BOOLEAN, credential : BOOLEAN] /\ under \in [vote : BOOLEAN, removal : BOOLEAN]
  BY DEF FTypeOK, Flags, Chats
<1>2. ASSUME BeginFlow, Turns([front EXCEPT !.flow = "voting", !.policy = FALSE, !.toast = FALSE]),
             screen \in {"discover", "policy"}
      PROVE  FTypeOK' /\ LeavesNone
  <2>1. [front EXCEPT !.flow = "voting", !.policy = FALSE, !.toast = FALSE] \in Flags
    BY <1>1 DEF Flags
  <2>2. ~front.journey /\ ~front.pulse /\ front.panel = "closed"
    BY <1>1, <1>2, ScreenSays DEF Tabs
  <2>3. NoMore([front EXCEPT !.flow = "voting", !.policy = FALSE, !.toast = FALSE], front)
    BY <1>1, <2>2 DEF NoMore, Flags
  <2>. QED
    BY <1>2, <2>1, <2>3, TurnsTidy, TidyLeavesNone
<1>3. ASSUME BeginFlow, screen = "policy", Turns([front EXCEPT !.journey = TRUE])
      PROVE  FTypeOK' /\ LeavesNone
  <2>. DEFINE f == [front EXCEPT !.journey = TRUE]
  <2>1. f \in Flags
    BY <1>1 DEF Flags
  <2>2. /\ f.journey /\ ~f.pulse /\ f.panel = "closed" /\ f.flow = "closed"
    BY <1>1, <1>3, ScreenSays DEF Flags
  <2>. HIDE DEF f
  <2>3. Changes(f, chat) /\ UNCHANGED <<held, under>>
    BY <1>3 DEF Turns, f
  <2>4. Hidden(f) \subseteq {"policy"} /\ Screen(f) = "journey"
    BY <2>1, <2>2, HiddenSays DEF Screen
  <2>5. /\ front' \in Flags /\ chat' \in Chats
        /\ Hidden(front') \subseteq {"policy"} /\ Screen(front') = "journey"
    BY <1>1, <2>1, <2>3, <2>4, ChangesTidy
  <2>6. FTypeOK'
    BY <1>1, <2>3, <2>5 DEF FTypeOK, Flags, Chats
  <2>. QED
    BY <1>3, <2>5, <2>6 DEF LeavesNone
<1>4. ASSUME VoteEnds, NEW f \in Flags, Changes(f, chat),
             f.journey = front.journey, f.pulse = front.pulse, f.panel = front.panel
      PROVE  FTypeOK' /\ LeavesNone
  <2>1. /\ under.vote /\ ~under'.vote /\ held' = held
        /\ under' \in [vote : BOOLEAN, removal : BOOLEAN]
    BY <1>1, <1>4 DEF VoteEnds
  <2>2. front' \in Flags /\ chat' \in Chats /\ Hidden(front') = Hidden(f)
    BY <1>1, <1>4, ChangesTidy
  <2>3. Hidden(f) \ Hidden(front) \subseteq {"flow", "policy"}
    BY <1>1, <1>4, HiddenSays
  <2>4. FTypeOK'
    BY <1>1, <2>1, <2>2 DEF FTypeOK, Flags, Chats
  <2>. QED
    BY <2>1, <2>2, <2>3, <2>4 DEF LeavesNone
<1>5. CASE VoteEnds
  <2>1. CASE Changes([front EXCEPT !.flow = "receipt", !.toast = TRUE], chat)
    <3>. DEFINE f == [front EXCEPT !.flow = "receipt", !.toast = TRUE]
    <3>1. f \in Flags /\ f.journey = front.journey /\ f.pulse = front.pulse /\ f.panel = front.panel
      BY <1>1 DEF Flags
    <3>. QED
      BY <1>4, <1>5, <2>1, <3>1
  <2>2. CASE Changes([front EXCEPT !.flow = "voting"], chat)
    <3>. DEFINE f == [front EXCEPT !.flow = "voting"]
    <3>1. f \in Flags /\ f.journey = front.journey /\ f.pulse = front.pulse /\ f.panel = front.panel
      BY <1>1 DEF Flags
    <3>. QED
      BY <1>4, <1>5, <2>2, <3>1
  <2>. QED
    BY <1>5, <2>1, <2>2 DEF VoteEnds
<1>. QED
  BY <1>2, <1>3, <1>5 DEF BeginFlow

LEMMA FrontNext == FTypeOK /\ [FNext]_fvars => FTypeOK' /\ [LeavesNone]_fvars
<1>. SUFFICES ASSUME FTypeOK, [FNext]_fvars PROVE FTypeOK' /\ [LeavesNone]_fvars
  OBVIOUS
<1>1. CASE \/ NavigateTab \/ VerifyButton \/ ShowSettings \/ OpenPanel \/ PanelBack \/ ReplayOnboarding
           \/ OpenPolicy \/ PolicyBack \/ OpenGuide \/ OpenPulse
  BY <1>1, OpeningsTidy, TidyLeavesNone
<1>2. CASE \/ AskRemoval \/ CancelRemoval \/ ConfirmRemoval \/ RemovalEnds \/ LockSession
           \/ JourneyEnds \/ LeavePulse \/ LeaveFlow \/ Toast
  BY <1>2, EndingsTidy, TidyLeavesNone
<1>3. CASE ConnectFromProfile
  BY <1>3 DEF ConnectFromProfile, FTypeOK, LeavesNone
<1>4. CASE SendVote
  BY <1>4 DEF SendVote, FTypeOK, LeavesNone
<1>5. CASE Send \/ RevealAnswer \/ ClearChat \/ DropReflection
  <2>1. UNCHANGED <<front, held, under>>
    BY <1>5 DEF Send, RevealAnswer, ClearChat, DropReflection
  <2>2. chat \in Chats
    BY DEF FTypeOK, Chats
  <2>3. chat' \in Chats
    <3>0. chat.messages \in 0..MaxMessages
      BY <2>2 DEF Chats
    <3>. DEFINE n == IF chat.messages < MaxMessages THEN chat.messages + 1 ELSE chat.messages
    <3>1. n \in 0..MaxMessages
      BY <3>0, FrontAssumption
    <3>3. Added = [chat EXCEPT !.messages = n, !.answering = FALSE]
      BY DEF Added
    <3>. HIDE DEF n
    <3>4. Added \in Chats
      BY <2>2, <3>1, <3>3 DEF Chats
    <3>5. Forgotten \in Chats
      BY FrontAssumption DEF Forgotten, Chats
    <3>2. [chat EXCEPT !.answering = TRUE] \in Chats /\ [chat EXCEPT !.reflection = FALSE] \in Chats
      BY <2>2 DEF Chats
    <3>. QED
      BY <1>5, <3>2, <3>4, <3>5 DEF Send, RevealAnswer, ClearChat, DropReflection
  <2>. QED
    BY <2>1, <2>3 DEF FTypeOK, LeavesNone, Chats
<1>6. CASE UNCHANGED fvars
  BY <1>6 DEF fvars, FTypeOK
<1>7. CASE BeginFlow \/ VoteEnds
  BY <1>7, FlowsLeaveNone
<1>. QED
  BY <1>1, <1>2, <1>3, <1>4, <1>5, <1>6, <1>7 DEF FNext

(* No step leaves a screen open behind the one it shows, in whatever order  *)
(* the buttons are pressed and votes, removals and journeys end, except a   *)
(* vote that ends under another screen and the journey opened from a policy *)
(* (CivicRuntime).                                                          *)
THEOREM NothingLeftBehind == FSpec => NoScreenForgotten
BY FrontInit, FrontNext, PTL DEF FSpec, NoScreenForgotten

(***************************************************************************)
(* WalletSession: only the newest attempt that has not yet answered can    *)
(* bring a wallet, so the session it finds has no wallet and no providers. *)
(***************************************************************************)

WalletInv ==
    /\ WTypeOK /\ ProvidersFollowWallet
    /\ api # NoApi => conn[api] = "over" /\ (build[api] = "sponsored" => providers = api)

LEMMA WalletInit == WInit => WalletInv
<1>. SUFFICES ASSUME WInit PROVE WalletInv
  OBVIOUS
<1>1. 0 \in 0..MaxAttempts
  BY WalletAssumption
<1>2. WTypeOK
  BY <1>1 DEF WInit, WTypeOK, Statuses, NoApi
<1>. QED
  BY <1>2 DEF WInit, WalletInv, ProvidersFollowWallet, ShownWalletIsNewest, NoApi

(* A session that is taken down leaves nothing behind.                      *)
LEMMA TakenDown ==
    ASSUME WTypeOK, NEW s \in Statuses \ {"connected"}, Shows(s, NoApi),
           attempt' \in 0..MaxAttempts,
           conn' \in [Attempts -> {"none", "wallet", "status", "addresses", "over"}],
           checks' \subseteq Attempts, hints' \subseteq Attempts
    PROVE  WalletInv'
<1>1. /\ status' = s /\ api' = 0 /\ ref' = 0 /\ granted' = 0
      /\ providers' = 0 /\ sponsored' = 0 /\ mode' = "direct" /\ build' = build
  BY DEF Shows, NoApi
<1>2. 0 \in 0..MaxAttempts
  BY WalletAssumption
<1>3. WTypeOK'
  BY <1>1, <1>2 DEF WTypeOK
<1>. QED
  BY <1>1, <1>3 DEF WalletInv, ProvidersFollowWallet, ShownWalletIsNewest, NoApi

LEMMA WalletConnects == WalletInv /\ (Connect \/ Disconnect) => WalletInv'
<1>. SUFFICES ASSUME WalletInv, Connect \/ Disconnect PROVE WalletInv'
  OBVIOUS
<1>1. WTypeOK
  BY DEF WalletInv
<1>2. attempt + 1 \in Attempts /\ attempt' = attempt + 1 /\ checks' = checks /\ hints' = hints
  BY <1>1, WalletAssumption DEF Connect, Disconnect, WTypeOK, Attempts
<1>3. attempt' \in 0..MaxAttempts /\ checks' \subseteq Attempts /\ hints' \subseteq Attempts
  BY <1>1, <1>2, WalletAssumption DEF WTypeOK, Attempts
<1>4. conn' \in [Attempts -> {"none", "wallet", "status", "addresses", "over"}]
  BY <1>1, <1>2 DEF Connect, Disconnect, WTypeOK
<1>5. PICK s \in Statuses \ {"connected"} : Shows(s, NoApi)
  BY DEF Connect, Disconnect, Statuses
<1>. QED
  BY <1>1, <1>3, <1>4, <1>5, TakenDown

LEMMA WalletAnswered ==
    ASSUME WalletInv, NEW a \in Attempts, WalletAnswers(a) \/ Connected(a) \/ ConnectFails(a)
    PROVE  WalletInv'
<1>1. WTypeOK
  BY DEF WalletInv
<1>2. conn' \in [Attempts -> {"none", "wallet", "status", "addresses", "over"}]
  BY <1>1 DEF WalletAnswers, Connected, ConnectFails, Ends, WTypeOK
<1>3. conn[a] # "over" /\ \A b \in Attempts : b # a => conn'[b] = conn[b]
  BY <1>1 DEF WalletAnswers, Connected, ConnectFails, Ends, WTypeOK
<1>4. UNCHANGED <<attempt, checks, hints>>
  BY DEF WalletAnswers, Connected, ConnectFails
<1>5. ASSUME UNCHANGED <<status, api, ref, granted, build, providers, sponsored, mode>>
      PROVE  WalletInv'
  <2>1. WTypeOK'
    BY <1>1, <1>2, <1>4, <1>5 DEF WTypeOK
  <2>2. ProvidersFollowWallet'
    BY <1>4, <1>5 DEF WalletInv, ProvidersFollowWallet, ShownWalletIsNewest
  <2>3. ASSUME api # NoApi PROVE api \in Attempts /\ conn'[api] = "over"
    <3>1. api \in Attempts /\ conn[api] = "over"
      BY <1>1, <2>3 DEF WalletInv, WTypeOK, Attempts, NoApi
    <3>. QED
      BY <1>3, <3>1
  <2>. QED
    BY <1>5, <2>1, <2>2, <2>3 DEF WalletInv
<1>6. ASSUME NEW s \in Statuses \ {"connected"}, Shows(s, NoApi) PROVE WalletInv'
  <2>1. attempt' \in 0..MaxAttempts /\ checks' \subseteq Attempts /\ hints' \subseteq Attempts
    BY <1>1, <1>4 DEF WTypeOK
  <2>. QED
    BY <1>1, <1>2, <1>6, <2>1, TakenDown
<1>7. CASE Connected(a) /\ Current(a)
  <2>1. api = 0
    <3>1. api # NoApi => api = a /\ conn[a] = "over"
      BY <1>7 DEF WalletInv, ProvidersFollowWallet, ShownWalletIsNewest, Current
    <3>. QED
      BY <1>3, <3>1 DEF NoApi
  <2>2. providers = 0 /\ sponsored = 0 /\ mode = "direct"
    BY <1>1, <2>1 DEF WalletInv, ProvidersFollowWallet, NoApi, WTypeOK
  <2>3. a # NoApi /\ a \in 0..MaxAttempts /\ a = attempt
    BY <1>7 DEF Attempts, NoApi, Current
  <2>4. /\ status' = "connected" /\ api' = a /\ ref' = a /\ granted' = 0
        /\ build' = [build EXCEPT ![a] = "direct"] /\ UNCHANGED <<providers, sponsored, mode>>
    BY <1>7, <2>3 DEF Connected, Shows, NoApi
  <2>5. build' \in [Attempts -> {"none", "direct", "sponsored", "over"}] /\ build'[a] = "direct"
    BY <1>1, <2>4 DEF WTypeOK
  <2>6. conn'[a] = "over"
    BY <1>1, <1>7 DEF Connected, Ends, WTypeOK
  <2>7. WTypeOK'
    BY <1>1, <1>2, <1>4, <2>3, <2>4, <2>5, WalletAssumption DEF WTypeOK, Statuses
  <2>. QED
    BY <1>4, <2>2, <2>3, <2>4, <2>5, <2>6, <2>7
       DEF WalletInv, ProvidersFollowWallet, ShownWalletIsNewest, NoApi
<1>8. CASE WalletAnswers(a) \/ ~Current(a)
  BY <1>5, <1>8 DEF WalletAnswers, Connected, ConnectFails
<1>9. CASE ConnectFails(a) /\ Current(a)
  <2>1. PICK s \in Statuses \ {"connected"} : Shows(s, NoApi)
    BY <1>9 DEF ConnectFails, Statuses
  <2>. QED
    BY <1>6, <2>1
<1>. QED
  BY <1>7, <1>8, <1>9

(* The questions to a connected wallet, and what their answers do.          *)
LEMMA WalletAsked ==
    ASSUME WalletInv, NEW a \in Attempts,
           CheckConnection \/ RequestActionPermissions \/ CheckAnswers(a) \/ PermissionsAnswer(a)
    PROVE  WalletInv'
<1>1. /\ WTypeOK /\ ref = api /\ api \in 0..MaxAttempts
      /\ status = "connected" => api # 0
  BY DEF WalletInv, ProvidersFollowWallet, ShownWalletIsNewest, WTypeOK, NoApi
<1>2. checks' \subseteq Attempts /\ hints' \subseteq Attempts /\ conn' = conn
  <2>1. CASE CheckConnection
    BY <1>1, <2>1 DEF CheckConnection, WTypeOK, Attempts
  <2>2. CASE RequestActionPermissions
    BY <1>1, <2>2 DEF RequestActionPermissions, WTypeOK, Attempts, NoApi
  <2>3. CASE CheckAnswers(a) \/ PermissionsAnswer(a)
    BY <1>1, <2>3 DEF CheckAnswers, PermissionsAnswer, WTypeOK
  <2>. QED
    BY <2>1, <2>2, <2>3
<1>3. CASE Lost(a, {"reconnecting", "wrong-network"}) \/ Lost(a, {"reconnecting"})
  <2>1. PICK s \in Statuses \ {"connected"} : Shows(s, NoApi)
    BY <1>3 DEF Lost, Statuses
  <2>2. attempt' \in 0..MaxAttempts
    BY <1>1, <1>3, WalletAssumption DEF Lost, WTypeOK
  <2>3. conn' \in [Attempts -> {"none", "wallet", "status", "addresses", "over"}]
    BY <1>1, <1>2 DEF WTypeOK
  <2>. QED
    BY <1>1, <1>2, <2>1, <2>2, <2>3, TakenDown
<1>4. CASE /\ granted' \in {granted, api}
           /\ UNCHANGED <<attempt, status, api, ref, build, providers, sponsored, mode>>
  <2>1. WTypeOK'
    BY <1>1, <1>2, <1>4 DEF WTypeOK
  <2>. QED
    BY <1>2, <1>4, <2>1 DEF WalletInv, ProvidersFollowWallet, ShownWalletIsNewest
<1>. QED
  BY <1>1, <1>3, <1>4 DEF CheckConnection, RequestActionPermissions, CheckAnswers, PermissionsAnswer, Still

(* The construction of providers on a wallet, shown or already gone.        *)
LEMMA WalletBuilds ==
    ASSUME WalletInv, NEW a \in Attempts, DirectBuilt(a) \/ SponsoredBuilt(a)
    PROVE  WalletInv'
<1>1. /\ WTypeOK /\ a # 0 /\ a \in 0..MaxAttempts /\ 0 \in 0..MaxAttempts
      /\ UNCHANGED <<attempt, status, api, ref, conn, checks, hints, granted>>
  BY WalletAssumption DEF WalletInv, DirectBuilt, SponsoredBuilt, Attempts
<1>2. /\ build' \in [Attempts -> {"none", "direct", "sponsored", "over"}]
      /\ \A b \in Attempts : b # a => build'[b] = build[b]
  BY <1>1 DEF DirectBuilt, SponsoredBuilt, WTypeOK
<1>3. api # 0 => api \in Attempts
  BY <1>1 DEF WTypeOK, Attempts
<1>4. CASE api # a
  <2>1. UNCHANGED <<providers, sponsored, mode>>
    BY <1>4 DEF DirectBuilt, SponsoredBuilt, Live
  <2>2. WTypeOK'
    BY <1>1, <1>2, <2>1 DEF WTypeOK
  <2>3. api # 0 => build'[api] = build[api]
    BY <1>2, <1>3, <1>4
  <2>. QED
    BY <1>1, <2>1, <2>2, <2>3 DEF WalletInv, ProvidersFollowWallet, ShownWalletIsNewest, NoApi
<1>5. CASE api = a
  <2>1. \/ build'[a] = "sponsored" /\ providers' = a /\ UNCHANGED <<sponsored, mode>>
        \/ build'[a] = "over" /\ providers' = 0 /\ sponsored' = 0 /\ mode' = "direct"
        \/ build'[a] = "over" /\ build[a] = "sponsored" /\ providers' = providers /\ sponsored' = a /\ mode' = mode
        \/ build'[a] = "over" /\ providers' = providers /\ sponsored' = 0 /\ mode' = "direct"
    BY <1>1, <1>5 DEF DirectBuilt, SponsoredBuilt, Live, WTypeOK, NoApi
  <2>2. WTypeOK'
    BY <1>1, <1>2, <2>1 DEF WTypeOK
  <2>. QED
    BY <1>1, <1>5, <2>1, <2>2 DEF WalletInv, ProvidersFollowWallet, ShownWalletIsNewest, NoApi
<1>. QED
  BY <1>4, <1>5

LEMMA WalletNext == WalletInv /\ [WNext]_wvars => WalletInv'
<1>. SUFFICES ASSUME WalletInv, [WNext]_wvars PROVE WalletInv'
  OBVIOUS
<1>1. CASE Connect \/ Disconnect
  BY <1>1, WalletConnects
<1>2. CASE CheckConnection \/ RequestActionPermissions
  <2>1. 1 \in Attempts
    BY <1>2, WalletAssumption DEF WalletInv, WTypeOK, ProvidersFollowWallet, ShownWalletIsNewest,
       CheckConnection, RequestActionPermissions, Attempts, NoApi
  <2>. QED
    BY <1>2, <2>1, WalletAsked
<1>3. ASSUME NEW a \in Attempts,
             Answers(a) \/ CheckAnswers(a) \/ PermissionsAnswer(a) \/ DirectBuilt(a) \/ SponsoredBuilt(a)
      PROVE  WalletInv'
  BY <1>3, WalletAnswered, WalletAsked, WalletBuilds DEF Answers
<1>4. ASSUME NEW m \in {"direct", "sponsored"}, SetExecutionMode(m) PROVE WalletInv'
  BY <1>4 DEF SetExecutionMode, MayChoose, WalletInv, WTypeOK, ProvidersFollowWallet, ShownWalletIsNewest
<1>5. CASE UNCHANGED wvars
  BY <1>5 DEF wvars, WalletInv, WTypeOK, ProvidersFollowWallet, ShownWalletIsNewest
<1>. QED
  BY <1>1, <1>2, <1>3, <1>4, <1>5 DEF WNext

(* What an action would use, its permissions, its direct and its sponsored *)
(* providers, belongs to the wallet on screen, and that is the wallet of    *)
(* the newest connect, however late the extension answers (WalletProvider, *)
(* MidnightProvidersProvider).                                              *)
THEOREM WalletIsFollowed == WSpec => []ProvidersFollowWallet
<1>1. WalletInv => ProvidersFollowWallet
  BY DEF WalletInv
<1>. QED
  BY <1>1, WalletInit, WalletNext, PTL DEF WSpec

(***************************************************************************)
(* PassportBridge: an approval under way is an approval the user gave, and *)
(* what a handshake takes for one is an answer to its own pair.            *)
(***************************************************************************)

BridgeInv ==
    /\ BTypeOK /\ SessionApproved
    /\ \A m \in flight : m.approved => m \in approved

LEMMA BridgeInit == BInit => BridgeInv
<1>. SUFFICES ASSUME BInit PROVE BridgeInv
  OBVIOUS
<1>1. 0 \in 0..MaxHandshakes /\ NoSession \in 0..NoSession
  BY BridgeAssumption DEF NoSession
<1>2. BTypeOK
  BY <1>1 DEF BInit, BTypeOK
<1>3. SessionApproved
  BY DEF BInit, SessionApproved
<1>. QED
  BY <1>2, <1>3 DEF BInit, BridgeInv

(* The handshakes themselves, and what ends one without an answer.          *)
LEMMA HandshakesKeepApproval ==
    ASSUME BridgeInv, NEW c \in Handshakes,
           ConnectPassport(c) \/ RequestCapability(c) \/ Ready(c) \/ GiveUp(c)
    PROVE  BridgeInv'
<1>1. BTypeOK
  BY DEF BridgeInv
<1>2. UNCHANGED <<embedded, flight, approved, session>>
  BY DEF ConnectPassport, RequestCapability, Handshake, Ready, GiveUp
<1>3. latched' = latched /\ c \in 0..MaxHandshakes /\ PairOf(c) \in 0..MaxHandshakes
  BY BridgeAssumption DEF ConnectPassport, RequestCapability, Handshake, Ready, GiveUp, Handshakes, PairOf
<1>4. PICK s \in {"opening", "asked", "failed"} : call' = [call EXCEPT ![c] = s]
  BY DEF ConnectPassport, RequestCapability, Handshake, Ready, GiveUp
<1>5. window' \in 0..MaxHandshakes /\ asked' \subseteq 0..MaxHandshakes
  BY <1>1, <1>3 DEF ConnectPassport, RequestCapability, Handshake, Ready, GiveUp, Open, BTypeOK
<1>6. BTypeOK'
  BY <1>1, <1>2, <1>3, <1>4, <1>5 DEF BTypeOK
<1>7. \A d \in Handshakes : call'[d] = "connected" => call[d] = "connected"
  BY <1>1, <1>4 DEF BTypeOK
<1>8. SessionApproved'
  BY <1>2, <1>7 DEF BridgeInv, SessionApproved
<1>. QED
  BY <1>2, <1>6, <1>8 DEF BridgeInv

LEMMA AnswersKeepApproval ==
    ASSUME BridgeInv, NEW m \in Responses, PassportAnswers(m)
    PROVE  BridgeInv'
<1>1. /\ BTypeOK /\ UNCHANGED <<embedded, latched, call, window, session>>
      /\ approved \subseteq approved'
  BY DEF BridgeInv, PassportAnswers
<1>2. BTypeOK'
  <2>1. flight' \subseteq Responses /\ asked' \subseteq 0..MaxHandshakes
    BY <1>1 DEF BTypeOK, PassportAnswers
  <2>2. approved' = approved \/ approved' = approved \cup {m}
    BY DEF PassportAnswers
  <2>3. approved' \subseteq Responses
    BY <1>1, <2>2 DEF BTypeOK
  <2>. QED
    BY <1>1, <2>1, <2>3 DEF BTypeOK
<1>3. SessionApproved'
  BY <1>1 DEF BridgeInv, SessionApproved
<1>4. \A n \in flight' : n.approved => n \in approved'
  BY DEF BridgeInv, PassportAnswers
<1>. QED
  BY <1>2, <1>3, <1>4 DEF BridgeInv

LEMMA DeliveryKeepsApproval ==
    ASSUME BridgeInv, NEW m \in Responses, Deliver(m)
    PROVE  BridgeInv'
<1>. DEFINE to == {c \in Handshakes : call[c] = "asked" /\ Matches(c, m)}
<1>1. /\ BTypeOK /\ UNCHANGED <<embedded, latched, window, asked, approved>>
      /\ m \in flight /\ flight' = flight \ {m}
      /\ session' = IF to # {} /\ Accepted(m) THEN m.pair ELSE session
      /\ call' = [c \in Handshakes |-> IF c \notin to THEN call[c]
                                       ELSE IF Accepted(m) THEN "connected" ELSE "failed"]
  BY DEF BridgeInv, Deliver
<1>2. Accepted(m) => m \in approved /\ m.network \in {Expected, NoNetwork}
  BY <1>1 DEF BridgeInv, Accepted
<1>3. m.pair \in 0..MaxHandshakes /\ m.pair \in 0..NoSession
  BY BridgeAssumption DEF Responses, NoSession
<1>4. BTypeOK'
  <2>1. call' \in [Handshakes -> {"idle", "opening", "asked", "connected", "failed"}]
    BY <1>1 DEF BTypeOK
  <2>2. session' \in 0..NoSession
    BY <1>1, <1>3 DEF BTypeOK
  <2>. QED
    BY <1>1, <2>1, <2>2 DEF BTypeOK
<1>5. session' # NoSession =>
        \E n \in approved : n.pair = session' /\ n.network \in {Expected, NoNetwork}
  BY <1>1, <1>2 DEF BridgeInv, SessionApproved
<1>6. ASSUME NEW c \in Handshakes, ~embedded, call'[c] = "connected"
      PROVE  \E n \in approved : n.pair = c
  <2>1. CASE c \in to
    <3>1. Accepted(m)
      BY <1>1, <1>6, <2>1
    <3>2. m.pair = c
      BY <1>6, <2>1 DEF Matches, PairOf
    <3>. QED
      BY <1>2, <3>1, <3>2
  <2>2. CASE c \notin to
    BY <1>1, <1>6, <2>2 DEF BridgeInv, SessionApproved
  <2>. QED
    BY <2>1, <2>2
<1>7. SessionApproved'
  BY <1>1, <1>5, <1>6 DEF SessionApproved
<1>8. \A n \in flight' : n.approved => n \in approved'
  BY <1>1 DEF BridgeInv
<1>. QED
  BY <1>4, <1>7, <1>8 DEF BridgeInv

LEMMA BridgeNext == BridgeInv /\ [BNext]_bvars => BridgeInv'
<1>. SUFFICES ASSUME BridgeInv, [BNext]_bvars PROVE BridgeInv'
  OBVIOUS
<1>1. CASE Latch \/ CloseWindow
  <2>1. latched' \in BOOLEAN
    <3>1. CASE Latch
      BY <3>1 DEF Latch
    <3>2. CASE CloseWindow
      BY <3>2, Zenon DEF CloseWindow, BridgeInv, BTypeOK
    <3>. QED
      BY <1>1, <3>1, <3>2
  <2>2. window' \in 0..MaxHandshakes
    BY <1>1, BridgeAssumption DEF Latch, CloseWindow, BridgeInv, BTypeOK
  <2>3. BTypeOK'
    BY <1>1, <2>1, <2>2, Zenon DEF Latch, CloseWindow, BridgeInv, BTypeOK
  <2>. QED
    BY <1>1, <2>3 DEF Latch, CloseWindow, BridgeInv, SessionApproved
<1>2. CASE DisconnectPassport
  <2>0. session' \in 0..NoSession
    BY <1>2, BridgeAssumption DEF DisconnectPassport, NoSession
  <2>1. BTypeOK'
    BY <1>2, <2>0 DEF DisconnectPassport, BridgeInv, BTypeOK
  <2>. QED
    BY <1>2, <2>1 DEF DisconnectPassport, BridgeInv, SessionApproved
<1>3. ASSUME NEW c \in Handshakes,
             ConnectPassport(c) \/ RequestCapability(c) \/ Ready(c) \/ GiveUp(c)
      PROVE  BridgeInv'
  BY <1>3, HandshakesKeepApproval
<1>4. ASSUME NEW m \in Responses, PassportAnswers(m) \/ Deliver(m) PROVE BridgeInv'
  BY <1>4, AnswersKeepApproval, DeliveryKeepsApproval
<1>5. CASE UNCHANGED bvars
  BY <1>5 DEF bvars, BridgeInv, BTypeOK, SessionApproved
<1>. QED
  BY <1>1, <1>2, <1>3, <1>4, <1>5 DEF BNext

(* A session with Passport stands on the user's approval of its very pair, *)
(* for the app's network, and a handshake of its own window on the approval *)
(* of its own request, whatever answers arrive late                         *)
(* (PassportIdentityBridge).                                                *)
THEOREM SessionIsApproved == BSpec => []SessionApproved
<1>1. BridgeInv => SessionApproved
  BY DEF BridgeInv
<1>. QED
  BY <1>1, BridgeInit, BridgeNext, PTL DEF BSpec

(***************************************************************************)
(* Onboarding: the attempt under way is one the journey on the screen      *)
(* shows that it waits for.                                                *)
(***************************************************************************)

Journeys ==
    [stages : Seq(Stages), session : Sessions, connecting : BOOLEAN,
     createdDemo : {"none", "18+", "under-18"}, documentOpen : BOOLEAN]

CallCounts == [current : BOOLEAN, outdated : Nat, application : Nat, removals : Nat]

Apps ==
    [session : Sessions, credential : Credentials, required : BOOLEAN,
     entry : {"welcome", "passport", "eligibility"}, voting : BOOLEAN]

JourneyInv ==
    /\ journey \in Journeys /\ calls \in CallCounts /\ app \in Apps
    /\ calls.current => journey.connecting
    /\ journey.connecting => IsOpen

(* A journey is opened without an attempt, and closed without one.          *)
LEMMA OpenedFits ==
    ASSUME NEW initial \in {"welcome", "passport", "eligibility"}, NEW s \in Sessions
    PROVE  /\ Opened(initial, s) \in Journeys /\ ~Opened(initial, s).connecting
           /\ Closed \in Journeys /\ ~Closed.connecting
<1>1. EntryStage(initial) \in Stages
  BY DEF EntryStage, Stages
<1>2. <<EntryStage(initial)>> \in Seq(Stages) /\ <<>> \in Seq(Stages)
  BY <1>1
<1>3. Closed \in Journeys /\ ~Closed.connecting
  BY <1>2 DEF Closed, Journeys, Sessions
<1>4. Opened(initial, s) \in Journeys
  BY <1>2, <1>3 DEF Opened, Journeys
<1>5. Opened(initial, s).connecting = Closed.connecting
  BY <1>3 DEF Opened, Journeys
<1>. QED
  BY <1>3, <1>4, <1>5

LEMMA OnboardingInit == OInit => JourneyInv
<1>. SUFFICES ASSUME OInit PROVE JourneyInv
  OBVIOUS
<1>1. journey \in Journeys /\ ~journey.connecting
  BY OpenedFits DEF OInit, Sessions
<1>2. calls \in CallCounts /\ ~calls.current
  BY DEF OInit, CallCounts
<1>3. app \in Apps
  BY DEF OInit, NewApp, Apps, Sessions, Credentials
<1>. QED
  BY <1>1, <1>2, <1>3 DEF JourneyInv

LEMMA OutdateEnds ==
    ASSUME calls \in CallCounts, Outdate
    PROVE  calls' \in CallCounts /\ ~calls'.current
<1>1. CASE calls.current
  <2>. DEFINE n == calls.outdated + 1
  <2>1. n \in Nat /\ calls' = [calls EXCEPT !.current = FALSE, !.outdated = n]
    BY <1>1 DEF Outdate, CallCounts
  <2>. HIDE DEF n
  <2>. QED
    BY <2>1 DEF CallCounts
<1>2. CASE ~calls.current
  BY <1>2 DEF Outdate
<1>. QED
  BY <1>1, <1>2

(* Whoever outdates the attempt may leave the journey as he likes.          *)
LEMMA OutdatedMoves ==
    ASSUME JourneyInv, Outdate, journey' \in Journeys, ~journey'.connecting, app' \in Apps
    PROVE  JourneyInv'
<1>1. calls' \in CallCounts /\ ~calls'.current
  BY OutdateEnds DEF JourneyInv
<1>. QED
  BY <1>1 DEF JourneyInv

(* A step that leaves the wait of the journey alone.                        *)
LEMMA WaitKept ==
    ASSUME JourneyInv, journey' \in Journeys, app' \in Apps, calls' \in CallCounts,
           calls'.current => calls.current, journey'.connecting = journey.connecting,
           IsOpen => journey'.stages # <<>>
    PROVE  JourneyInv'
  BY DEF JourneyInv, IsOpen

LEMMA ShowsFits ==
    ASSUME JourneyInv, NEW stages \in Seq(Stages), ShowsStages(stages), app' \in Apps
    PROVE  JourneyInv'
<1>1. journey' \in Journeys /\ ~journey'.connecting
  BY DEF ShowsStages, JourneyInv, Journeys
<1>. QED
  BY <1>1, OutdatedMoves DEF ShowsStages

LEMMA VisitFits ==
    ASSUME JourneyInv, NEW next \in Stages, Visit(next), app' \in Apps
    PROVE  JourneyInv'
<1>1. Append(journey.stages, next) \in Seq(Stages)
  BY DEF JourneyInv, Journeys
<1>. QED
  BY <1>1, ShowsFits DEF Visit

LEMMA FinishFits ==
    ASSUME JourneyInv, NEW credential \in Credentials, Finish(credential)
    PROVE  JourneyInv' /\ app'.session = app.session
<1>1. journey' \in Journeys /\ ~journey'.connecting
  BY OpenedFits DEF Finish, Sessions
<1>2. app' \in Apps /\ app'.session = app.session
  BY DEF Finish, JourneyInv, Apps
<1>. QED
  BY <1>1, <1>2, OutdatedMoves DEF Finish

(* The screens of the journey.                                              *)
LEMMA JourneyMoves ==
    ASSUME JourneyInv,
           \/ NavigateBack \/ Exit \/ FromWelcome \/ FromPrivacy \/ UseRealPassport
           \/ (\E age \in Ages : CreateDemo(age)) \/ CredentialSuccess
    PROVE  JourneyInv' /\ (app'.session = "real" => app.session = "real")
<1>1. journey \in Journeys /\ app \in Apps /\ app.credential \in Credentials
  BY DEF JourneyInv, Apps
<1>2. CASE NavigateBack
  <2>1. SubSeq(journey.stages, 1, Len(journey.stages) - 1) \in Seq(Stages)
    <3>1. journey.stages \in Seq(Stages)
      BY <1>1 DEF Journeys
    <3>2. \A i \in 1..(Len(journey.stages) - 1) : journey.stages[i] \in Stages
      BY <3>1
    <3>. QED
      BY <3>1, <3>2, SubSeqProperties
  <2>. QED
    BY <1>1, <1>2, <2>1, ShowsFits DEF NavigateBack
<1>3. CASE Exit
  BY <1>1, <1>3, FinishFits DEF Exit
<1>4. CASE FromWelcome \/ FromPrivacy
  BY <1>1, <1>4, VisitFits DEF FromWelcome, FromPrivacy, Stages
<1>5. CASE UseRealPassport
  <2>1. journey' \in Journeys /\ ~journey'.connecting
    BY <1>1, <1>5 DEF UseRealPassport, Journeys, Sessions
  <2>2. app' \in Apps /\ app'.session = "none"
    BY <1>1, <1>5 DEF UseRealPassport, Apps, Sessions
  <2>. QED
    BY <1>5, <2>1, <2>2, OutdatedMoves DEF UseRealPassport
<1>6. ASSUME NEW age \in Ages, CreateDemo(age)
      PROVE  JourneyInv' /\ app' = app
  <2>. DEFINE pass == IF age >= 18 THEN "18+" ELSE "under-18"
              stages == Append(journey.stages, "credential-success")
  <2>1. pass \in {"none", "18+", "under-18"}
    OBVIOUS
  <2>2. stages \in Seq(Stages)
    <3>1. "credential-success" \in Stages /\ journey.stages \in Seq(Stages)
      BY <1>1 DEF Stages, Journeys
    <3>. QED
      BY <3>1
  <2>3. journey' = [journey EXCEPT !.createdDemo = pass, !.stages = stages, !.connecting = FALSE]
    BY <1>6 DEF CreateDemo
  <2>4. Outdate /\ app' = app
    BY <1>6 DEF CreateDemo
  <2>. HIDE DEF pass, stages
  <2>5. journey' \in Journeys /\ ~journey'.connecting
    BY <1>1, <2>1, <2>2, <2>3 DEF Journeys
  <2>. QED
    BY <1>1, <2>4, <2>5, OutdatedMoves
<1>7. CASE CredentialSuccess
  <2>1. journey.createdDemo \in Credentials /\ Finish(journey.createdDemo)
    BY <1>1, <1>7 DEF CredentialSuccess, Journeys, Credentials
  <2>. QED
    BY <1>1, <2>1, FinishFits
<1>. QED
  BY <1>2, <1>3, <1>4, <1>5, <1>6, <1>7

(* The screen of Passport and that of the pass, with their waits.           *)
LEMMA PassportScreen ==
    ASSUME JourneyInv, FromPassport \/ FromEligibility
    PROVE  JourneyInv' /\ (app'.session = "real" => app.session = "real")
<1>1. journey \in Journeys /\ calls \in CallCounts /\ app \in Apps /\ app.credential \in Credentials
  BY DEF JourneyInv, Apps
<1>2. CASE \E next \in Stages : Visit(next) /\ UNCHANGED app
  BY <1>1, <1>2, VisitFits
<1>3. CASE Finish(app.credential)
  BY <1>1, <1>3, FinishFits
<1>4. CASE IsOpen /\ ConnectJourney(FALSE)
  <2>1. /\ journey' = [journey EXCEPT !.connecting = TRUE]
        /\ calls' = [calls EXCEPT !.current = TRUE] /\ app' = app
    BY <1>4 DEF ConnectJourney
  <2>2. journey' \in Journeys /\ journey'.connecting /\ journey'.stages = journey.stages
    BY <1>1, <2>1 DEF Journeys
  <2>3. calls' \in CallCounts
    BY <1>1, <2>1 DEF CallCounts
  <2>. QED
    BY <1>1, <1>4, <2>1, <2>2, <2>3 DEF JourneyInv, IsOpen
<1>5. CASE Cancel /\ UNCHANGED app
  <2>1. journey' \in Journeys /\ ~journey'.connecting
    BY <1>1, <1>5 DEF Cancel, Journeys
  <2>. QED
    BY <1>1, <1>5, <2>1, OutdatedMoves DEF Cancel
<1>6. CASE ConnectJourney(TRUE)
  <2>1. /\ journey' = [journey EXCEPT !.session = "local-demo-explicit"]
        /\ app' = [app EXCEPT !.session = "local-demo-explicit"] /\ calls' = calls
    BY <1>6 DEF ConnectJourney
  <2>2. journey' \in Journeys /\ journey'.connecting = journey.connecting /\ journey'.stages = journey.stages
    BY <1>1, <2>1 DEF Journeys, Sessions
  <2>3. app' \in Apps /\ app'.session # "real"
    BY <1>1, <2>1 DEF Apps, Sessions
  <2>. QED
    BY <1>1, <2>1, <2>2, <2>3, WaitKept DEF IsOpen
<1>7. CASE journey' = [journey EXCEPT !.documentOpen = ~@] /\ UNCHANGED <<calls, app>>
  <2>1. journey' \in Journeys /\ journey'.connecting = journey.connecting /\ journey'.stages = journey.stages
    BY <1>1, <1>7 DEF Journeys
  <2>. QED
    BY <1>1, <1>7, <2>1, WaitKept DEF IsOpen
<1>8. CASE FromPassport
  <2>1. IsOpen /\ "eligibility" \in Stages
    BY <1>8 DEF FromPassport, At, Stages
  <2>. QED
    BY <1>2, <1>3, <1>4, <1>5, <1>6, <1>8, <2>1 DEF FromPassport
<1>9. CASE FromEligibility
  <2>1. "passport" \in Stages /\ "demo-country" \in Stages
    BY DEF Stages
  <2>. QED
    BY <1>2, <1>3, <1>7, <1>9, <2>1 DEF FromEligibility
<1>. QED
  BY <1>8, <1>9

(* Somebody waits for a session.                                            *)
Awaiting == journey.connecting \/ calls.application > 0 \/ Enrolling

(* The answers of Passport to the journey, and the enrollment in it.        *)
LEMMA JourneyAnswers ==
    ASSUME JourneyInv,
           EnrollmentJourney \/ (\E c \in {"current", "outdated"} : AnswerJourney(c))
    PROVE  JourneyInv' /\ (app'.session = "real" /\ app.session # "real" => Awaiting)
<1>1. journey \in Journeys /\ calls \in CallCounts /\ app \in Apps /\ app.credential \in Credentials
  BY DEF JourneyInv, Apps
<1>2. CASE EnrollmentJourney
  <2>1. Enrolling
    BY <1>2 DEF EnrollmentJourney
  <2>2. CASE app' = [app EXCEPT !.session = "real"] /\ UNCHANGED <<journey, calls>>
    <3>1. app' \in Apps
      BY <1>1, <2>2 DEF Apps, Sessions
    <3>. QED
      BY <1>1, <2>1, <2>2, <3>1, WaitKept DEF Awaiting, IsOpen
  <2>3. CASE \E credential \in Credentials : Finish(credential)
    BY <2>1, <2>3, FinishFits DEF Awaiting
  <2>4. CASE Visit("passport") /\ UNCHANGED app
    BY <1>1, <2>1, <2>4, VisitFits DEF Awaiting, Stages
  <2>. QED
    BY <1>1, <1>2, <2>2, <2>3, <2>4 DEF EnrollmentJourney, Credentials
<1>3. CASE AnswerJourney("current")
  <2>1. calls.current /\ calls' = [calls EXCEPT !.current = FALSE]
    BY <1>3 DEF AnswerJourney
  <2>2. PICK s \in {"real", journey.session} :
           /\ journey' = [journey EXCEPT !.session = s, !.connecting = FALSE]
           /\ app' = IF s = journey.session THEN app ELSE [app EXCEPT !.session = s]
    BY <1>3 DEF AnswerJourney, Heeded
  <2>3. s \in Sessions
    BY <1>1 DEF Journeys, Sessions
  <2>4. journey' \in Journeys /\ ~journey'.connecting
    BY <1>1, <2>2, <2>3 DEF Journeys
  <2>5. app' \in Apps
    BY <1>1, <2>2, <2>3 DEF Apps
  <2>6. calls' \in CallCounts /\ ~calls'.current
    BY <1>1, <2>1 DEF CallCounts
  <2>. QED
    BY <2>1, <2>4, <2>5, <2>6 DEF JourneyInv, Awaiting
<1>4. CASE AnswerJourney("outdated")
  <2>. DEFINE n == calls.outdated - 1
  <2>1. calls' = [calls EXCEPT !.outdated = n] /\ UNCHANGED <<journey, app>>
    BY <1>4 DEF AnswerJourney, Heeded
  <2>2. n \in Nat
    BY <1>1, <1>4 DEF AnswerJourney, CallCounts
  <2>. HIDE DEF n
  <2>3. calls' \in CallCounts /\ calls'.current = calls.current
    BY <1>1, <2>1, <2>2 DEF CallCounts
  <2>. QED
    BY <1>1, <2>1, <2>3, WaitKept DEF IsOpen
<1>. QED
  BY <1>2, <1>3, <1>4

(* The application opens a journey only when none is open, and so none      *)
(* waits.                                                                   *)
LEMMA OpensFits ==
    ASSUME JourneyInv, ~IsOpen, NEW entry \in {"welcome", "passport", "eligibility"},
           OpensJourney(entry), UNCHANGED calls
    PROVE  JourneyInv' /\ app'.session = app.session
<1>1. journey' \in Journeys /\ ~journey'.connecting
  BY OpenedFits DEF OpensJourney, JourneyInv, Apps
<1>2. app' \in Apps /\ app'.session = app.session
  BY DEF OpensJourney, JourneyInv, Apps
<1>. QED
  BY <1>1, <1>2 DEF JourneyInv

(* The application around the journey.                                      *)
LEMMA ApplicationMoves ==
    ASSUME JourneyInv,
           \/ OpenJourney \/ AppConnects \/ AnswerApp \/ LockAndDisconnect \/ StartRemoval \/ EndRemoval
           \/ BeginVote \/ EndVote \/ ReloadApp
    PROVE  JourneyInv' /\ (app'.session = "real" /\ app.session # "real" => Awaiting)
<1>1. /\ journey \in Journeys /\ calls \in CallCounts /\ app \in Apps
      /\ app.entry \in {"welcome", "passport", "eligibility"}
  BY DEF JourneyInv, Apps
<1>2. CASE OpenJourney
  <2>1. PICK entry \in {"welcome", "passport", "eligibility"} : OpensJourney(entry)
    BY <1>1, <1>2 DEF OpenJourney, OpenVerification
  <2>. QED
    BY <1>2, <2>1, OpensFits DEF OpenJourney
<1>3. CASE BeginVote
  <2>1. CASE OpensJourney(app.entry)
    BY <1>1, <1>3, <2>1, OpensFits DEF BeginVote
  <2>2. CASE app' = [app EXCEPT !.voting = TRUE] /\ UNCHANGED journey
    <3>1. app' \in Apps /\ app'.session = app.session
      BY <1>1, <2>2 DEF Apps
    <3>. QED
      BY <1>1, <1>3, <2>2, <3>1, WaitKept DEF BeginVote, IsOpen
  <2>. QED
    BY <1>3, <2>1, <2>2 DEF BeginVote
<1>4. ASSUME journey' = journey, app' \in Apps, calls' \in CallCounts, calls'.current = calls.current
      PROVE  JourneyInv'
  BY <1>1, <1>4, WaitKept DEF IsOpen
<1>5. CASE AppConnects
  <2>1. app' \in Apps /\ (app'.session = "real" => app.session = "real")
    BY <1>1, <1>5 DEF AppConnects, Apps, Sessions
  <2>2. calls' \in CallCounts /\ calls'.current = calls.current
    <3>1. CASE calls' = calls
      BY <1>1, <3>1
    <3>2. CASE calls' = [calls EXCEPT !.application = @ + 1]
      <4>. DEFINE n == calls.application + 1
      <4>1. n \in Nat /\ calls' = [calls EXCEPT !.application = n]
        BY <1>1, <3>2 DEF CallCounts
      <4>. HIDE DEF n
      <4>. QED
        BY <1>1, <4>1 DEF CallCounts
    <3>. QED
      BY <1>5, <3>1, <3>2 DEF AppConnects
  <2>. QED
    BY <1>4, <1>5, <2>1, <2>2 DEF AppConnects
<1>6. CASE AnswerApp
  <2>. DEFINE n == calls.application - 1
  <2>1. n \in Nat /\ calls.application > 0
    BY <1>1, <1>6 DEF AnswerApp, CallCounts
  <2>2. calls' = [calls EXCEPT !.application = n] /\ journey' = journey
    BY <1>6 DEF AnswerApp
  <2>. HIDE DEF n
  <2>3. calls' \in CallCounts /\ calls'.current = calls.current
    BY <1>1, <2>1, <2>2 DEF CallCounts
  <2>4. app' \in Apps
    BY <1>1, <1>6 DEF AnswerApp, Apps, Sessions
  <2>. QED
    BY <1>4, <2>1, <2>2, <2>3, <2>4 DEF Awaiting
<1>7. CASE LockAndDisconnect
  <2>1. app' \in Apps /\ app'.session # "real"
    BY <1>1, <1>7 DEF LockAndDisconnect, Apps, Sessions
  <2>. QED
    BY <1>1, <1>4, <1>7, <2>1 DEF LockAndDisconnect
<1>8. CASE StartRemoval
  <2>. DEFINE n == calls.removals + 1
  <2>1. n \in Nat /\ calls' = [calls EXCEPT !.removals = n] /\ UNCHANGED <<journey, app>>
    BY <1>1, <1>8 DEF StartRemoval, CallCounts
  <2>. HIDE DEF n
  <2>2. calls' \in CallCounts /\ calls'.current = calls.current
    BY <1>1, <2>1 DEF CallCounts
  <2>. QED
    BY <1>1, <1>4, <2>1, <2>2
<1>9. CASE EndRemoval
  <2>. DEFINE n == calls.removals - 1
  <2>1. n \in Nat
    BY <1>1, <1>9 DEF EndRemoval, CallCounts
  <2>2. calls' = [calls EXCEPT !.removals = n] /\ journey' = journey
    BY <1>9 DEF EndRemoval
  <2>. HIDE DEF n
  <2>3. calls' \in CallCounts /\ calls'.current = calls.current
    BY <1>1, <2>1, <2>2 DEF CallCounts
  <2>4. app' \in Apps /\ app'.session # "real"
    BY <1>1, <1>9 DEF EndRemoval, Apps, Sessions, Credentials
  <2>. QED
    BY <1>4, <2>2, <2>3, <2>4
<1>10. CASE EndVote
  <2>1. app' \in Apps /\ app'.session = app.session
    BY <1>1, <1>10 DEF EndVote, Apps
  <2>. QED
    BY <1>1, <1>4, <1>10, <2>1 DEF EndVote
<1>11. CASE ReloadApp
  <2>1. calls' \in CallCounts /\ ~calls'.current
    BY <1>11 DEF ReloadApp, CallCounts
  <2>2. journey' \in Journeys /\ ~journey'.connecting
    BY <1>11, OpenedFits DEF ReloadApp, Sessions
  <2>3. app' \in Apps /\ app'.session # "real"
    <3>1. NewApp \in Apps /\ NewApp.session = "none"
      BY DEF NewApp, Apps, Sessions, Credentials
    <3>2. app.required \in BOOLEAN
      BY <1>1 DEF Apps
    <3>3. PICK c \in {"verified", "none"} : app' = [NewApp EXCEPT !.required = app.required, !.credential = c]
      BY <1>11 DEF ReloadApp
    <3>. HIDE DEF NewApp
    <3>. QED
      BY <3>1, <3>2, <3>3 DEF Apps, Credentials
  <2>. QED
    BY <2>1, <2>2, <2>3 DEF JourneyInv
<1>. QED
  BY <1>2, <1>3, <1>5, <1>6, <1>7, <1>8, <1>9, <1>10, <1>11

LEMMA OnboardingNext ==
    JourneyInv /\ [ONext]_ovars =>
      JourneyInv' /\ (app'.session = "real" /\ app.session # "real" => Awaiting)
<1>. SUFFICES ASSUME JourneyInv, [ONext]_ovars
              PROVE  JourneyInv' /\ (app'.session = "real" /\ app.session # "real" => Awaiting)
  OBVIOUS
<1>1. CASE UNCHANGED ovars
  BY <1>1 DEF ovars, JourneyInv, IsOpen
<1>. QED
  BY <1>1, JourneyMoves, PassportScreen, JourneyAnswers, ApplicationMoves DEF ONext

(* Passport's session reaches the application only while somebody waits for *)
(* one: an answer to an attempt that was cancelled, left or replaced never  *)
(* logs anyone in (UnifiedPassportOnboarding, connectPassport).             *)
THEOREM SessionsArriveAwaited == OSpec => SessionArrivesAwaited
<1>1. JourneyInv /\ [ONext]_ovars =>
        [app'.session = "real" /\ app.session # "real" =>
           journey.connecting \/ calls.application > 0 \/ Enrolling]_ovars
  BY OnboardingNext DEF Awaiting
<1>2. JourneyInv /\ [ONext]_ovars => JourneyInv'
  BY OnboardingNext
<1>. QED
  BY <1>1, <1>2, OnboardingInit, PTL DEF OSpec, SessionArrivesAwaited

(***************************************************************************)
(* DocumentJourney: a stream is only held while the journey has answered    *)
(* the request it came from, so no later answer can replace it unstopped.  *)
(***************************************************************************)

CameraInv ==
    /\ visits \in Seq(Steps) /\ visits # <<>> /\ rendered \in Steps
    /\ cameraRequest \in Nat /\ asking \subseteq 1..cameraRequest /\ stream \in Nat
    /\ mounted \in BOOLEAN /\ reading \in Nat
    /\ stream # 0 => cameraRequest \notin asking
    /\ 0 \notin lit
    /\ CameraReleased

LEMMA CameraInit == DInit => CameraInv
<1>. SUFFICES ASSUME DInit PROVE CameraInv
  OBVIOUS
<1>1. visits \in Seq(Steps) /\ visits # <<>> /\ rendered \in Steps
  BY DEF DInit, Steps
<1>. QED
  BY <1>1 DEF DInit, CameraInv, CameraReleased

(* The history of screens stays one.                                        *)
LEMMA VisitsFit ==
    ASSUME visits \in Seq(Steps), visits # <<>>
    PROVE  /\ step \in Steps
           /\ \A next \in Steps : Go(next) => visits' \in Seq(Steps) /\ visits' # <<>> /\ step' = next
           /\ Len(visits) > 1 /\ visits' = SubSeq(visits, 1, Len(visits) - 1) =>
                visits' \in Seq(Steps) /\ visits' # <<>>
<1>1. Len(visits) \in 1..Len(visits) /\ step \in Steps
  BY DEF step
<1>2. ASSUME NEW next \in Steps, Go(next)
      PROVE  visits' \in Seq(Steps) /\ visits' # <<>> /\ step' = next
  <2>1. CASE step = next
    BY <1>2, <2>1 DEF Go, step
  <2>2. CASE step # next
    <3>1. visits' = Append(visits, next)
      BY <1>2, <2>2 DEF Go
    <3>2. Len(visits') = Len(visits) + 1 /\ visits'[Len(visits) + 1] = next /\ visits' \in Seq(Steps)
      BY <3>1
    <3>. QED
      BY <3>1, <3>2 DEF step
  <2>. QED
    BY <2>1, <2>2
<1>3. ASSUME Len(visits) > 1, visits' = SubSeq(visits, 1, Len(visits) - 1)
      PROVE  visits' \in Seq(Steps) /\ visits' # <<>>
  <2>1. \A i \in 1..(Len(visits) - 1) : visits[i] \in Steps
    OBVIOUS
  <2>. QED
    BY <1>3, <2>1, SubSeqProperties
<1>. QED
  BY <1>1, <1>2, <1>3

(* With the camera stopped the rest of a step does not matter.              *)
LEMMA StoppedFits ==
    ASSUME CameraInv, visits' \in Seq(Steps), visits' # <<>>, rendered' \in Steps,
           StopCamera, asking' = asking, mounted' \in BOOLEAN, reading' \in Nat
    PROVE  CameraInv'
<1>1. cameraRequest' = cameraRequest + 1 /\ cameraRequest \in Nat /\ stream' = 0 /\ lit' = {}
  BY DEF StopCamera, CameraInv, CameraReleased
<1>2. asking' \subseteq 1..cameraRequest'
  BY <1>1 DEF CameraInv
<1>. QED
  BY <1>1, <1>2 DEF CameraInv, CameraReleased

(* A screen other than the rendered one may be chosen at any time.          *)
LEMMA ScreenFits ==
    ASSUME CameraInv, visits' \in Seq(Steps), visits' # <<>>,
           stream # 0 => rendered # step' \/ step' = "capture",
           UNCHANGED <<rendered, cameraRequest, asking, stream, lit, mounted>>, reading' \in Nat
    PROVE  CameraInv'
BY DEF CameraInv, CameraReleased

LEMMA CameraNext == CameraInv /\ [DNext]_dvars => CameraInv'
<1>. SUFFICES ASSUME CameraInv, [DNext]_dvars PROVE CameraInv'
  OBVIOUS
<1>1. /\ visits \in Seq(Steps) /\ visits # <<>> /\ rendered \in Steps /\ reading \in Nat
      /\ cameraRequest \in Nat /\ mounted \in BOOLEAN
      /\ asking \subseteq 1..cameraRequest /\ lit \subseteq {stream}
      /\ stream # 0 => mounted /\ (rendered = step => step = "capture")
  BY DEF CameraInv, CameraReleased
<1>2. CASE Advance
  <2>1. Following[step] \in Steps /\ step # "capture"
    BY <1>2 DEF Advance, Following, Steps
  <2>2. stream = 0
    BY <1>1, <1>2, <2>1 DEF Advance
  <2>3. visits' \in Seq(Steps) /\ visits' # <<>>
    BY <1>1, <1>2, <2>1, VisitsFit DEF Advance
  <2>. QED
    BY <1>1, <1>2, <2>2, <2>3, ScreenFits DEF Advance
<1>3. CASE StartCamera
  <2>1. stream = 0
    BY <1>1, <1>3 DEF StartCamera, On
  <2>2. cameraRequest' = cameraRequest + 1 /\ asking' = asking \cup {cameraRequest + 1}
    BY <1>3 DEF StartCamera
  <2>3. asking' \subseteq 1..cameraRequest' /\ cameraRequest' \in Nat
    BY <1>1, <2>2
  <2>4. UNCHANGED <<visits, rendered, stream, lit, reading, mounted>>
    BY <1>3 DEF StartCamera
  <2>. QED
    BY <2>1, <2>3, <2>4 DEF CameraInv, CameraReleased, step
<1>4. ASSUME NEW r \in asking, CameraAnswers(r) PROVE CameraInv'
  <2>1. asking' \subseteq 1..cameraRequest /\ r \notin asking'
    BY <1>1, <1>4 DEF CameraAnswers
  <2>2. UNCHANGED <<rendered, cameraRequest, reading, mounted>>
    BY <1>4 DEF CameraAnswers
  <2>3. CASE Awaited(r) /\ stream' = r /\ lit' = lit \cup {r} /\ Go("capture")
    <3>1. stream = 0 /\ lit = {}
      BY <1>1, <1>4, <2>3 DEF CameraInv, Awaited
    <3>2. r # 0 /\ r \in Nat /\ lit' = {r} /\ mounted
      BY <1>1, <1>4, <2>3, <3>1 DEF Awaited
    <3>3. visits' \in Seq(Steps) /\ visits' # <<>> /\ step' = "capture"
      BY <1>1, <2>3, VisitsFit DEF Steps
    <3>4. cameraRequest' \notin asking'
      BY <2>1, <2>2, <2>3 DEF Awaited
    <3>. QED
      BY <1>1, <2>1, <2>2, <2>3, <3>2, <3>3, <3>4 DEF CameraInv, CameraReleased
  <2>4. CASE UNCHANGED <<stream, lit, visits>>
    BY <1>1, <2>1, <2>2, <2>4, <1>4 DEF CameraInv, CameraReleased, step, CameraAnswers
  <2>. QED
    BY <1>4, <2>3, <2>4 DEF CameraAnswers
<1>5. CASE Settle
  <2>1. step \in Steps /\ visits' = visits /\ rendered' = step /\ step' = step
    BY <1>1, <1>5, VisitsFit DEF Settle, step
  <2>2. reading' = 0 /\ asking' = asking /\ mounted' = mounted
    BY <1>5 DEF Settle
  <2>3. CASE step # "capture"
    BY <1>1, <1>5, <2>1, <2>2, <2>3, StoppedFits DEF Settle
  <2>4. CASE step = "capture"
    <3>1. UNCHANGED <<cameraRequest, lit, stream>>
      BY <1>5, <2>4 DEF Settle
    <3>. QED
      BY <1>1, <2>1, <2>2, <2>4, <3>1 DEF CameraInv, CameraReleased
  <2>. QED
    BY <2>3, <2>4
<1>6. CASE Recognize
  BY <1>1, <1>6 DEF Recognize, CameraInv, CameraReleased, step
<1>7. ASSUME NEW page \in Pages, AcceptRecord(page) PROVE CameraInv'
  <2>1. reading' \in Nat /\ rendered' = rendered /\ asking' = asking /\ mounted' = mounted
    BY <1>1, <1>7 DEF AcceptRecord
  <2>2. CASE Go("chip") /\ StopCamera
    <3>1. visits' \in Seq(Steps) /\ visits' # <<>>
      BY <1>1, <2>2, VisitsFit DEF Steps
    <3>. QED
      BY <1>1, <2>1, <2>2, <3>1, StoppedFits
  <2>3. CASE UNCHANGED <<visits, cameraRequest, stream, lit>>
    BY <1>1, <2>1, <2>3 DEF CameraInv, CameraReleased, step
  <2>. QED
    BY <1>7, <2>2, <2>3 DEF AcceptRecord
<1>8. CASE EnterManually
  <2>1. visits' \in Seq(Steps) /\ visits' # <<>> /\ step' = "manual"
    BY <1>1, <1>8, VisitsFit DEF EnterManually, Steps
  <2>2. rendered # step'
    BY <1>8, <2>1 DEF EnterManually, On
  <2>. QED
    BY <1>1, <1>8, <2>1, <2>2, ScreenFits DEF EnterManually
<1>9. CASE BackToScanner
  <2>1. visits' \in Seq(Steps) /\ visits' # <<>> /\ stream = 0
    BY <1>1, <1>9, VisitsFit DEF BackToScanner, Steps, On
  <2>. QED
    BY <1>1, <1>9, <2>1, ScreenFits DEF BackToScanner
<1>10. ASSUME NEW page \in Pages, SubmitManual(page) PROVE CameraInv'
  <2>1. visits' \in Seq(Steps) /\ visits' # <<>> /\ stream = 0
    BY <1>1, <1>10, VisitsFit DEF SubmitManual, Steps, On
  <2>. QED
    BY <1>1, <1>10, <2>1, ScreenFits DEF SubmitManual
<1>11. CASE Leave
  BY <1>1, <1>11, StoppedFits DEF Leave
<1>12. CASE StepBack
  <2>1. visits' \in Seq(Steps) /\ visits' # <<>>
    BY <1>1, <1>12, VisitsFit DEF StepBack
  <2>2. UNCHANGED <<rendered, asking, reading, mounted>>
    BY <1>12 DEF StepBack
  <2>3. CASE StopCamera
    BY <1>1, <2>1, <2>2, <2>3, StoppedFits
  <2>4. CASE UNCHANGED <<cameraRequest, stream, lit>>
    <3>1. stream # 0 => rendered = "capture"
      BY <1>1, <1>12 DEF StepBack, On
    <3>. QED
      BY <1>1, <2>1, <2>2, <2>4, <3>1, ScreenFits
  <2>. QED
    BY <1>12, <2>3, <2>4 DEF StepBack
<1>13. CASE UNCHANGED dvars
  BY <1>13 DEF dvars, CameraInv, CameraReleased, step
<1>. QED
  BY <1>2, <1>3, <1>4, <1>5, <1>6, <1>7, <1>8, <1>9, <1>10, <1>11, <1>12, <1>13 DEF DNext

(* No camera stays lit behind the journey's back: every stream still lit is *)
(* the one it holds, and it holds one only while mounted and on the capture *)
(* screen, however late the browser grants a request (openCamera,           *)
(* stopCamera).                                                             *)
THEOREM CameraIsReleased == DSpec => []CameraReleased
<1>1. CameraInv => CameraReleased
  BY DEF CameraInv
<1>. QED
  BY <1>1, CameraInit, CameraNext, PTL DEF DSpec

(***************************************************************************)
(* CivicPulse: the last screen is only ever the last of the history, so    *)
(* the answers it shows are those the adapter accepted.                    *)
(***************************************************************************)

TrailFits ==
    /\ trail \in Seq(PulseStages)
    /\ \A i \in 1..Len(trail) : trail[i] = "complete" => i = Len(trail)

PulseInv ==
    /\ TrailFits /\ answers \in AnswerSets /\ {saved, stored} \subseteq AnswerSets \cup {Null}
    /\ Showing("complete") => DraftAccepted
    /\ SavedMarkIsTrue

LEMMA PulseInit == PInit => PulseInv
<1>. SUFFICES ASSUME PInit PROVE PulseInv
  OBVIOUS
<1>1. trail = <<>> /\ stored = Null /\ saved = Null /\ answers = Blank
  BY DEF PInit
<1>2. TrailFits /\ ~Showing("complete")
  BY <1>1 DEF TrailFits, Showing
<1>3. answers \in AnswerSets
  BY <1>1 DEF Blank, AnswerSets
<1>4. readReflection = stored
  BY <1>1 DEF readReflection
<1>. QED
  BY <1>1, <1>2, <1>3, <1>4 DEF PulseInv, SavedMarkIsTrue

(* A next screen, of a screen that is not the last one.                     *)
LEMMA GoesOn ==
    ASSUME TrailFits, trail # <<>>, shown # "complete", NEW next \in PulseStages, GoTo(next)
    PROVE  TrailFits' /\ trail' # <<>> /\ shown' = next
<1>1. /\ trail \in Seq(PulseStages) /\ Len(trail) \in 1..Len(trail) /\ Len(trail) \in Nat
      /\ \A i \in 1..Len(trail) : trail[i] # "complete"
  BY DEF TrailFits, shown
<1>2. CASE shown = next
  BY <1>2 DEF GoTo, TrailFits, shown
<1>3. CASE shown # next
  <2>1. trail' = Append(trail, next)
    BY <1>3 DEF GoTo
  <2>2. /\ trail' \in Seq(PulseStages) /\ Len(trail') = Len(trail) + 1
        /\ trail'[Len(trail) + 1] = next /\ \A i \in 1..Len(trail) : trail'[i] = trail[i]
    BY <1>1, <2>1
  <2>3. \A i \in 1..Len(trail') : trail'[i] = "complete" => i = Len(trail')
    BY <1>1, <2>2
  <2>4. trail' # <<>> /\ shown' = next
    BY <1>1, <2>2 DEF shown
  <2>. QED
    BY <2>2, <2>3, <2>4 DEF TrailFits
<1>. QED
  BY <1>2, <1>3

(* A screen but the last is shown after the step, with answers of the lists.*)
LEMMA OtherScreen ==
    ASSUME PulseInv, TrailFits', ~Showing("complete")', answers' \in AnswerSets,
           saved' \in AnswerSets \cup {Null}, stored' = stored
    PROVE  PulseInv'
<1>1. readReflection' = stored'
  BY DEF PulseInv, SavedMarkIsTrue, readReflection
<1>. QED
  BY <1>1 DEF PulseInv, SavedMarkIsTrue

(* With nothing stored nothing is found.                                    *)
LEMMA Erased ==
    ASSUME TrailFits', ~Showing("complete")', answers' \in AnswerSets,
           saved' \in AnswerSets \cup {Null}, stored' = Null
    PROVE  PulseInv'
<1>1. readReflection' = stored'
  BY DEF readReflection
<1>. QED
  BY <1>1 DEF PulseInv, SavedMarkIsTrue

(* What the lists and the adapter let through, readReflection lets through. *)
LEMMA AcceptedIsRead ==
    ASSUME answers \in AnswerSets, DraftAccepted
    PROVE  /\ Cardinality(answers.priorities) \in 1..Cap
           /\ Cardinality(answers.tradeoffs) <= 5 /\ Cardinality(answers.areas) <= 5
<1>1. answers.tradeoffs \subseteq Values /\ answers.areas \subseteq Areas
  BY DEF AnswerSets
<1>2. /\ IsFiniteSet(Values) /\ Cardinality(Values) <= 5 /\ Cardinality(Values) \in Nat
      /\ IsFiniteSet(Areas) /\ Cardinality(Areas) <= 5 /\ Cardinality(Areas) \in Nat
  BY PulseAssumption, FS_CardinalityType
<1>3. /\ IsFiniteSet(answers.tradeoffs) /\ Cardinality(answers.tradeoffs) <= Cardinality(Values)
      /\ IsFiniteSet(answers.areas) /\ Cardinality(answers.areas) <= Cardinality(Areas)
  BY <1>1, <1>2, FS_Subset
<1>4. Cardinality(answers.tradeoffs) \in Nat /\ Cardinality(answers.areas) \in Nat
  BY <1>3, FS_CardinalityType
<1>. QED
  BY <1>2, <1>3, <1>4 DEF DraftAccepted

(* The questionnaire up to its review.                                      *)
LEMMA Questionnaire ==
    ASSUME PulseInv,
           \/ EnterPulse \/ ExitPulse \/ WalkBack \/ Begin \/ NextQuestion
           \/ (\E q \in Questions : EditFromReview(q)) \/ Restore
    PROVE  PulseInv'
<1>1. /\ TrailFits /\ answers \in AnswerSets /\ saved \in AnswerSets \cup {Null}
      /\ stored \in AnswerSets \cup {Null} /\ Blank \in AnswerSets
  BY DEF PulseInv, Blank, AnswerSets
<1>2. CASE EnterPulse
  <2>1. trail' = <<"home">> /\ stored' = stored /\ answers' = Blank /\ saved' \in AnswerSets \cup {Null}
    BY <1>1, <1>2 DEF EnterPulse, readReflection
  <2>2. TrailFits' /\ ~Showing("complete")'
    BY <2>1 DEF TrailFits, Showing, shown, PulseStages
  <2>. QED
    BY <1>1, <2>1, <2>2, OtherScreen
<1>3. CASE ExitPulse
  <2>1. trail' = <<>> /\ stored' = stored /\ answers' = Blank /\ saved' = Null
    BY <1>3 DEF ExitPulse
  <2>2. TrailFits' /\ ~Showing("complete")'
    BY <2>1 DEF TrailFits, Showing
  <2>. QED
    BY <1>1, <2>1, <2>2, OtherScreen
<1>4. CASE WalkBack
  <2>1. /\ trail \in Seq(PulseStages) /\ Len(trail) > 1 /\ trail' = SubSeq(trail, 1, Len(trail) - 1)
        /\ UNCHANGED <<answers, saved, stored>>
    BY <1>1, <1>4 DEF WalkBack, TrailFits
  <2>2. \A i \in 1..(Len(trail) - 1) : trail[i] \in PulseStages
    BY <2>1
  <2>3. /\ trail' \in Seq(PulseStages) /\ Len(trail') = Len(trail) - 1
        /\ \A i \in 1..(Len(trail) - 1) : trail'[i] = trail[i]
    BY <2>1, <2>2, SubSeqProperties
  <2>4. \A i \in 1..Len(trail') : trail'[i] # "complete"
    BY <1>1, <2>1, <2>3 DEF TrailFits
  <2>5. TrailFits' /\ ~Showing("complete")'
    BY <2>1, <2>3, <2>4 DEF TrailFits, Showing, shown
  <2>. QED
    BY <1>1, <2>1, <2>5, OtherScreen
<1>5. ASSUME trail # <<>>, shown # "complete", NEW next \in PulseStages \ {"complete"}, GoTo(next),
             answers' \in AnswerSets, UNCHANGED <<saved, stored>>
      PROVE  PulseInv'
  <2>1. TrailFits' /\ ~Showing("complete")'
    BY <1>1, <1>5, GoesOn DEF Showing
  <2>. QED
    BY <1>1, <1>5, <2>1, OtherScreen
<1>6. CASE Begin
  BY <1>1, <1>5, <1>6 DEF Begin, Showing, PulseStages, Questions
<1>7. CASE NextQuestion
  <2>1. trail # <<>> /\ shown # "complete" /\ UNCHANGED <<saved, stored>>
    BY <1>7 DEF NextQuestion, Questions
  <2>2. PICK next \in PulseStages \ {"complete"} : GoTo(next)
    BY <1>7 DEF NextQuestion, Follows, Questions, PulseStages
  <2>3. answers' \in AnswerSets
    BY <1>1, <1>7 DEF NextQuestion, AnswerSets
  <2>. QED
    BY <1>5, <2>1, <2>2, <2>3
<1>8. ASSUME NEW q \in Questions, EditFromReview(q) PROVE PulseInv'
  BY <1>1, <1>5, <1>8 DEF EditFromReview, Showing, PulseStages, Questions
<1>9. CASE Restore
  BY <1>1, <1>5, <1>9 DEF Restore, Showing, PulseStages
<1>. QED
  BY <1>2, <1>3, <1>4, <1>6, <1>7, <1>8, <1>9

(* The answers, which are only given on the screens of the questions.       *)
LEMMA AnswersGiven ==
    ASSUME PulseInv,
           \/ \E p \in Priorities : ChoosePriority(p)
           \/ \E v \in Values : ChooseValue(v)
           \/ \E b \in Budgets : ChooseBudget(b)
           \/ \E f \in Fundings : ChooseFunding(f)
           \/ \E x \in Areas : ChooseArea(x)
    PROVE  PulseInv'
<1>1. TrailFits /\ answers \in AnswerSets /\ saved \in AnswerSets \cup {Null}
  BY DEF PulseInv
<1>2. trail' = trail /\ saved' = saved /\ stored' = stored /\ ~Showing("complete")
  BY DEF ChoosePriority, ChooseValue, ChooseBudget, ChooseFunding, ChooseArea, Answer, Showing
<1>3. TrailFits' /\ ~Showing("complete")'
  BY <1>1, <1>2 DEF TrailFits, Showing, shown
<1>4. answers' \in AnswerSets
  <2>1. ASSUME NEW p \in Priorities, ChoosePriority(p) PROVE answers' \in AnswerSets
    <3>1. Chosen(p) \in SUBSET Priorities
      BY <1>1 DEF Chosen, Toggle, AnswerSets
    <3>. QED
      BY <1>1, <2>1, <3>1 DEF ChoosePriority, Answer, AnswerSets
  <2>2. ASSUME NEW v \in Values, ChooseValue(v) PROVE answers' \in AnswerSets
    <3>. DEFINE t == IF v = NoAnswer THEN IF v \in answers.tradeoffs THEN {} ELSE {v}
                     ELSE Toggle(answers.tradeoffs \ {NoAnswer}, v)
    <3>1. t \in SUBSET Values
      BY <1>1 DEF Toggle, AnswerSets
    <3>2. answers' = [answers EXCEPT !.tradeoffs = t]
      BY <2>2 DEF ChooseValue, Answer
    <3>. HIDE DEF t
    <3>. QED
      BY <1>1, <3>1, <3>2 DEF AnswerSets
  <2>3. ASSUME NEW b \in Budgets, ChooseBudget(b) PROVE answers' \in AnswerSets
    BY <1>1, <2>3 DEF ChooseBudget, Answer, AnswerSets
  <2>4. ASSUME NEW f \in Fundings, ChooseFunding(f) PROVE answers' \in AnswerSets
    BY <1>1, <2>4 DEF ChooseFunding, Answer, AnswerSets
  <2>5. ASSUME NEW x \in Areas, ChooseArea(x) PROVE answers' \in AnswerSets
    <3>1. Toggle(answers.areas, x) \in SUBSET Areas
      BY <1>1 DEF Toggle, AnswerSets
    <3>. QED
      BY <1>1, <2>5, <3>1 DEF ChooseArea, Answer, AnswerSets
  <2>. QED
    BY <2>1, <2>2, <2>3, <2>4, <2>5
<1>. QED
  BY <1>1, <1>2, <1>3, <1>4, OtherScreen

(* The end of the questionnaire and what is kept of it.                     *)
LEMMA Completion ==
    ASSUME PulseInv, FinishPulse \/ Complete \/ EraseSaved \/ RemoveReflection
    PROVE  PulseInv'
<1>1. /\ TrailFits /\ answers \in AnswerSets /\ saved \in AnswerSets \cup {Null}
      /\ stored \in AnswerSets \cup {Null} /\ Blank \in AnswerSets
  BY DEF PulseInv, Blank, AnswerSets
<1>2. CASE FinishPulse
  <2>1. TrailFits' /\ trail' # <<>> /\ shown' = "complete"
    BY <1>1, <1>2, GoesOn DEF FinishPulse, Showing, PulseStages
  <2>2. UNCHANGED <<answers, saved, stored>> /\ marked' = FALSE /\ DraftAccepted
    BY <1>2 DEF FinishPulse
  <2>3. DraftAccepted' /\ readReflection' = stored'
    BY <2>2 DEF DraftAccepted, readReflection, PulseInv, SavedMarkIsTrue
  <2>. QED
    BY <1>1, <2>1, <2>2, <2>3 DEF PulseInv, SavedMarkIsTrue
<1>3. CASE Showing("complete") /\ Persist
  <2>1. trail' = trail /\ answers' = answers /\ DraftAccepted
    BY <1>3 DEF Persist, PulseInv
  <2>2. TrailFits' /\ DraftAccepted'
    BY <1>1, <2>1 DEF TrailFits, DraftAccepted
  <2>3. CASE UNCHANGED <<stored, saved, marked>>
    <3>1. readReflection' = stored'
      BY <2>3 DEF readReflection, PulseInv, SavedMarkIsTrue
    <3>2. Showing("complete")' /\ marked' => stored' = answers'
      BY <2>1, <2>3 DEF PulseInv, SavedMarkIsTrue, Showing, shown
    <3>. QED
      BY <1>1, <2>1, <2>2, <2>3, <3>1, <3>2 DEF PulseInv, SavedMarkIsTrue
  <2>4. CASE stored' = answers /\ saved' = answers /\ marked' = TRUE
    <3>1. readReflection' = stored'
      BY <1>1, <2>1, <2>4, AcceptedIsRead DEF readReflection
    <3>. QED
      BY <1>1, <2>1, <2>2, <2>4, <3>1 DEF PulseInv, SavedMarkIsTrue
  <2>. QED
    BY <1>3, <2>3, <2>4 DEF Persist
<1>4. CASE ExitPulse
  BY <1>4, Questionnaire
<1>5. CASE EraseAndReset
  <2>1. trail' = <<>> /\ stored' = Null /\ answers' = Blank /\ saved' = Null
    BY <1>5 DEF EraseAndReset
  <2>2. TrailFits' /\ ~Showing("complete")'
    BY <2>1 DEF TrailFits, Showing
  <2>. QED
    BY <1>1, <2>1, <2>2, Erased
<1>6. CASE EraseSaved \/ RemoveReflection
  <2>1. /\ trail' = trail /\ stored' = Null /\ answers' = answers /\ saved' \in AnswerSets \cup {Null}
        /\ ~Showing("complete")
    BY <1>1, <1>6 DEF EraseSaved, RemoveReflection, Showing
  <2>2. TrailFits' /\ ~Showing("complete")'
    BY <1>1, <2>1 DEF TrailFits, Showing, shown
  <2>. QED
    BY <1>1, <2>1, <2>2, Erased
<1>. QED
  BY <1>2, <1>3, <1>4, <1>5, <1>6 DEF Complete

LEMMA PulseNext == PulseInv /\ [PNext]_pvars => PulseInv'
<1>. SUFFICES ASSUME PulseInv, [PNext]_pvars PROVE PulseInv'
  OBVIOUS
<1>1. CASE UNCHANGED pvars
  BY <1>1 DEF pvars, PulseInv, TrailFits, Showing, shown, DraftAccepted, SavedMarkIsTrue, readReflection
<1>. QED
  BY <1>1, Questionnaire, AnswersGiven, Completion DEF PNext

(* The screen that says the answers are saved says so of the answers it     *)
(* shows, and what is stored is found again when the pulse is opened, for   *)
(* any lists of at most five values and five areas (PulseExperience,        *)
(* local-reflection.ts).                                                    *)
THEOREM SavedMarkStaysTrue == PSpec => []SavedMarkIsTrue
<1>1. PulseInv => SavedMarkIsTrue
  BY DEF PulseInv
<1>. QED
  BY <1>1, PulseInit, PulseNext, PTL DEF PSpec

(***************************************************************************)
(* Mrz: a check digit finds every single misread digit.  The sum it is     *)
(* taken of is a fold, which satisfies the equation of a function on the   *)
(* sets of positions; only the sums of the elements do.                    *)
(***************************************************************************)

Digits == 0..9
Positions == 1..6

Weighted(value, i) == value[i] * WEIGHTS[((i - 1) % 3) + 1]

(* The equation of the fold.                                                *)
SumsUp(value, h) ==
    h = [s \in SUBSET Positions |->
           IF s = {} THEN 0
           ELSE Weighted(value, CHOOSE x \in s : TRUE) + h[s \ {CHOOSE x \in s : TRUE}]]

(* Its solution.                                                            *)
Summand(value, s, i) == IF i \in s THEN Weighted(value, i) ELSE 0

SumOver(value, s) ==
    Summand(value, s, 1) + Summand(value, s, 2) + Summand(value, s, 3)
      + Summand(value, s, 4) + Summand(value, s, 5) + Summand(value, s, 6)

LEMMA PositionsAreSix == IsFiniteSet(Positions) /\ Cardinality(Positions) = 6
<1>1. 1 \in Int /\ 6 \in Int /\ ~(1 > 6) /\ 6 - 1 + 1 = 6
  OBVIOUS
<1>2. IsFiniteSet(1..6) /\ Cardinality(1..6) = 6
  BY ONLY <1>1, FS_Interval
<1>. QED
  BY <1>2 DEF Positions

LEMMA WeightedDigits ==
    ASSUME NEW value, \A i \in Positions : value[i] \in Digits
    PROVE  /\ Weighted(value, 1) = 7 * value[1] /\ Weighted(value, 2) = 3 * value[2]
           /\ Weighted(value, 3) = value[3] /\ Weighted(value, 4) = 7 * value[4]
           /\ Weighted(value, 5) = 3 * value[5] /\ Weighted(value, 6) = value[6]
           /\ \A i \in Positions : Weighted(value, i) \in Nat
<1>1. /\ value[1] \in Digits /\ value[2] \in Digits /\ value[3] \in Digits
      /\ value[4] \in Digits /\ value[5] \in Digits /\ value[6] \in Digits
  BY DEF Positions
<1>2. /\ Weighted(value, 1) = 7 * value[1] /\ Weighted(value, 2) = 3 * value[2]
      /\ Weighted(value, 3) = value[3] /\ Weighted(value, 4) = 7 * value[4]
      /\ Weighted(value, 5) = 3 * value[5] /\ Weighted(value, 6) = value[6]
  <2>1. WEIGHTS[1] = 7 /\ WEIGHTS[2] = 3 /\ WEIGHTS[3] = 1
    BY DEF WEIGHTS
  <2>2. /\ ((1 - 1) % 3) + 1 = 1 /\ ((2 - 1) % 3) + 1 = 2 /\ ((3 - 1) % 3) + 1 = 3
        /\ ((4 - 1) % 3) + 1 = 1 /\ ((5 - 1) % 3) + 1 = 2 /\ ((6 - 1) % 3) + 1 = 3
    OBVIOUS
  <2>. QED
    BY <1>1, <2>1, <2>2 DEF Weighted, Digits
<1>3. \A i \in Positions : i = 1 \/ i = 2 \/ i = 3 \/ i = 4 \/ i = 5 \/ i = 6
  BY DEF Positions
<1>. QED
  BY <1>1, <1>2, <1>3 DEF Digits

(* An element more adds its summand.                                        *)
LEMMA SumOfOneMore ==
    ASSUME NEW value, \A i \in Positions : value[i] \in Digits,
           NEW s \in SUBSET Positions, NEW x \in s
    PROVE  SumOver(value, s) = Weighted(value, x) + SumOver(value, s \ {x})
<1>1. \A i \in Positions : Weighted(value, i) \in Nat
  BY WeightedDigits
<1>2. /\ x \in Positions /\ Summand(value, s, x) = Weighted(value, x) /\ Summand(value, s \ {x}, x) = 0
      /\ \A i \in Positions : i # x => Summand(value, s \ {x}, i) = Summand(value, s, i)
      /\ \A i \in Positions : Summand(value, s, i) \in Nat /\ Summand(value, s \ {x}, i) \in Nat
  BY <1>1 DEF Summand
<1>3. \A i \in Positions : i = 1 \/ i = 2 \/ i = 3 \/ i = 4 \/ i = 5 \/ i = 6
  BY DEF Positions
<1>4. {1, 2, 3, 4, 5, 6} \subseteq Positions
  BY DEF Positions
<1>. QED
  BY <1>1, <1>2, <1>3, <1>4 DEF SumOver

(* Two solutions agree on the sets of any size, one size after the other.   *)
LEMMA SumsAgreeOnNext ==
    ASSUME NEW value, \A i \in Positions : value[i] \in Digits, NEW h, SumsUp(value, h), NEW k \in Nat,
           \A s \in SUBSET Positions : Cardinality(s) = k => h[s] = SumOver(value, s)
    PROVE  \A s \in SUBSET Positions : Cardinality(s) = k + 1 => h[s] = SumOver(value, s)
<1>. SUFFICES ASSUME NEW s \in SUBSET Positions, Cardinality(s) = k + 1
              PROVE  h[s] = SumOver(value, s)
  OBVIOUS
<1>. DEFINE x == CHOOSE y \in s : TRUE
<1>1. IsFiniteSet(Positions)
  BY PositionsAreSix
<1>2. IsFiniteSet(s)
  BY <1>1, FS_Subset
<1>3. s # {}
  BY FS_EmptySet
<1>4. x \in s
  BY <1>3
<1>5. h[s] = Weighted(value, x) + h[s \ {x}]
  BY <1>3 DEF SumsUp
<1>. HIDE DEF x
<1>6. Cardinality(s \ {x}) = k /\ s \ {x} \in SUBSET Positions
  <2>1. Cardinality(s \ {x}) = Cardinality(s) - 1
    BY <1>2, <1>4, FS_RemoveElement
  <2>. QED
    BY <2>1
<1>. QED
  BY <1>4, <1>5, <1>6, SumOfOneMore

(* The check digit is that of the weighted sum of the six digits.           *)
LEMMA CheckDigitIsOfSum ==
    ASSUME NEW value, DOMAIN value = Positions, \A i \in Positions : value[i] \in Digits
    PROVE  computeCheckDigit(value) =
             (7 * value[1] + 3 * value[2] + value[3] + 7 * value[4] + 3 * value[5] + value[6]) % 10
<1>. DEFINE h == CHOOSE g : SumsUp(value, g)
            f == [s \in SUBSET Positions |-> SumOver(value, s)]
<1>1. computeCheckDigit(value) = h[Positions] % 10
  BY DEF computeCheckDigit, MapThenSumSet, MapThenFoldSet, SumsUp, Weighted
<1>2. SumsUp(value, f)
  <2>1. ASSUME NEW s \in SUBSET Positions, s # {}
        PROVE  SumOver(value, s) = Weighted(value, CHOOSE x \in s : TRUE) + f[s \ {CHOOSE x \in s : TRUE}]
    <3>. DEFINE x == CHOOSE y \in s : TRUE
    <3>1. x \in s
      BY <2>1
    <3>. HIDE DEF x
    <3>2. SumOver(value, s) = Weighted(value, x) + SumOver(value, s \ {x})
      BY <3>1, SumOfOneMore
    <3>3. f[s \ {x}] = SumOver(value, s \ {x})
      OBVIOUS
    <3>4. SumOver(value, s) = Weighted(value, x) + f[s \ {x}]
      BY <3>2, <3>3
    <3>. QED
      BY <3>4 DEF x
  <2>2. SumOver(value, {}) = 0
    BY DEF SumOver, Summand
  <2>. QED
    BY <2>1, <2>2 DEF SumsUp
<1>. HIDE DEF f, h
<1>3. SumsUp(value, h)
  BY <1>2 DEF h
<1>4. \A s \in SUBSET Positions : Cardinality(s) = 0 => h[s] = SumOver(value, s)
  <2>1. ASSUME NEW s \in SUBSET Positions, Cardinality(s) = 0 PROVE h[s] = SumOver(value, s)
    <3>1. IsFiniteSet(Positions)
      BY PositionsAreSix
    <3>2. s = {}
      BY <2>1, <3>1, FS_Subset, FS_EmptySet
    <3>3. h[s] = 0
      BY <1>3, <3>2 DEF SumsUp
    <3>. QED
      BY <3>2, <3>3 DEF SumOver, Summand
  <2>. QED
    BY <2>1
<1>5. ASSUME NEW k \in Nat, \A s \in SUBSET Positions : Cardinality(s) = k => h[s] = SumOver(value, s)
      PROVE  \A s \in SUBSET Positions : Cardinality(s) = k + 1 => h[s] = SumOver(value, s)
  BY <1>3, <1>5, SumsAgreeOnNext
<1>6. \A s \in SUBSET Positions : Cardinality(s) = 1 => h[s] = SumOver(value, s)
  BY <1>4, <1>5
<1>7. \A s \in SUBSET Positions : Cardinality(s) = 2 => h[s] = SumOver(value, s)
  BY <1>6, <1>5
<1>8. \A s \in SUBSET Positions : Cardinality(s) = 3 => h[s] = SumOver(value, s)
  BY <1>7, <1>5
<1>9. \A s \in SUBSET Positions : Cardinality(s) = 4 => h[s] = SumOver(value, s)
  BY <1>8, <1>5
<1>10. \A s \in SUBSET Positions : Cardinality(s) = 5 => h[s] = SumOver(value, s)
  BY <1>9, <1>5
<1>11. \A s \in SUBSET Positions : Cardinality(s) = 6 => h[s] = SumOver(value, s)
  BY <1>10, <1>5
<1>12. h[Positions] = SumOver(value, Positions)
  <2>1. Cardinality(Positions) = 6
    BY PositionsAreSix
  <2>. QED
    BY <1>11, <2>1
<1>13. SumOver(value, Positions) =
         7 * value[1] + 3 * value[2] + value[3] + 7 * value[4] + 3 * value[5] + value[6]
  BY WeightedDigits DEF SumOver, Summand, Positions
<1>. QED
  BY <1>1, <1>12, <1>13

(* A misread digit changes the weighted sum, every weight being prime to ten.*)
LEMMA WeightsArePrime ==
    ASSUME NEW a \in Digits, NEW c \in Digits, NEW r \in Nat
    PROVE  /\ (7 * a + r) % 10 = (7 * c + r) % 10 => a = c
           /\ (3 * a + r) % 10 = (3 * c + r) % 10 => a = c
           /\ (a + r) % 10 = (c + r) % 10 => a = c
BY DEF Digits

LEMMA SumFindsMisread ==
    ASSUME NEW b, NEW c \in Digits, b[1] \in Digits, b[2] \in Digits, b[3] \in Digits,
           b[4] \in Digits, b[5] \in Digits, b[6] \in Digits
    PROVE  LET sum == (7 * b[1] + 3 * b[2] + b[3] + 7 * b[4] + 3 * b[5] + b[6]) % 10
           IN  /\ (7 * c + 3 * b[2] + b[3] + 7 * b[4] + 3 * b[5] + b[6]) % 10 = sum => c = b[1]
               /\ (7 * b[1] + 3 * c + b[3] + 7 * b[4] + 3 * b[5] + b[6]) % 10 = sum => c = b[2]
               /\ (7 * b[1] + 3 * b[2] + c + 7 * b[4] + 3 * b[5] + b[6]) % 10 = sum => c = b[3]
               /\ (7 * b[1] + 3 * b[2] + b[3] + 7 * c + 3 * b[5] + b[6]) % 10 = sum => c = b[4]
               /\ (7 * b[1] + 3 * b[2] + b[3] + 7 * b[4] + 3 * c + b[6]) % 10 = sum => c = b[5]
               /\ (7 * b[1] + 3 * b[2] + b[3] + 7 * b[4] + 3 * b[5] + c) % 10 = sum => c = b[6]
<1>0. /\ b[1] \in Nat /\ b[2] \in Nat /\ b[3] \in Nat /\ b[4] \in Nat
      /\ b[5] \in Nat /\ b[6] \in Nat /\ c \in Nat
  BY DEF Digits
<1>1. ASSUME (7 * c + 3 * b[2] + b[3] + 7 * b[4] + 3 * b[5] + b[6]) % 10
               = (7 * b[1] + 3 * b[2] + b[3] + 7 * b[4] + 3 * b[5] + b[6]) % 10
      PROVE  c = b[1]
  <2>. DEFINE r == 3 * b[2] + b[3] + 7 * b[4] + 3 * b[5] + b[6]
  <2>1. (7 * c + r) % 10 = (7 * b[1] + r) % 10 /\ r \in Nat
    BY ONLY <1>0, <1>1
  <2>2. c \in Digits /\ b[1] \in Digits
    OBVIOUS
  <2>. HIDE DEF r
  <2>. QED
    BY ONLY <2>1, <2>2, WeightsArePrime
<1>2. ASSUME (7 * b[1] + 3 * c + b[3] + 7 * b[4] + 3 * b[5] + b[6]) % 10
               = (7 * b[1] + 3 * b[2] + b[3] + 7 * b[4] + 3 * b[5] + b[6]) % 10
      PROVE  c = b[2]
  <2>. DEFINE r == 7 * b[1] + b[3] + 7 * b[4] + 3 * b[5] + b[6]
  <2>1. (3 * c + r) % 10 = (3 * b[2] + r) % 10 /\ r \in Nat
    BY ONLY <1>0, <1>2
  <2>2. c \in Digits /\ b[2] \in Digits
    OBVIOUS
  <2>. HIDE DEF r
  <2>. QED
    BY ONLY <2>1, <2>2, WeightsArePrime
<1>3. ASSUME (7 * b[1] + 3 * b[2] + c + 7 * b[4] + 3 * b[5] + b[6]) % 10
               = (7 * b[1] + 3 * b[2] + b[3] + 7 * b[4] + 3 * b[5] + b[6]) % 10
      PROVE  c = b[3]
  <2>. DEFINE r == 7 * b[1] + 3 * b[2] + 7 * b[4] + 3 * b[5] + b[6]
  <2>1. (c + r) % 10 = (b[3] + r) % 10 /\ r \in Nat
    BY ONLY <1>0, <1>3
  <2>2. c \in Digits /\ b[3] \in Digits
    OBVIOUS
  <2>. HIDE DEF r
  <2>. QED
    BY ONLY <2>1, <2>2, WeightsArePrime
<1>4. ASSUME (7 * b[1] + 3 * b[2] + b[3] + 7 * c + 3 * b[5] + b[6]) % 10
               = (7 * b[1] + 3 * b[2] + b[3] + 7 * b[4] + 3 * b[5] + b[6]) % 10
      PROVE  c = b[4]
  <2>. DEFINE r == 7 * b[1] + 3 * b[2] + b[3] + 3 * b[5] + b[6]
  <2>1. (7 * c + r) % 10 = (7 * b[4] + r) % 10 /\ r \in Nat
    BY ONLY <1>0, <1>4
  <2>2. c \in Digits /\ b[4] \in Digits
    OBVIOUS
  <2>. HIDE DEF r
  <2>. QED
    BY ONLY <2>1, <2>2, WeightsArePrime
<1>5. ASSUME (7 * b[1] + 3 * b[2] + b[3] + 7 * b[4] + 3 * c + b[6]) % 10
               = (7 * b[1] + 3 * b[2] + b[3] + 7 * b[4] + 3 * b[5] + b[6]) % 10
      PROVE  c = b[5]
  <2>. DEFINE r == 7 * b[1] + 3 * b[2] + b[3] + 7 * b[4] + b[6]
  <2>1. (3 * c + r) % 10 = (3 * b[5] + r) % 10 /\ r \in Nat
    BY ONLY <1>0, <1>5
  <2>2. c \in Digits /\ b[5] \in Digits
    OBVIOUS
  <2>. HIDE DEF r
  <2>. QED
    BY ONLY <2>1, <2>2, WeightsArePrime
<1>6. ASSUME (7 * b[1] + 3 * b[2] + b[3] + 7 * b[4] + 3 * b[5] + c) % 10
               = (7 * b[1] + 3 * b[2] + b[3] + 7 * b[4] + 3 * b[5] + b[6]) % 10
      PROVE  c = b[6]
  <2>. DEFINE r == 7 * b[1] + 3 * b[2] + b[3] + 7 * b[4] + 3 * b[5]
  <2>1. (c + r) % 10 = (b[6] + r) % 10 /\ r \in Nat
    BY ONLY <1>0, <1>6
  <2>2. c \in Digits /\ b[6] \in Digits
    OBVIOUS
  <2>. HIDE DEF r
  <2>. QED
    BY ONLY <2>1, <2>2, WeightsArePrime
<1>. QED
  BY <1>1, <1>2, <1>3, <1>4, <1>5, <1>6

LEMMA ElementsFit == ASSUME NEW S, NEW b \in Seq(S) PROVE \A i \in 1..Len(b) : b[i] \in S
OBVIOUS

(* The check digit of a field with its own at the end.                      *)
LEMMA FieldCheck ==
    ASSUME NEW b \in Seq(Digits), Len(b) = 7
    PROVE  /\ \A i \in 1..7 : b[i] \in Digits
           /\ computeCheckDigit(SubSeq(b, 1, 6)) =
                (7 * b[1] + 3 * b[2] + b[3] + 7 * b[4] + 3 * b[5] + b[6]) % 10
<1>1. \A i \in 1..7 : b[i] \in Digits
  <2>1. \A i \in 1..Len(b) : b[i] \in Digits
    BY ElementsFit
  <2>. QED
    BY <2>1
<1>. DEFINE v == SubSeq(b, 1, 6)
<1>2. /\ DOMAIN v = Positions /\ \A i \in Positions : v[i] = b[i]
  BY DEF Positions
<1>. HIDE DEF v
<1>3. \A i \in Positions : v[i] \in Digits
  BY <1>1, <1>2 DEF Positions
<1>4. computeCheckDigit(v) = (7 * v[1] + 3 * v[2] + v[3] + 7 * v[4] + 3 * v[5] + v[6]) % 10
  BY <1>2, <1>3, CheckDigitIsOfSum
<1>5. /\ v[1] = b[1] /\ v[2] = b[2] /\ v[3] = b[3] /\ v[4] = b[4] /\ v[5] = b[5] /\ v[6] = b[6]
  BY <1>2 DEF Positions
<1>6. computeCheckDigit(v) = (7 * b[1] + 3 * b[2] + b[3] + 7 * b[4] + 3 * b[5] + b[6]) % 10
  BY <1>4, <1>5
<1>. QED
  BY <1>1, <1>6 DEF v

(* With one digit misread, in the field or its check digit, a field whose   *)
(* check digit matches is the field as it is printed.                       *)
THEOREM MisreadIsFound ==
    ASSUME NEW b \in Seq(Digits), Len(b) = 7, computeCheckDigit(SubSeq(b, 1, 6)) = b[7],
           NEW i \in 1..7, NEW c \in Digits,
           computeCheckDigit(SubSeq([b EXCEPT ![i] = c], 1, 6)) = [b EXCEPT ![i] = c][7]
    PROVE  \A j \in Positions : [b EXCEPT ![i] = c][j] = b[j]
<1>. DEFINE e == [b EXCEPT ![i] = c]
<1>1. /\ e \in Seq(Digits) /\ Len(e) = 7 /\ e[i] = c
      /\ \A j \in 1..7 : j # i => e[j] = b[j]
  OBVIOUS
<1>0. computeCheckDigit(SubSeq(e, 1, 6)) = e[7]
  OBVIOUS
<1>. HIDE DEF e
<1>2. /\ (7 * b[1] + 3 * b[2] + b[3] + 7 * b[4] + 3 * b[5] + b[6]) % 10 = b[7]
      /\ (7 * e[1] + 3 * e[2] + e[3] + 7 * e[4] + 3 * e[5] + e[6]) % 10 = e[7]
  BY <1>0, <1>1, FieldCheck
<1>3. /\ b[1] \in Digits /\ b[2] \in Digits /\ b[3] \in Digits /\ b[4] \in Digits
      /\ b[5] \in Digits /\ b[6] \in Digits /\ b[7] \in Digits /\ c \in Digits
  BY FieldCheck
<1>4. CASE i = 7
  BY <1>1, <1>4 DEF Positions
<1>5. ASSUME i # 7 PROVE b[i] = c
  <2>1. e[7] = b[7]
    BY <1>1, <1>5
  <2>2. CASE i = 1
    <3>1. e[1] = c /\ e[2] = b[2] /\ e[3] = b[3] /\ e[4] = b[4] /\ e[5] = b[5] /\ e[6] = b[6]
      BY <1>1, <2>2
    <3>2. (7 * c + 3 * b[2] + b[3] + 7 * b[4] + 3 * b[5] + b[6]) % 10
            = (7 * b[1] + 3 * b[2] + b[3] + 7 * b[4] + 3 * b[5] + b[6]) % 10
      BY <1>2, <2>1, <3>1
    <3>. QED
      BY ONLY <1>3, <2>2, <3>2, SumFindsMisread
  <2>3. CASE i = 2
    <3>1. e[1] = b[1] /\ e[2] = c /\ e[3] = b[3] /\ e[4] = b[4] /\ e[5] = b[5] /\ e[6] = b[6]
      BY <1>1, <2>3
    <3>2. (7 * b[1] + 3 * c + b[3] + 7 * b[4] + 3 * b[5] + b[6]) % 10
            = (7 * b[1] + 3 * b[2] + b[3] + 7 * b[4] + 3 * b[5] + b[6]) % 10
      BY <1>2, <2>1, <3>1
    <3>. QED
      BY ONLY <1>3, <2>3, <3>2, SumFindsMisread
  <2>4. CASE i = 3
    <3>1. e[1] = b[1] /\ e[2] = b[2] /\ e[3] = c /\ e[4] = b[4] /\ e[5] = b[5] /\ e[6] = b[6]
      BY <1>1, <2>4
    <3>2. (7 * b[1] + 3 * b[2] + c + 7 * b[4] + 3 * b[5] + b[6]) % 10
            = (7 * b[1] + 3 * b[2] + b[3] + 7 * b[4] + 3 * b[5] + b[6]) % 10
      BY <1>2, <2>1, <3>1
    <3>. QED
      BY ONLY <1>3, <2>4, <3>2, SumFindsMisread
  <2>5. CASE i = 4
    <3>1. e[1] = b[1] /\ e[2] = b[2] /\ e[3] = b[3] /\ e[4] = c /\ e[5] = b[5] /\ e[6] = b[6]
      BY <1>1, <2>5
    <3>2. (7 * b[1] + 3 * b[2] + b[3] + 7 * c + 3 * b[5] + b[6]) % 10
            = (7 * b[1] + 3 * b[2] + b[3] + 7 * b[4] + 3 * b[5] + b[6]) % 10
      BY <1>2, <2>1, <3>1
    <3>. QED
      BY ONLY <1>3, <2>5, <3>2, SumFindsMisread
  <2>6. CASE i = 5
    <3>1. e[1] = b[1] /\ e[2] = b[2] /\ e[3] = b[3] /\ e[4] = b[4] /\ e[5] = c /\ e[6] = b[6]
      BY <1>1, <2>6
    <3>2. (7 * b[1] + 3 * b[2] + b[3] + 7 * b[4] + 3 * c + b[6]) % 10
            = (7 * b[1] + 3 * b[2] + b[3] + 7 * b[4] + 3 * b[5] + b[6]) % 10
      BY <1>2, <2>1, <3>1
    <3>. QED
      BY ONLY <1>3, <2>6, <3>2, SumFindsMisread
  <2>7. CASE i = 6
    <3>1. e[1] = b[1] /\ e[2] = b[2] /\ e[3] = b[3] /\ e[4] = b[4] /\ e[5] = b[5] /\ e[6] = c
      BY <1>1, <2>7
    <3>2. (7 * b[1] + 3 * b[2] + b[3] + 7 * b[4] + 3 * b[5] + c) % 10
            = (7 * b[1] + 3 * b[2] + b[3] + 7 * b[4] + 3 * b[5] + b[6]) % 10
      BY <1>2, <2>1, <3>1
    <3>. QED
      BY ONLY <1>3, <2>7, <3>2, SumFindsMisread
  <2>. QED
    BY <1>5, <2>2, <2>3, <2>4, <2>5, <2>6, <2>7
<1>6. \A j \in Positions : e[j] = b[j]
  BY <1>1, <1>4, <1>5 DEF Positions
<1>. QED
  BY <1>6 DEF e

(***************************************************************************)
(* DocumentJourney: what the camera hands on is the page of an adult with  *)
(* a passport that is valid.                                               *)
(***************************************************************************)

Dates == [y : Nat, m : 1..12, d : 1..31]

(* The passports of which the two digits of a year say enough: nobody on   *)
(* them is born after the year of the reading, and one that has expired, be *)
(* it today, has done so in its century and within fifty years.             *)
PagesOfTheCentury ==
    /\ Today \in Dates
    /\ \A page \in Pages :
         /\ page.birth \in Dates /\ page.expiry \in Dates
         /\ page.birth.y <= Today.y
         /\ isExpired(page.expiry, Today) =>
              page.expiry.y + 50 >= Today.y /\ page.expiry.y >= Today.y - (Today.y % 100)

LEMMA PrintedIsDigits ==
    ASSUME NEW date \in Dates
    PROVE  /\ Printed(date) \in Seq(Digits) /\ Len(Printed(date)) = 6
           /\ Printed(date)[1] = (date.y % 100) \div 10 /\ Printed(date)[2] = date.y % 10
           /\ Printed(date)[3] = date.m \div 10 /\ Printed(date)[4] = date.m % 10
           /\ Printed(date)[5] = date.d \div 10 /\ Printed(date)[6] = date.d % 10
<1>1. date.y \in Nat /\ date.m \in 1..12 /\ date.d \in 1..31
  BY DEF Dates
<1>2. /\ (date.y % 100) \div 10 \in Digits /\ date.y % 10 \in Digits
      /\ date.m \div 10 \in Digits /\ date.m % 10 \in Digits
      /\ date.d \div 10 \in Digits /\ date.d % 10 \in Digits
  BY <1>1 DEF Digits
<1>. QED
  BY <1>2 DEF Printed

LEMMA AppendFits ==
    ASSUME NEW S, NEW p \in Seq(S), NEW c \in S
    PROVE  /\ Append(p, c) \in Seq(S) /\ Len(Append(p, c)) = Len(p) + 1 /\ Append(p, c)[Len(p) + 1] = c
           /\ \A j \in 1..Len(p) : Append(p, c)[j] = p[j]
OBVIOUS

(* The field of a date, with its check digit, as Line prints it.            *)
Field(date) == Append(Printed(date), computeCheckDigit(Printed(date)))

LEMMA FieldIsDigits ==
    ASSUME NEW date \in Dates
    PROVE  /\ Field(date) \in Seq(Digits) /\ Len(Field(date)) = 7
           /\ \A j \in Positions : Field(date)[j] = Printed(date)[j]
           /\ computeCheckDigit(SubSeq(Field(date), 1, 6)) = Field(date)[7]
<1>. DEFINE p == Printed(date)
<1>1. p \in Seq(Digits) /\ Len(p) = 6
  BY PrintedIsDigits
<1>. HIDE DEF p
<1>2. DOMAIN p = Positions
  BY <1>1 DEF Positions
<1>3. \A j \in Positions : p[j] \in Digits
  <2>1. \A j \in 1..Len(p) : p[j] \in Digits
    BY <1>1, ElementsFit
  <2>. QED
    BY <1>1, <2>1 DEF Positions
<1>4. computeCheckDigit(p) \in Digits
  <2>1. computeCheckDigit(p) = (7 * p[1] + 3 * p[2] + p[3] + 7 * p[4] + 3 * p[5] + p[6]) % 10
    BY <1>2, <1>3, CheckDigitIsOfSum
  <2>2. /\ p[1] \in Nat /\ p[2] \in Nat /\ p[3] \in Nat /\ p[4] \in Nat /\ p[5] \in Nat /\ p[6] \in Nat
    BY ONLY <1>3 DEF Positions, Digits
  <2>3. 7 * p[1] + 3 * p[2] + p[3] + 7 * p[4] + 3 * p[5] + p[6] \in Nat
    BY ONLY <2>2
  <2>4. \A n \in Nat : n % 10 \in 0..9
    OBVIOUS
  <2>5. (7 * p[1] + 3 * p[2] + p[3] + 7 * p[4] + 3 * p[5] + p[6]) % 10 \in 0..9
    BY ONLY <2>3, <2>4
  <2>. QED
    BY <2>1, <2>5 DEF Digits
<1>. DEFINE c == computeCheckDigit(p)
<1>5. /\ Append(p, c) \in Seq(Digits) /\ Len(Append(p, c)) = 7 /\ Append(p, c)[7] = c
      /\ \A j \in Positions : Append(p, c)[j] = p[j]
  <2>. HIDE DEF c
  <2>1. c \in Digits
    BY <1>4 DEF c
  <2>2. /\ Append(p, c) \in Seq(Digits) /\ Len(Append(p, c)) = Len(p) + 1 /\ Append(p, c)[Len(p) + 1] = c
        /\ \A j \in 1..Len(p) : Append(p, c)[j] = p[j]
    <3>1. p \in Seq(Digits)
      BY <1>1
    <3>. QED
      BY ONLY <2>1, <3>1, AppendFits
  <2>3. Len(p) + 1 = 7 /\ 1..Len(p) = Positions
    BY <1>1 DEF Positions
  <2>. QED
    BY ONLY <2>2, <2>3
<1>6. SubSeq(Append(p, c), 1, 6) = p
  <2>. HIDE DEF c
  <2>. QED
    BY <1>1, <1>4, <1>5 DEF Positions, c
<1>. QED
  BY <1>5, <1>6 DEF Field, p

(* A field with at most one digit misread.                                  *)
OneMisread(field, b) == field = b \/ \E i \in 1..7, c \in 0..9 : field = [b EXCEPT ![i] = c]

BirthMisread(line, i, c) == [line EXCEPT !.birth[i] = c]
ExpiryMisread(line, i, c) == [line EXCEPT !.expiry[i] = c]

LEMMA FramesAre ==
    ASSUME NEW page
    PROVE  LET line == Line(Printed(page.birth), Printed(page.expiry))
           IN  Frames(page) = {line} \cup {BirthMisread(line, i, c) : i \in 1..7, c \in 0..9}
                                     \cup {ExpiryMisread(line, i, c) : i \in 1..7, c \in 0..9}
BY DEF Frames, BirthMisread, ExpiryMisread

LEMMA FramesMisreadOne ==
    ASSUME NEW page, NEW line \in Frames(page)
    PROVE  OneMisread(line.birth, Field(page.birth)) /\ OneMisread(line.expiry, Field(page.expiry))
<1>. DEFINE whole == Line(Printed(page.birth), Printed(page.expiry))
<1>1. whole.birth = Field(page.birth) /\ whole.expiry = Field(page.expiry)
  BY DEF Line, Field
<1>2. DOMAIN whole = {"birth", "expiry", "composite"}
      /\ whole = [birth |-> whole.birth, expiry |-> whole.expiry, composite |-> whole.composite]
  BY DEF Line
<1>3. Frames(page) = {whole} \cup {BirthMisread(whole, i, c) : i \in 1..7, c \in 0..9}
                             \cup {ExpiryMisread(whole, i, c) : i \in 1..7, c \in 0..9}
  BY FramesAre
<1>. HIDE DEF whole
<1>4. \/ line = whole
      \/ \E i \in 1..7, c \in 0..9 : line = BirthMisread(whole, i, c)
      \/ \E i \in 1..7, c \in 0..9 : line = ExpiryMisread(whole, i, c)
  BY <1>3
<1>5. CASE line = whole
  BY <1>1, <1>5 DEF OneMisread
<1>6. ASSUME NEW i \in 1..7, NEW c \in 0..9, line = BirthMisread(whole, i, c)
      PROVE  OneMisread(line.birth, Field(page.birth)) /\ OneMisread(line.expiry, Field(page.expiry))
  <2>1. line.birth = [whole.birth EXCEPT ![i] = c] /\ line.expiry = whole.expiry
    BY <1>2, <1>6 DEF BirthMisread
  <2>. QED
    BY <1>1, <2>1 DEF OneMisread
<1>7. ASSUME NEW i \in 1..7, NEW c \in 0..9, line = ExpiryMisread(whole, i, c)
      PROVE  OneMisread(line.birth, Field(page.birth)) /\ OneMisread(line.expiry, Field(page.expiry))
  <2>1. line.expiry = [whole.expiry EXCEPT ![i] = c] /\ line.birth = whole.birth
    BY <1>2, <1>7 DEF ExpiryMisread
  <2>. QED
    BY <1>1, <2>1 DEF OneMisread
<1>. QED
  BY <1>4, <1>5, <1>6, <1>7

(* A field that passes its check is read as it is printed.                  *)
LEMMA CheckedIsPrinted ==
    ASSUME NEW date \in Dates, NEW field, OneMisread(field, Field(date)),
           checkMatches(SubSeq(field, 1, 6), field[7])
    PROVE  \A j \in Positions : field[j] = Printed(date)[j]
<1>1. /\ Field(date) \in Seq(Digits) /\ Len(Field(date)) = 7
      /\ \A j \in Positions : Field(date)[j] = Printed(date)[j]
      /\ computeCheckDigit(SubSeq(Field(date), 1, 6)) = Field(date)[7]
  BY FieldIsDigits
<1>2. computeCheckDigit(SubSeq(field, 1, 6)) = field[7]
  BY DEF checkMatches
<1>3. CASE field = Field(date)
  BY <1>1, <1>3
<1>4. ASSUME NEW i \in 1..7, NEW c \in Digits, field = [Field(date) EXCEPT ![i] = c]
      PROVE  \A j \in Positions : field[j] = Printed(date)[j]
  <2>. DEFINE b == Field(date)
  <2>1. b \in Seq(Digits) /\ Len(b) = 7 /\ computeCheckDigit(SubSeq(b, 1, 6)) = b[7]
    BY <1>1
  <2>2. computeCheckDigit(SubSeq([b EXCEPT ![i] = c], 1, 6)) = [b EXCEPT ![i] = c][7]
    BY <1>2, <1>4
  <2>. HIDE DEF b
  <2>3. \A j \in Positions : [b EXCEPT ![i] = c][j] = b[j]
    BY ONLY <2>1, <2>2, MisreadIsFound
  <2>. QED
    BY <1>1, <1>4, <2>3 DEF b
<1>. QED
  BY <1>3, <1>4 DEF OneMisread, Digits

(* Two digits of a year and its century.                                    *)
LEMMA TwoDigits ==
    ASSUME NEW n \in Nat
    PROVE  /\ 10 * ((n % 100) \div 10) + (n % 10) = n % 100
           /\ 10 * (n \div 10) + (n % 10) = n
           /\ \A r \in Nat : n <= r =>
                /\ n % 100 > r % 100 => n <= r - (r % 100) + (n % 100) - 100
                /\ ~(n % 100 > r % 100) => n <= r - (r % 100) + (n % 100)
                /\ n >= r - (r % 100) => n = r - (r % 100) + (n % 100) /\ n % 100 <= r % 100
OBVIOUS

LEMMA DatePrinted ==
    ASSUME NEW date \in Dates, NEW field, \A j \in Positions : field[j] = Printed(date)[j]
    PROVE  /\ 10 * field[1] + field[2] = date.y % 100
           /\ 10 * field[3] + field[4] = date.m
           /\ 10 * field[5] + field[6] = date.d
<1>1. /\ field[1] = (date.y % 100) \div 10 /\ field[2] = date.y % 10
      /\ field[3] = date.m \div 10 /\ field[4] = date.m % 10
      /\ field[5] = date.d \div 10 /\ field[6] = date.d % 10
  BY PrintedIsDigits DEF Positions
<1>2. date.y \in Nat /\ date.m \in Nat /\ date.d \in Nat
  BY DEF Dates
<1>3. 10 * ((date.y % 100) \div 10) + (date.y % 10) = date.y % 100
  BY <1>2, TwoDigits
<1>4. 10 * (date.m \div 10) + (date.m % 10) = date.m
  BY <1>2, TwoDigits
<1>5. 10 * (date.d \div 10) + (date.d % 10) = date.d
  BY <1>2, TwoDigits
<1>. QED
  BY ONLY <1>1, <1>3, <1>4, <1>5

(* The date that is read has the month and the day of the one that is printed.*)
LEMMA DateRead ==
    ASSUME NEW date \in Dates, NEW field, \A j \in Positions : field[j] = Printed(date)[j],
           NEW kind, NEW reference,
           expandMrzDate(field, kind, reference) # NoDate
    PROVE  expandMrzDate(field, kind, reference) =
             [date EXCEPT !.y = IF kind = "birth" THEN BirthYear(date.y % 100, reference)
                                                  ELSE ExpiryYear(date.y % 100, reference)]
<1>1. /\ 10 * field[1] + field[2] = date.y % 100
      /\ 10 * field[3] + field[4] = date.m
      /\ 10 * field[5] + field[6] = date.d
  BY DatePrinted
<1>. DEFINE year == IF kind = "birth" THEN BirthYear(date.y % 100, reference)
                                     ELSE ExpiryYear(date.y % 100, reference)
<1>2. expandMrzDate(field, kind, reference) =
        IF date.m \in 1..12 /\ date.d \in 1..DaysOf(year, date.m)
        THEN [y |-> year, m |-> date.m, d |-> date.d] ELSE NoDate
  BY <1>1 DEF expandMrzDate
<1>. HIDE DEF year
<1>3. [date EXCEPT !.y = year] = [y |-> year, m |-> date.m, d |-> date.d]
  BY DEF Dates
<1>4. expandMrzDate(field, kind, reference) = [date EXCEPT !.y = year]
  BY <1>2, <1>3
<1>. QED
  BY <1>4 DEF year

(* A birth is never read earlier than it was.                               *)
LEMMA BirthIsNotAged ==
    ASSUME NEW date \in Dates, NEW reference \in Dates, date.y <= reference.y,
           isAdult([date EXCEPT !.y = BirthYear(date.y % 100, reference)], reference)
    PROVE  isAdult(date, reference)
<1>. DEFINE Y == BirthYear(date.y % 100, reference)
            read == [date EXCEPT !.y = Y]
<1>1. /\ date.y \in Nat /\ date.m \in Nat /\ date.d \in Nat
      /\ reference.y \in Nat /\ reference.m \in Nat /\ reference.d \in Nat
  BY DEF Dates
<1>2. date.y <= Y /\ Y \in Int
  BY <1>1, TwoDigits DEF BirthYear
<1>. HIDE DEF Y
<1>3. read.y = Y /\ read.m = date.m /\ read.d = date.d
      /\ [read EXCEPT !.y = reference.y] = [date EXCEPT !.y = reference.y]
  BY DEF Dates
<1>4. isAdult(read, reference)
  BY DEF Y
<1>. HIDE DEF read
<1>5. Before(date, reference)
  BY <1>1, <1>2, <1>3, <1>4 DEF isAdult, Before
<1>6. yearsBetween(date, reference) >= 18
  <2>. DEFINE birthday == [date EXCEPT !.y = reference.y]
              past == IF birthday = reference \/ Before(birthday, reference) THEN 0 ELSE 1
  <2>1. past \in Nat
    OBVIOUS
  <2>2. /\ yearsBetween(date, reference) = reference.y - date.y - past
        /\ yearsBetween(read, reference) = reference.y - Y - past
    BY <1>3 DEF yearsBetween
  <2>3. yearsBetween(read, reference) >= 18
    BY <1>4 DEF isAdult
  <2>. HIDE DEF past
  <2>. QED
    BY <1>1, <1>2, <2>1, <2>2, <2>3
<1>. QED
  BY <1>5, <1>6 DEF isAdult

(* An expiry within fifty years and in this century is read as it was.      *)
LEMMA ExpiryIsRead ==
    ASSUME NEW date \in Dates, NEW reference \in Dates, isExpired(date, reference),
           date.y + 50 >= reference.y, date.y >= reference.y - (reference.y % 100)
    PROVE  [date EXCEPT !.y = ExpiryYear(date.y % 100, reference)] = date
<1>1. date.y \in Nat /\ reference.y \in Nat
  BY DEF Dates
<1>2. date.y <= reference.y
  BY <1>1 DEF isExpired, Before
<1>3. date.y = reference.y - (reference.y % 100) + (date.y % 100)
  BY <1>1, <1>2, TwoDigits
<1>4. ExpiryYear(date.y % 100, reference) = date.y
  BY <1>1, <1>3 DEF ExpiryYear
<1>. QED
  BY <1>4 DEF Dates

LEMMA AcceptableIsEligible ==
    ASSUME PagesOfTheCentury, NEW page \in Acceptable
    PROVE  isAdult(page.birth, Today) /\ ~isExpired(page.expiry, Today)
<1>0. page \in Pages
  BY DEF Acceptable
<1>1. PICK line \in Frames(page) : parseTd3(line, Today) /\ toEligibility(line, Today)
  BY DEF Acceptable
<1>2. /\ Today \in Dates /\ page.birth \in Dates /\ page.expiry \in Dates /\ page.birth.y <= Today.y
      /\ isExpired(page.expiry, Today) =>
           page.expiry.y + 50 >= Today.y /\ page.expiry.y >= Today.y - (Today.y % 100)
  BY <1>0 DEF PagesOfTheCentury
<1>3. OneMisread(line.birth, Field(page.birth)) /\ OneMisread(line.expiry, Field(page.expiry))
  BY FramesMisreadOne
<1>4. /\ checkMatches(SubSeq(line.birth, 1, 6), line.birth[7])
      /\ checkMatches(SubSeq(line.expiry, 1, 6), line.expiry[7])
      /\ expandMrzDate(line.birth, "birth", Today) # NoDate
      /\ expandMrzDate(line.expiry, "expiry", Today) # NoDate
  BY <1>1 DEF parseTd3
<1>5. \A j \in Positions : line.birth[j] = Printed(page.birth)[j]
  BY <1>2, <1>3, <1>4, CheckedIsPrinted
<1>6. \A j \in Positions : line.expiry[j] = Printed(page.expiry)[j]
  BY <1>2, <1>3, <1>4, CheckedIsPrinted
<1>7. expandMrzDate(line.birth, "birth", Today) =
        [page.birth EXCEPT !.y = BirthYear(page.birth.y % 100, Today)]
  BY <1>2, <1>4, <1>5, DateRead
<1>8. expandMrzDate(line.expiry, "expiry", Today) =
        [page.expiry EXCEPT !.y = ExpiryYear(page.expiry.y % 100, Today)]
  BY <1>2, <1>4, <1>6, DateRead
<1>9. isAdult(page.birth, Today)
  BY <1>1, <1>2, <1>7, BirthIsNotAged DEF toEligibility
<1>10. ~isExpired(page.expiry, Today)
  BY <1>1, <1>2, <1>8, ExpiryIsRead DEF toEligibility
<1>. QED
  BY <1>9, <1>10

(* Only the page of an accepted record is delivered by the camera.          *)
DeliveredInv == \A d \in delivered : d.source = "camera" => d.page \in Acceptable

LEMMA DeliveredInit == DInit => DeliveredInv
BY DEF DInit, DeliveredInv

LEMMA DeliveredNext == DeliveredInv /\ [DNext]_dvars => DeliveredInv'
<1>. SUFFICES ASSUME DeliveredInv, [DNext]_dvars PROVE DeliveredInv'
  OBVIOUS
<1>1. CASE UNCHANGED delivered
  BY <1>1 DEF DeliveredInv
<1>2. CASE UNCHANGED dvars
  BY <1>1, <1>2 DEF dvars
<1>3. CASE Advance
  BY <1>1, <1>3 DEF Advance
<1>4. CASE StartCamera
  BY <1>1, <1>4 DEF StartCamera
<1>5. CASE Settle
  BY <1>1, <1>5 DEF Settle
<1>6. CASE Recognize
  BY <1>1, <1>6 DEF Recognize
<1>7. CASE EnterManually
  BY <1>1, <1>7 DEF EnterManually
<1>8. CASE BackToScanner
  BY <1>1, <1>8 DEF BackToScanner
<1>9. CASE Leave
  BY <1>1, <1>9 DEF Leave
<1>10. CASE StepBack
  BY <1>1, <1>10 DEF StepBack
<1>11. ASSUME NEW r \in asking, CameraAnswers(r) PROVE DeliveredInv'
  BY <1>1, <1>11 DEF CameraAnswers
<1>12. ASSUME NEW page \in Pages, AcceptRecord(page) PROVE DeliveredInv'
  <2>1. \/ UNCHANGED delivered
        \/ page \in Acceptable /\ delivered' = delivered \cup {[page |-> page, source |-> "camera"]}
    BY <1>12 DEF AcceptRecord
  <2>. QED
    BY <1>1, <2>1 DEF DeliveredInv
<1>13. ASSUME NEW page \in Pages, SubmitManual(page) PROVE DeliveredInv'
  BY <1>13 DEF SubmitManual, DeliveredInv
<1>. QED
  BY <1>2, <1>3, <1>4, <1>5, <1>6, <1>7, <1>8, <1>9, <1>10, <1>11, <1>12, <1>13 DEF DNext

(* Only the page of an adult with a valid passport is handed on by the      *)
(* camera, whichever digit it misreads, when two digits say enough of the   *)
(* years of the passports (acceptRecord; mrz.ts).                           *)
THEOREM ReadPagesAreEligible == ASSUME PagesOfTheCentury PROVE DSpec => []ReadPageIsEligible
<1>1. \A page \in Acceptable : isAdult(page.birth, Today) /\ ~isExpired(page.expiry, Today)
  BY AcceptableIsEligible
<1>2. DeliveredInv => ReadPageIsEligible
  BY <1>1 DEF DeliveredInv, ReadPageIsEligible
<1>. QED
  BY <1>2, DeliveredInit, DeliveredNext, PTL DEF DSpec
=============================================================================
