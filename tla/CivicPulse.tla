----------------------------- MODULE CivicPulse -----------------------------
(***************************************************************************)
(* The civic pulse: a questionnaire on the device, its journey history,    *)
(* the adapter that checks a draft, and the reflection kept in the         *)
(* browser's storage.  AnswerSets are edited from the review and the journey  *)
(* may be walked back from any screen, the last one included, by the       *)
(* browser's own button.                                                   *)
(***************************************************************************)
EXTENDS Naturals, Sequences, FiniteSets

CONSTANTS Priorities, Values, Areas,    \* the options of the three lists
          NoAnswer,                     \* the value "prefer-not-to-answer"
          Budgets, Fundings,            \* the options of the two single choices
          Null,
          MaxDepth,                     \* bound: screens in the history
          Cap,                          \* the most priorities, 3 in the code
          MaxEdits                      \* bound: answers touched and questions reopened in one visit

\* The lists offer five values and four areas.
ASSUME PulseAssumption ==
    /\ NoAnswer \in Values /\ Null \notin Budgets \cup Fundings /\ {MaxDepth, MaxEdits, Cap} \subseteq Nat
    /\ IsFiniteSet(Values) /\ Cardinality(Values) <= 5 /\ IsFiniteSet(Areas) /\ Cardinality(Areas) <= 5

Questions == {"priorities", "values", "budget", "funding", "explanations"}

PulseStages == Questions \cup {"home", "intro", "review", "complete"}

VARIABLES
    trail,       \* the journey's history, <<>> while the pulse is closed
    answers,     \* priorities, tradeoffs, explanationAreas, budget, funding
    editing,     \* the next step leads back to the review
    saved,       \* the reflection the component has read or stored
    marked,      \* savedThisRun
    stored,      \* local storage
    edits

pvars == <<trail, answers, editing, saved, marked, stored, edits>>

Blank == [priorities |-> {}, tradeoffs |-> {}, areas |-> {}, budget |-> Null, funding |-> Null]

AnswerSets == [priorities : SUBSET Priorities, tradeoffs : SUBSET Values, areas : SUBSET Areas,
            budget : Budgets \cup {Null}, funding : Fundings \cup {Null}]

PTypeOK ==
    /\ trail \in Seq(PulseStages) /\ Len(trail) <= MaxDepth
    /\ answers \in AnswerSets /\ Cardinality(answers.priorities) <= Cap
    /\ NoAnswer \in answers.tradeoffs => answers.tradeoffs = {NoAnswer}
    /\ {saved, stored} \subseteq AnswerSets \cup {Null}
    /\ {editing, marked} \subseteq BOOLEAN /\ edits \in 0..MaxEdits

PInit ==
    /\ trail = <<>> /\ answers = Blank /\ editing = FALSE /\ marked = FALSE /\ edits = 0
    /\ saved = Null /\ stored = Null

shown == trail[Len(trail)]
Showing(s) == trail # <<>> /\ shown = s

\* readReflection: what is stored is dropped unless it holds one to three priorities, and at
\* most five of the other answers, none of them twice.
readReflection ==
    IF stored # Null /\ Cardinality(stored.priorities) \in 1..Cap /\ Cardinality(stored.tradeoffs) <= 5
       /\ Cardinality(stored.areas) <= 5
    THEN stored ELSE Null

\* The component is mounted: everything but the storage is new.
EnterPulse ==
    /\ trail = <<>> /\ trail' = <<"home">> /\ saved' = readReflection
    /\ answers' = Blank /\ editing' = FALSE /\ marked' = FALSE /\ edits' = 0 /\ UNCHANGED stored

ExitPulse ==
    /\ trail # <<>> /\ trail' = <<>>
    /\ answers' = Blank /\ editing' = FALSE /\ saved' = Null /\ marked' = FALSE /\ edits' = 0
    /\ UNCHANGED stored

GoTo(next) == Len(trail) < MaxDepth /\ trail' = IF shown = next THEN trail ELSE Append(trail, next)

\* journey.back on every screen but the last, the browser's button on all of them.
WalkBack ==
    /\ Len(trail) > 1 /\ trail' = SubSeq(trail, 1, Len(trail) - 1)
    /\ UNCHANGED <<answers, editing, saved, marked, stored, edits>>

Begin ==
    /\ \/ Showing("home") /\ GoTo("intro")
       \/ Showing("intro") /\ GoTo("priorities")
    /\ UNCHANGED <<answers, editing, saved, marked, stored, edits>>

Toggle(items, item) == IF item \in items THEN items \ {item} ELSE items \cup {item}

Answer(a) ==
    /\ edits < MaxEdits /\ edits' = edits + 1 /\ answers' = a
    /\ UNCHANGED <<trail, editing, saved, marked, stored>>

\* choosePriority: one beyond the cap is refused.
Chosen(p) ==
    IF p \notin answers.priorities /\ Cardinality(answers.priorities) = Cap THEN answers.priorities
    ELSE Toggle(answers.priorities, p)

ChoosePriority(p) == Showing("priorities") /\ Answer([answers EXCEPT !.priorities = Chosen(p)])

\* chooseValue: to prefer not to answer excludes the others.
ChooseValue(v) ==
    /\ Showing("values")
    /\ Answer([answers EXCEPT !.tradeoffs =
                  IF v = NoAnswer THEN IF v \in @ THEN {} ELSE {v} ELSE Toggle(@ \ {NoAnswer}, v)])

ChooseBudget(b) == Showing("budget") /\ Answer([answers EXCEPT !.budget = b])

ChooseFunding(f) == Showing("funding") /\ Answer([answers EXCEPT !.funding = f])

ChooseArea(x) == Showing("explanations") /\ Answer([answers EXCEPT !.areas = Toggle(@, x)])

Follows == [priorities |-> "values", values |-> "budget", budget |-> "funding", funding |-> "explanations",
            explanations |-> "review"]

\* next, which leads back to the review when it came from there, and the skip of an optional question.
NextQuestion ==
    /\ trail # <<>> /\ shown \in Questions
    /\ GoTo(IF editing THEN "review" ELSE Follows[shown]) /\ editing' = FALSE
    /\ \/ (shown = "priorities" => answers.priorities # {}) /\ UNCHANGED answers
       \/ shown = "values" /\ answers' = [answers EXCEPT !.tradeoffs = {}]
       \/ shown = "budget" /\ answers' = [answers EXCEPT !.budget = Null]
       \/ shown = "funding" /\ answers' = [answers EXCEPT !.funding = Null]
       \/ shown = "explanations" /\ answers' = [answers EXCEPT !.areas = {}]
    /\ UNCHANGED <<saved, marked, stored, edits>>

EditFromReview(q) ==
    /\ Showing("review") /\ editing' = TRUE /\ GoTo(q) /\ edits < MaxEdits /\ edits' = edits + 1
    /\ UNCHANGED <<answers, saved, marked, stored>>

\* completeLocalDemo: one to three known priorities, none twice.
DraftAccepted == Cardinality(answers.priorities) \in 1..Cap

\* Mutant: the mark of the last save is kept.
FinishKeepsMark ==
    /\ Showing("review") /\ DraftAccepted /\ GoTo("complete")
    /\ UNCHANGED <<answers, editing, saved, marked, stored, edits>>

\* finish: a refused draft stays at the review with an error.
FinishPulse ==
    /\ Showing("review") /\ DraftAccepted /\ GoTo("complete") /\ marked' = FALSE
    /\ UNCHANGED <<answers, editing, saved, stored, edits>>

\* persist, or a storage that is full or forbidden.
Persist ==
    /\ ~marked
    /\ \/ stored' = answers /\ saved' = answers /\ marked' = TRUE
       \/ UNCHANGED <<stored, saved, marked>>
    /\ UNCHANGED <<trail, answers, editing, edits>>

\* The saved reflection is reviewed, or deleted, from the first screen.
Restore ==
    /\ Showing("home") /\ saved # Null /\ answers' = saved /\ editing' = FALSE /\ GoTo("review")
    /\ UNCHANGED <<saved, marked, stored, edits>>

EraseSaved ==
    /\ Showing("home") /\ saved # Null /\ saved' = Null /\ stored' = Null
    /\ UNCHANGED <<trail, answers, editing, marked, edits>>

\* eraseAndReset, which leaves the pulse.
EraseAndReset ==
    /\ stored' = Null /\ saved' = Null /\ trail' = <<>>
    /\ answers' = Blank /\ editing' = FALSE /\ marked' = FALSE /\ edits' = 0

\* The last screen: save the answers, take them to the guide or return, or erase them.
Complete == Showing("complete") /\ (Persist \/ ExitPulse \/ EraseAndReset)

\* removeLocalData of the application, from its settings.
RemoveReflection ==
    /\ trail = <<>> /\ stored' = Null /\ UNCHANGED <<trail, answers, editing, saved, marked, edits>>

PNext ==
    \/ EnterPulse \/ ExitPulse \/ WalkBack \/ Begin \/ NextQuestion
    \/ (\E p \in Priorities : ChoosePriority(p)) \/ (\E v \in Values : ChooseValue(v))
    \/ (\E b \in Budgets : ChooseBudget(b)) \/ (\E f \in Fundings : ChooseFunding(f)) \/ (\E x \in Areas : ChooseArea(x))
    \/ (\E q \in Questions : EditFromReview(q)) \/ FinishPulse \/ Complete \/ Restore
    \/ EraseSaved \/ RemoveReflection

PSpec == PInit /\ [][PNext]_pvars

(***************************************************************************)
(* Properties.                                                             *)
(***************************************************************************)

\* The screen that says the answers are saved on this device says so of the answers it shows,
\* after any walk back, edit and second completion; and whatever is stored is found again when
\* the pulse is opened: the rules of the questionnaire, of the adapter and of readReflection
\* agree on every answer that can be saved.
SavedMarkIsTrue ==
    /\ Showing("complete") /\ marked => stored = answers
    /\ readReflection = stored
=============================================================================
