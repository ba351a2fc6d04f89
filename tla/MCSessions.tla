----------------------------- MODULE MCSessions -----------------------------
(***************************************************************************)
(* What a browser keeps side by side: the wallet with its providers, the   *)
(* session with Passport, the reading of a document, the onboarding, the   *)
(* screens and the civic pulse; and the wallets the operators pay fees     *)
(* from.  They share no variable, so every behaviour projects onto one of  *)
(* each and it is enough to explore one while the others rest: active says *)
(* which.                                                                  *)
(***************************************************************************)
EXTENDS WalletSession, PassportBridge, DocumentJourney, DustWallet, Onboarding, CivicFront, CivicPulse

\* An adult today, a minor until tomorrow, one a hundred years old less a day, born this
\* year; valid until tomorrow or expiring today.
MCToday == [y |-> 2026, m |-> 9, d |-> 16]

MCPages ==
    LET Day(y, d) == [y |-> y, m |-> 9, d |-> d]
    IN  [birth : {Day(2008, 16), Day(2008, 17), Day(1926, 17), Day(2026, 1)}, expiry : {Day(2026, 17), Day(2026, 16)}]

\* A wallet never funded; funded; funded and its NIGHT moved on; with one of two UTXOs registered.
Unfunded == Funds({}, {}, FALSE)

MCPasts ==
    {<<Unfunded>>, <<Unfunded, Funds({2}, {}, FALSE)>>,
     <<Unfunded, Funds({2}, {}, FALSE), Funds({3}, {}, FALSE)>>,
     <<Unfunded, Funds({2}, {2}, FALSE), Funds({2, 3}, {2}, FALSE)>>}

VARIABLE active

uivars == <<ovars, fvars, pvars>>

vars == <<active, wvars, bvars, dvars, dwvars, uivars>>

Init ==
    /\ active \in {"wallet", "passport", "document", "fees", "onboarding", "screens", "pulse"}
    /\ WInit /\ BInit /\ DInit /\ DWInit /\ OInit /\ FInit /\ PInit
    /\ active # "passport" => ~embedded
    /\ active # "fees" => history["own"] = <<Unfunded>>
    /\ active # "onboarding" => appMode = "demo"

Next ==
    /\ \/ active = "wallet" /\ WNext /\ UNCHANGED <<bvars, dvars, dwvars, uivars>>
       \/ active = "passport" /\ BNext /\ UNCHANGED <<wvars, dvars, dwvars, uivars>>
       \/ active = "document" /\ DNext /\ UNCHANGED <<wvars, bvars, dwvars, uivars>>
       \/ active = "fees" /\ DWNext /\ UNCHANGED <<wvars, bvars, dvars, uivars>>
       \/ active = "onboarding" /\ ONext /\ UNCHANGED <<wvars, bvars, dvars, dwvars, fvars, pvars>>
       \/ active = "screens" /\ FNext /\ UNCHANGED <<wvars, bvars, dvars, dwvars, ovars, pvars>>
       \/ active = "pulse" /\ PNext /\ UNCHANGED <<wvars, bvars, dvars, dwvars, ovars, fvars>>
    /\ UNCHANGED active

\* The fairness of DWSpec where that module is the active one.
Spec ==
    /\ Init /\ [][Next]_vars
    /\ WF_dwvars(active = "fees" /\ BlockComes) /\ WF_dwvars(active = "fees" /\ ReplayGoes)
    /\ WF_dwvars(active = "fees" /\ ScriptGoes) /\ SF_dwvars(active = "fees" /\ StartScript("register"))
=============================================================================
