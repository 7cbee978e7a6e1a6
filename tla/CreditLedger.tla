---------------------------- MODULE CreditLedger ----------------------------
(***************************************************************************)
(* What buying credit promises, whichever way it is done.  A source of     *)
(* credit is an online purchase or a manual receipt.  Its money becomes    *)
(* final once (the gateway has confirmed it, the receipt is handed in);    *)
(* only then may the source be credited, in one step with showing it as    *)
(* paid for; and whatever is shown of it later, credit is never taken      *)
(* back.                                                                   *)
(***************************************************************************)
EXTENDS FiniteSets

CONSTANT Sources

VARIABLES
    final,     \* sources whose money is final
    shown,     \* sources shown as paid for
    credited   \* sources that gave credit

vars == <<final, shown, credited>>

TypeOK ==
    /\ final \subseteq Sources
    /\ shown \subseteq Sources
    /\ credited \subseteq Sources

Init == final = {} /\ shown = {} /\ credited = {}

Finalize(s) ==
    /\ s \notin final
    /\ final' = final \union {s}
    /\ UNCHANGED <<shown, credited>>

Grant(s) ==
    /\ s \in final
    /\ shown' = shown \union {s}
    /\ credited' = credited \union {s}
    /\ UNCHANGED final

\* A late refusal: what is shown changes, the credit stays.
Deny(s) ==
    /\ s \in shown
    /\ shown' = shown \ {s}
    /\ UNCHANGED <<final, credited>>

Next == \E s \in Sources : Finalize(s) \/ Grant(s) \/ Deny(s)

Spec == Init /\ [][Next]_vars

\* Whatever is shown as paid for gave its credit, and only final money gave credit.
Backed == shown \subseteq credited /\ credited \subseteq final
=============================================================================
