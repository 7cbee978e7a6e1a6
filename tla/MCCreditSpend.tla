--------------------------- MODULE MCCreditSpend ---------------------------
(* Model-checking instances of CreditSpend.  Wallets do not interact, so one *)
(* user is enough; what matters is how many calls charge its wallet at once. *)
EXTENDS CreditSpend, TLC

OneWallet == [c \in Calls |-> CHOOSE u \in Users : TRUE]

\* The defaults of the code are one credit, and ten for a bump.
SmallCosts == [k \in AllKinds |-> IF k \in {"bump", "extend", "approveAd"} THEN 2 ELSE 1]

Symmetry == Permutations(Calls)
============================================================================
