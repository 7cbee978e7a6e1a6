------------------------- MODULE MCCreditPurchase -------------------------
(* Model-checking instance of CreditPurchase: two receipts of two arms, one *)
(* with two admins and one with one; purchases and callback slots are       *)
(* interchangeable.                                                         *)
EXTENDS CreditPurchase, TLC

CONSTANTS r1, r2, a1, a2, a3

TwoArms == [r \in {r1, r2} |-> IF r = r1 THEN {a1, a2} ELSE {a3}]
NoReceipts == [r \in {} |-> {}]

Symmetry ==
    Permutations(Purchases) \union Permutations(Callbacks) \union Permutations(Reviewers \ {a3})
===========================================================================
