------------------------ MODULE MCReferralSettlement ------------------------
(* Model-checking instances of ReferralSettlement. *)
EXTENDS ReferralSettlement, TLC

Symmetry == Permutations(Calls)
=============================================================================
