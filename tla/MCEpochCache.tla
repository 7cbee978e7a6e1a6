---------------------------- MODULE MCEpochCache ----------------------------
(* Model-checking instance of EpochCache. *)
EXTENDS EpochCache
=============================================================================
