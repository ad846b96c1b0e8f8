------------------------- MODULE MCProfileLifecycle -------------------------
(* Model-checking instance of ProfileLifecycle. *)
EXTENDS ProfileLifecycle, TLC

CallerSymmetry == Permutations(Callers)
=============================================================================
