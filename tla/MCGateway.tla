----------------------------- MODULE MCGateway -----------------------------
(* Model-checking instance of Gateway. *)
EXTENDS Gateway, TLC

ConnectionSymmetry == Permutations(Connections)
=============================================================================
