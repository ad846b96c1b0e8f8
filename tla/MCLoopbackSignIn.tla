-------------------------- MODULE MCLoopbackSignIn --------------------------
(* Model-checking instance of LoopbackSignIn. *)
EXTENDS LoopbackSignIn
=============================================================================
