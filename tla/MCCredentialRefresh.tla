------------------------ MODULE MCCredentialRefresh ------------------------
(* Model-checking instance of CredentialRefresh. *)
EXTENDS CredentialRefresh, TLC

CallerSymmetry == Permutations(Callers)
=============================================================================
