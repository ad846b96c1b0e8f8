-------------------------- MODULE MCRefreshLease --------------------------
(* Model-checking instance of RefreshLease.  Liveness rules out symmetry. *)
EXTENDS RefreshLease
=============================================================================
