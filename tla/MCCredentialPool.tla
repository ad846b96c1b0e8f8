-------------------------- MODULE MCCredentialPool --------------------------
(* Model-checking instance of CredentialPool: three profiles in a          *)
(* round-robin pool, two of them also in a least-used pool, one alone in   *)
(* a fill-first pool.                                                      *)
EXTENDS CredentialPool, TLC

CONSTANTS p1, p2, p3

MCMembers == [rr |-> {p1, p2, p3}, lu |-> {p1, p2}, ff |-> {p2, p3}]
MCStrategy == [rr |-> "round_robin", lu |-> "least_used", ff |-> "fill_first"]
MCRank == (p1 :> 0) @@ (p2 :> 1) @@ (p3 :> 2)

CallerSymmetry == Permutations(Callers)
=============================================================================
