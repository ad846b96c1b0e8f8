--------------------------- MODULE ExclusiveGrant ---------------------------
(***************************************************************************)
(* What the refresh lease of one profile promises to its callers: a lock   *)
(* that is granted only when nobody has it, and that ends because its      *)
(* owner gave it up or because its time ran out.  Who asks, how long it    *)
(* polls and what it read on the way are not part of the promise.          *)
(***************************************************************************)

CONSTANT Owners    \* the calls that may be granted the lock

VARIABLE holders   \* the set of owners of the lock: empty, or one of them

Init == holders = {}

Grant(o) == holders = {} /\ holders' = {o}

End == holders # {} /\ holders' = {}

Next == End \/ \E o \in Owners : Grant(o)

Spec == Init /\ [][Next]_holders

\* The lock never has two owners.
Exclusive == \A a, b \in holders : a = b
=============================================================================
