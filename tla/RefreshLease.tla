---------------------------- MODULE RefreshLease ----------------------------
(***************************************************************************)
(* ProfileRegistry.refresh_lease (profiles.py): the cross-process lease    *)
(* that serialises refreshes of one credential profile.  The lease is one  *)
(* row of the SQLite table refresh_leases; every process and thread that   *)
(* wants it polls the table inside short BEGIN IMMEDIATE transactions, so  *)
(* a transaction is one step and everything between two transactions can   *)
(* be interleaved: the wall clock is read BEFORE the transaction starts    *)
(* (which may wait for SQLite's write lock), and the body of the "with"    *)
(* statement runs for as long as it likes.                                 *)
(*                                                                         *)
(* One profile is modelled, since the row is keyed by profile_id and two   *)
(* profiles share nothing.  time.time() and time.monotonic() are one clock *)
(* (the wall clock is assumed not to be set while a lease is in use).      *)
(***************************************************************************)
EXTENDS Integers

CONSTANTS
  Callers,    \* threads of any process that use the same profile store
  TTL,        \* ttl_seconds
  Wait,       \* wait_seconds
  MaxTime,    \* bound: the last instant of the clock
  MaxCalls    \* bound: refresh_lease calls each caller makes

ASSUME LeaseAssumption ==
  /\ TTL \in Nat
  /\ Wait \in Nat
  /\ MaxTime \in Nat
  /\ MaxCalls \in Nat

VARIABLES
  now,        \* the clock
  lease,      \* the rows of refresh_leases for this profile
  pc,         \* where each caller stands in refresh_lease
  calls,      \* calls begun so far; with the caller it stands for uuid4()
  deadline,   \* the local "deadline"
  seen,       \* the local "now": the clock as read before the transaction
  granted     \* history: the expires_at of the caller's own grant

leaseVars == <<now, lease, pc, calls, deadline, seen, granted>>

Owners == Callers \X (0..MaxCalls)

\* pid:uuid4 is fresh for every call, so the n-th call of a caller names it.
Owner(c) == <<c, calls[c]>>

Rows == [owner : Owners, expires_at : Nat]

TypeOK ==
  /\ now \in Nat
  /\ lease \in SUBSET Rows
  /\ pc \in [Callers -> {"idle", "loop", "attempt", "held"}]
  /\ calls \in [Callers -> 0..MaxCalls]
  /\ deadline \in [Callers -> Nat]
  /\ seen \in [Callers -> Nat]
  /\ granted \in [Callers -> Nat]

Init ==
  /\ now = 0
  /\ lease = {}
  /\ pc = [c \in Callers |-> "idle"]
  /\ calls = [c \in Callers |-> 0]
  /\ deadline = [c \in Callers |-> 0]
  /\ seen = [c \in Callers |-> 0]
  /\ granted = [c \in Callers |-> 0]

-----------------------------------------------------------------------------
(* The steps of one call.                                                  *)

\* Enter refresh_lease: a fresh owner and a deadline.
Call(c) ==
  /\ pc[c] = "idle"
  /\ calls[c] < MaxCalls
  /\ now + Wait <= MaxTime
  /\ pc' = [pc EXCEPT ![c] = "loop"]
  /\ calls' = [calls EXCEPT ![c] = @ + 1]
  /\ deadline' = [deadline EXCEPT ![c] = now + Wait]
  /\ UNCHANGED <<now, lease, seen, granted>>

\* The loop condition holds: read the clock, then wait for the write lock.
ReadClock(c) ==
  /\ pc[c] = "loop"
  /\ now < deadline[c]
  /\ pc' = [pc EXCEPT ![c] = "attempt"]
  /\ seen' = [seen EXCEPT ![c] = now]
  /\ UNCHANGED <<now, lease, calls, deadline, granted>>

\* Mutant: a lease about to run out is taken early.
MutantClaimable(t) == \A r \in lease : r.expires_at <= t + 1

\* No row, or one that had expired by the time the clock was read.
Claimable(t) == \A r \in lease : r.expires_at <= t

\* Mutant: the time a call may wait is added to the life of its lease.
MutantLeaseUntil(t) == t + TTL + Wait

LeaseUntil(t) == t + TTL

\* The transaction finds the lease claimable and commits its own row over it.
Acquire(c) ==
  /\ pc[c] = "attempt"
  /\ Claimable(seen[c])
  /\ lease' = {[owner |-> Owner(c), expires_at |-> LeaseUntil(seen[c])]}
  /\ granted' = [granted EXCEPT ![c] = LeaseUntil(seen[c])]
  /\ pc' = [pc EXCEPT ![c] = "held"]
  /\ UNCHANGED <<now, calls, deadline, seen>>

\* Mutant: the deadline is computed inside the loop, so a refusal renews it.
MutantRefused(c) ==
  /\ pc[c] = "attempt"
  /\ ~Claimable(seen[c])
  /\ pc' = [pc EXCEPT ![c] = "loop"]
  /\ deadline' = [deadline EXCEPT ![c] = now + Wait]
  /\ UNCHANGED <<now, lease, calls, seen, granted>>

\* The transaction finds somebody's row, rolls back and sleeps.
Refused(c) ==
  /\ pc[c] = "attempt"
  /\ ~Claimable(seen[c])
  /\ pc' = [pc EXCEPT ![c] = "loop"]
  /\ UNCHANGED <<now, lease, calls, deadline, seen, granted>>

\* SQLite raises (the write lock was busy for too long): the call fails.
StoreFault(c) ==
  /\ pc[c] = "attempt"
  /\ pc' = [pc EXCEPT ![c] = "idle"]
  /\ UNCHANGED <<now, lease, calls, deadline, seen, granted>>

\* The deadline has passed without a grant: RefreshError.
TimeOut(c) ==
  /\ pc[c] = "loop"
  /\ now >= deadline[c]
  /\ pc' = [pc EXCEPT ![c] = "idle"]
  /\ UNCHANGED <<now, lease, calls, deadline, seen, granted>>

\* Mutant: DELETE ... WHERE profile_id = ?, whoever owns the row.
MutantSurviving(c) == {}

\* What the DELETE of the finally block leaves: only the caller's own row goes.
Surviving(c) == {r \in lease : r.owner # Owner(c)}

\* The body ended, normally or not: the finally block releases the lease.
Release(c) ==
  /\ pc[c] = "held"
  /\ lease' = Surviving(c)
  /\ pc' = [pc EXCEPT ![c] = "idle"]
  /\ UNCHANGED <<now, calls, deadline, seen, granted>>

\* The process dies, or the releasing DELETE itself raises: the row stays.
Abandon(c) ==
  /\ pc[c] # "idle"
  /\ pc' = [pc EXCEPT ![c] = "idle"]
  /\ UNCHANGED <<now, lease, calls, deadline, seen, granted>>

Tick ==
  /\ now < MaxTime
  /\ now' = now + 1
  /\ UNCHANGED <<lease, pc, calls, deadline, seen, granted>>

\* What a waiting caller does by itself, without dying.
Poll(c) == ReadClock(c) \/ Acquire(c) \/ Refused(c) \/ TimeOut(c)

Step(c) ==
  \/ Call(c) \/ ReadClock(c) \/ Acquire(c) \/ Refused(c)
  \/ StoreFault(c) \/ TimeOut(c) \/ Release(c) \/ Abandon(c)

Next == Tick \/ \E c \in Callers : Step(c)

Spec == Init /\ [][Next]_leaseVars

\* Time passes, and a process that is scheduled keeps polling.  Nothing says
\* that a holder ever releases, or that SQLite faults stay away.
FairSpec == Spec /\ WF_leaseVars(Tick) /\ \A c \in Callers : WF_leaseVars(Poll(c))

-----------------------------------------------------------------------------
(* What refresh_lease promises.                                            *)

\* c is inside the with-body and the lease it was granted has not run out.
LiveHolder(c) == pc[c] = "held" /\ now < granted[c]

\* Two callers are never inside the with-body on leases that have both not run
\* out, whatever crashes, however stale the clock reading a claim was based on
\* and whichever overdue holder releases late.  A holder whose lease ran out is
\* still inside, so this is not mutual exclusion of the bodies.
AtMostOneLiveHolder ==
  \A c, d \in Callers : LiveHolder(c) /\ LiveHolder(d) => c = d

\* Whoever holds a live lease is recorded as its owner with its own expiry, so
\* every other process that looks at the table is kept out until then.
LiveHolderOwnsRow ==
  \A c \in Callers : LiveHolder(c) =>
    lease = {[owner |-> Owner(c), expires_at |-> granted[c]]}

\* A row left behind by a crash blocks the profile for at most TTL.
BlockedAtMostTTL == \A r \in lease : r.expires_at <= now + TTL

\* While a live holder stays inside, no step of anybody changes the row: an
\* overdue holder's release and a slow claim cannot take it away.
LiveLeaseUndisturbed ==
  [][\A c \in Callers : LiveHolder(c) /\ pc'[c] = "held" => lease' = lease]_leaseVars

\* Every call of refresh_lease ends its wait: it enters the body or fails.
WaitEnds ==
  \A c \in Callers : pc[c] \in {"loop", "attempt"} ~> pc[c] \in {"held", "idle"}

-----------------------------------------------------------------------------
(* The abstract lock this implements: see ExclusiveGrant.                  *)

LiveRows == {r \in lease : now < r.expires_at}

LiveOwners == {r.owner : r \in LiveRows}

Lock == INSTANCE ExclusiveGrant WITH holders <- LiveOwners

\* refresh_lease implements a lock that expires: a grant only when nobody has
\* it, and never a hand-over from one owner to another in a single step.
ImplementsLock == Lock!Spec

-----------------------------------------------------------------------------
(* The inductive invariant behind the safety properties.                   *)

\* profile_id is the table's PRIMARY KEY.
OneRow == \A r, s \in lease : r = s

\* A clock reading is never ahead of the clock.
SeenInThePast == \A c \in Callers : pc[c] = "attempt" => seen[c] <= now

IInv ==
  /\ TypeOK
  /\ OneRow
  /\ SeenInThePast
  /\ LiveHolderOwnsRow
  /\ BlockedAtMostTTL

=============================================================================
