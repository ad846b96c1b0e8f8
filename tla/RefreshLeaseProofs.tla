------------------------- MODULE RefreshLeaseProofs -------------------------
(***************************************************************************)
(* RefreshLease for every set of callers, time to live, wait and bound:    *)
(* the inductive invariant, exclusion of live holders, the undisturbed     *)
(* live lease, and the implementation of the abstract lock.                *)
(***************************************************************************)
EXTENDS RefreshLease, TLAPS

-----------------------------------------------------------------------------
(* Facts about the state alone.                                            *)

\* The record a call of c writes is one of the table's possible rows.
LEMMA OwnerType ==
  ASSUME TypeOK, NEW c \in Callers
  PROVE  Owner(c) \in Owners
BY DEF TypeOK, Owner, Owners

\* Distinct callers have distinct owners: the caller is part of the name, as
\* the process id and uuid4 are part of it in the code.
LEMMA OwnerInjective ==
  ASSUME NEW c \in Callers, NEW d \in Callers, Owner(c) = Owner(d)
  PROVE  c = d
BY DEF Owner

\* Two live holders would have to own the same row, hence be the same caller.
LEMMA ExclusionFromOwnership ==
  ASSUME LiveHolderOwnsRow
  PROVE  AtMostOneLiveHolder
<1> SUFFICES ASSUME NEW c \in Callers, NEW d \in Callers,
                    LiveHolder(c), LiveHolder(d)
             PROVE  c = d
  BY DEF AtMostOneLiveHolder
<1>1. lease = {[owner |-> Owner(c), expires_at |-> granted[c]]}
  BY DEF LiveHolderOwnsRow
<1>2. lease = {[owner |-> Owner(d), expires_at |-> granted[d]]}
  BY DEF LiveHolderOwnsRow
<1>3. [owner |-> Owner(c), expires_at |-> granted[c]]
        = [owner |-> Owner(d), expires_at |-> granted[d]]
  BY <1>1, <1>2
<1>4. Owner(c) = Owner(d)
  BY <1>3
<1> QED
  BY <1>4, OwnerInjective

\* A claim made on a clock reading from the past finds no live holder: the row
\* of a live holder has not expired now, so it had not expired then.
LEMMA ClaimFindsNoLiveHolder ==
  ASSUME IInv, NEW c \in Callers, NEW d \in Callers,
         pc[c] = "attempt", Claimable(seen[c])
  PROVE  ~LiveHolder(d)
<1> SUFFICES ASSUME LiveHolder(d)
             PROVE  FALSE
  OBVIOUS
<1>1. [owner |-> Owner(d), expires_at |-> granted[d]] \in lease
  BY DEF IInv, LiveHolderOwnsRow
<1>2. granted[d] <= seen[c]
  BY <1>1 DEF Claimable
<1>3. seen[c] <= now
  BY DEF IInv, SeenInThePast
<1>4. now < granted[d]
  BY DEF LiveHolder
<1> QED
  BY <1>2, <1>3, <1>4 DEF IInv, TypeOK

-----------------------------------------------------------------------------
(* The inductive invariant.                                                *)

LEMMA InitIInv == ASSUME Init PROVE IInv
BY LeaseAssumption
   DEF Init, IInv, TypeOK, OneRow, SeenInThePast, LiveHolderOwnsRow, LiveHolder,
       BlockedAtMostTTL, Rows

\* The type invariant alone is inductive.
LEMMA TypeStep ==
  ASSUME TypeOK, [Next]_leaseVars
  PROVE  TypeOK'
<1> USE LeaseAssumption DEF TypeOK
<1>1. CASE Tick
  BY <1>1 DEF Tick
<1>2. ASSUME NEW c \in Callers, Step(c)
      PROVE  TypeOK'
  <2>1. CASE Call(c)
    BY <2>1 DEF Call
  <2>2. CASE ReadClock(c)
    BY <2>2 DEF ReadClock
  <2>3. CASE Acquire(c)
    <3>1. Owner(c) \in Owners
      BY OwnerType
    <3>2. LeaseUntil(seen[c]) \in Nat
      BY DEF LeaseUntil
    <3> QED
      BY <2>3, <3>1, <3>2 DEF Acquire, Rows
  <2>4. CASE Refused(c)
    BY <2>4 DEF Refused
  <2>5. CASE StoreFault(c)
    BY <2>5 DEF StoreFault
  <2>6. CASE TimeOut(c)
    BY <2>6 DEF TimeOut
  <2>7. CASE Release(c)
    BY <2>7 DEF Release, Surviving
  <2>8. CASE Abandon(c)
    BY <2>8 DEF Abandon
  <2> QED
    BY <1>2, <2>1, <2>2, <2>3, <2>4, <2>5, <2>6, <2>7, <2>8 DEF Step
<1>3. CASE UNCHANGED leaseVars
  BY <1>3 DEF leaseVars
<1> QED
  BY <1>1, <1>2, <1>3 DEF Next

LEMMA StepIInv ==
  ASSUME IInv, [Next]_leaseVars
  PROVE  IInv'
<1> USE LeaseAssumption
<1>1. TypeOK /\ TypeOK'
  BY TypeStep DEF IInv
<1> USE <1>1 DEF IInv, OneRow, SeenInThePast, LiveHolderOwnsRow, LiveHolder,
                 BlockedAtMostTTL
<1>2. CASE Tick
  BY <1>2 DEF Tick, TypeOK, Rows, Owner
<1>3. ASSUME NEW c \in Callers, Step(c)
      PROVE  IInv'
  <2>1. CASE Call(c)
    BY <2>1 DEF Call, TypeOK, Owner
  <2>2. CASE ReadClock(c)
    BY <2>2 DEF ReadClock, TypeOK, Owner
  <2>3. CASE Acquire(c)
    <3>1. \A d \in Callers : ~LiveHolder(d)
      BY <2>3, ClaimFindsNoLiveHolder DEF Acquire
    <3>2. SeenInThePast'
      BY <2>3 DEF Acquire, TypeOK
    <3>3. LiveHolderOwnsRow'
      BY <2>3, <3>1 DEF Acquire, TypeOK, Owner
    <3>4. OneRow'
      BY <2>3 DEF Acquire
    <3>5. BlockedAtMostTTL'
      BY <2>3 DEF Acquire, LeaseUntil, TypeOK
    <3> QED
      BY <3>2, <3>3, <3>4, <3>5
  <2>4. CASE Refused(c)
    BY <2>4 DEF Refused, TypeOK, Owner
  <2>5. CASE StoreFault(c)
    BY <2>5 DEF StoreFault, TypeOK, Owner
  <2>6. CASE TimeOut(c)
    BY <2>6 DEF TimeOut, TypeOK, Owner
  <2>7. CASE Release(c)
    <3>1. SeenInThePast'
      BY <2>7 DEF Release, TypeOK
    <3>2. LiveHolderOwnsRow'
      <4> SUFFICES ASSUME NEW d \in Callers, LiveHolder(d)'
                   PROVE  lease' = {[owner |-> Owner(d), expires_at |-> granted[d]]}'
        BY DEF LiveHolderOwnsRow
      <4>1. d # c /\ LiveHolder(d)
        BY <2>7 DEF Release, TypeOK
      <4>2. lease = {[owner |-> Owner(d), expires_at |-> granted[d]]}
        BY <4>1
      <4>3. Owner(d) # Owner(c)
        BY <4>1, OwnerInjective
      <4>4. Surviving(c) = lease
        BY <4>2, <4>3 DEF Surviving
      <4> QED
        BY <4>2, <4>4, <2>7 DEF Release, Owner
    <3>3. OneRow' /\ BlockedAtMostTTL'
      BY <2>7 DEF Release, Surviving, TypeOK
    <3> QED
      BY <3>1, <3>2, <3>3
  <2>8. CASE Abandon(c)
    BY <2>8 DEF Abandon, TypeOK, Owner
  <2> QED
    BY <1>3, <2>1, <2>2, <2>3, <2>4, <2>5, <2>6, <2>7, <2>8 DEF Step
<1>4. CASE UNCHANGED leaseVars
  BY <1>4 DEF leaseVars, Owner
<1> QED
  BY <1>2, <1>3, <1>4 DEF Next

\* Every reachable state satisfies the inductive invariant: the table holds at
\* most one row, owned by the live holder if there is one, and no row outlives
\* the time to live.
THEOREM LeaseInvariant == Spec => []IInv
<1>1. Init => IInv
  BY InitIInv
<1>2. IInv /\ [Next]_leaseVars => IInv'
  BY StepIInv
<1> QED
  BY <1>1, <1>2, PTL DEF Spec

\* Two callers never hold unexpired leases of one profile at the same time.
THEOREM LeaseExclusion == Spec => []AtMostOneLiveHolder
<1>1. IInv => AtMostOneLiveHolder
  BY ExclusionFromOwnership DEF IInv
<1> QED
  BY <1>1, LeaseInvariant, PTL

\* While a live holder stays inside the body, no step changes the row of the
\* lease: not a claim based on an old clock reading, and not the release of a
\* holder whose own lease ran out.
THEOREM LiveLeaseStable == Spec => LiveLeaseUndisturbed
<1>1. ASSUME IInv, [Next]_leaseVars, NEW c \in Callers,
             LiveHolder(c), pc'[c] = "held"
      PROVE  lease' = lease
  <2>1. CASE Tick
    BY <2>1 DEF Tick
  <2>2. ASSUME NEW d \in Callers, Step(d)
        PROVE  lease' = lease
    <3>1. CASE Acquire(d)
      BY <1>1, <3>1, ClaimFindsNoLiveHolder DEF Acquire
    <3>2. CASE Release(d)
      <4>1. d # c
        BY <1>1, <3>2 DEF Release, IInv, TypeOK
      <4>2. lease = {[owner |-> Owner(c), expires_at |-> granted[c]]}
        BY <1>1 DEF IInv, LiveHolderOwnsRow
      <4>3. Owner(c) # Owner(d)
        BY <4>1, OwnerInjective
      <4>4. Surviving(d) = lease
        BY <4>2, <4>3 DEF Surviving
      <4> QED
        BY <3>2, <4>4 DEF Release
    <3>3. CASE Call(d) \/ ReadClock(d) \/ Refused(d) \/ StoreFault(d)
               \/ TimeOut(d) \/ Abandon(d)
      BY <3>3 DEF Call, ReadClock, Refused, StoreFault, TimeOut, Abandon
    <3> QED
      BY <2>2, <3>1, <3>2, <3>3 DEF Step
  <2>3. CASE UNCHANGED leaseVars
    BY <2>3 DEF leaseVars
  <2> QED
    BY <1>1, <2>1, <2>2, <2>3 DEF Next
<1>2. IInv /\ [Next]_leaseVars =>
        [\A c \in Callers : LiveHolder(c) /\ pc'[c] = "held" => lease' = lease]_leaseVars
  BY <1>1
<1> QED
  BY <1>2, LeaseInvariant, PTL DEF Spec, LiveLeaseUndisturbed

-----------------------------------------------------------------------------
(* The abstract lock.                                                      *)

\* A row written at a clock reading in the past is at most the caller's grant:
\* the owners of live rows after a claim are that caller or nobody.
LEMMA ClaimGrants ==
  ASSUME IInv, NEW c \in Callers, Acquire(c)
  PROVE  [Lock!Next]_LiveOwners
<1>1. LiveRows = {}
  BY LeaseAssumption DEF IInv, TypeOK, SeenInThePast, Acquire, Claimable, LiveRows, Rows
<1>2. LiveOwners = {}
  BY <1>1 DEF LiveOwners
<1>3. lease' = {[owner |-> Owner(c), expires_at |-> LeaseUntil(seen[c])]}
  BY DEF Acquire
<1>4. CASE now' < LeaseUntil(seen[c])
  <2> DEFINE row == [owner |-> Owner(c), expires_at |-> LeaseUntil(seen[c])]
  <2>3. LiveRows' = {row}
    BY <1>3, <1>4 DEF LiveRows
  <2>4. row.owner = Owner(c)
    OBVIOUS
  <2>1. LiveOwners' = {Owner(c)}
    <3> HIDE DEF row
    <3> QED
      BY <2>3, <2>4 DEF LiveOwners
  <2>2. Owner(c) \in Owners
    BY OwnerType DEF IInv
  <2> QED
    BY <1>2, <2>1, <2>2 DEF Lock!Next, Lock!Grant
<1>5. CASE ~(now' < LeaseUntil(seen[c]))
  <2>1. LiveOwners' = {}
    BY <1>3, <1>5 DEF LiveRows, LiveOwners
  <2> QED
    BY <1>2, <2>1
<1> QED
  BY <1>4, <1>5

\* With at most one row, losing rows or time passing either leaves the owners of
\* live rows alone or ends the only grant there is.
LEMMA LossEnds ==
  ASSUME IInv, lease' \subseteq lease, now' \in Nat, now <= now'
  PROVE  [Lock!Next]_LiveOwners
<1>1. LiveRows' \subseteq LiveRows
  BY DEF IInv, TypeOK, Rows, LiveRows
<1>2. \A r, s \in LiveRows : r = s
  BY DEF IInv, OneRow, LiveRows
<1>3. CASE LiveRows' = LiveRows
  BY <1>3 DEF LiveOwners
<1>4. CASE LiveRows' # LiveRows
  <2>1. LiveRows' = {} /\ LiveRows # {}
    BY <1>1, <1>2, <1>4
  <2> QED
    BY <2>1 DEF Lock!Next, Lock!End, LiveOwners
<1> QED
  BY <1>3, <1>4

\* refresh_lease implements the abstract lock: every step of every caller, and
\* of time, is a grant to nobody's competitor, an end, or no change at all.
THEOREM LeaseImplementsLock == Spec => ImplementsLock
<1>1. Init => Lock!Init
  BY DEF Init, Lock!Init, LiveRows, LiveOwners
<1>2. ASSUME IInv, [Next]_leaseVars
      PROVE  [Lock!Next]_LiveOwners
  <2>1. CASE Tick
    <3>1. lease' \subseteq lease /\ now' \in Nat /\ now <= now'
      BY <1>2, <2>1 DEF Tick, IInv, TypeOK
    <3> QED
      BY <1>2, <3>1, LossEnds
  <2>2. ASSUME NEW c \in Callers, Step(c)
        PROVE  [Lock!Next]_LiveOwners
    <3>1. CASE Acquire(c)
      BY <1>2, <3>1, ClaimGrants
    <3>2. CASE Release(c)
      <4>1. lease' \subseteq lease /\ now' \in Nat /\ now <= now'
        BY <1>2, <3>2 DEF Release, Surviving, IInv, TypeOK
      <4> QED
        BY <1>2, <4>1, LossEnds
    <3>3. CASE Call(c) \/ ReadClock(c) \/ Refused(c) \/ StoreFault(c)
               \/ TimeOut(c) \/ Abandon(c)
      BY <3>3 DEF Call, ReadClock, Refused, StoreFault, TimeOut, Abandon, LiveRows, LiveOwners
    <3> QED
      BY <2>2, <3>1, <3>2, <3>3 DEF Step
  <2>3. CASE UNCHANGED leaseVars
    BY <2>3 DEF leaseVars, LiveRows, LiveOwners
  <2> QED
    BY <1>2, <2>1, <2>2, <2>3 DEF Next
<1> QED
  BY <1>1, <1>2, LeaseInvariant, PTL DEF Spec, ImplementsLock, Lock!Spec
=============================================================================
