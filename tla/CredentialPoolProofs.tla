------------------------- MODULE CredentialPoolProofs -------------------------
(***************************************************************************)
(* CredentialPool for any number of callers, pools and profiles: a claim   *)
(* is recorded for the row the strategy says, and round-robin pools serve  *)
(* their members in rounds.                                                *)
(***************************************************************************)
EXTENDS CredentialPool, FiniteSetTheorems, WellFoundedInduction, TLAPS

-----------------------------------------------------------------------------
(* Rows in order.                                                          *)

\* Every row has a place of its own in the order, and there is a row at every place.
LEMMA Places ==
  ASSUME TypeOK, Ordered, NEW rows \in SUBSET Profiles
  PROVE  /\ IsFiniteSet(rows) /\ Cardinality(rows) \in Nat
         /\ \A p \in rows : Ahead(rows, p) \in 0..(Cardinality(rows) - 1)
         /\ \A p, q \in rows : Ahead(rows, p) = Ahead(rows, q) => p = q
         /\ \A n \in 0..(Cardinality(rows) - 1) :
              Nth(rows, n) \in rows /\ Ahead(rows, Nth(rows, n)) = n
<1> DEFINE lower(p) == {q \in rows : rank[q] < rank[p]}
           size == Cardinality(rows)
           place == [p \in rows |-> Ahead(rows, p)]
<1>1. IsFiniteSet(rows) /\ size \in Nat
  BY PoolAssumption, FS_Subset, FS_CardinalityType
<1>2. \A p \in rows : rank[p] \in Nat
  BY DEF TypeOK
<1>3. \A p \in rows : IsFiniteSet(lower(p)) /\ Cardinality(lower(p)) \in Nat
  BY <1>1, FS_Subset, FS_CardinalityType
<1>4. \A p \in rows : Ahead(rows, p) = Cardinality(lower(p))
  BY DEF Ahead
<1>5. ASSUME NEW p \in rows
      PROVE  Cardinality(lower(p)) \in 0..(size - 1)
  <2>1. lower(p) # rows
    BY <1>2
  <2>2. Cardinality(lower(p)) <= size /\ Cardinality(lower(p)) # size
    BY <1>1, <2>1, FS_Subset
  <2>3. Cardinality(lower(p)) \in Nat
    BY <1>3
  <2> HIDE DEF lower, size
  <2> QED
    BY <1>1, <2>2, <2>3
<1>6. ASSUME NEW p \in rows, NEW q \in rows, rank[p] < rank[q]
      PROVE  Cardinality(lower(p)) # Cardinality(lower(q))
  <2>1. lower(p) \in SUBSET lower(q) /\ p \in lower(q) /\ p \notin lower(p)
    BY <1>2, <1>6
  <2> QED
    BY <1>3, <2>1, FS_Subset
<1>7. \A p, q \in rows : Ahead(rows, p) = Ahead(rows, q) => p = q
  <2> SUFFICES ASSUME NEW p \in rows, NEW q \in rows, Ahead(rows, p) = Ahead(rows, q), p # q
               PROVE  FALSE
    OBVIOUS
  <2>1. Cardinality(lower(p)) = Cardinality(lower(q))
    BY <1>4
  <2>2. rank[p] < rank[q] \/ rank[q] < rank[p]
    BY <1>2 DEF Ordered
  <2> HIDE DEF lower
  <2> QED
    BY <1>6, <2>1, <2>2
<1>8. \A n \in 0..(size - 1) : \E p \in rows : Ahead(rows, p) = n
  <2>1. place \in Injection(rows, 0..(size - 1))
    BY <1>4, <1>5, <1>7 DEF Injection, IsInjective
  <2>2. IsFiniteSet(0..(size - 1)) /\ Cardinality(0..(size - 1)) = size
    BY <1>1, FS_Interval
  <2>3. place \in Surjection(rows, 0..(size - 1))
    BY <2>1, <2>2, FS_Injection
  <2> QED
    BY <2>3 DEF Surjection
<1> QED
  BY <1>1, <1>4, <1>5, <1>7, <1>8 DEF Nth

\* Where something is counted, somebody has the least.
LEMMA Least ==
  ASSUME NEW S, S # {}, NEW f, \A x \in S : f[x] \in Nat
  PROVE  \E x \in S : \A y \in S : f[x] <= f[y]
<1> DEFINE T == {f[x] : x \in S}
<1>1. T \subseteq Nat /\ T # {}
  OBVIOUS
<1>2. PICK m \in T : \A k \in T : ~(<<k, m>> \in OpToRel(<, Nat))
  BY <1>1, WFMin, NatLessThanWellFounded
<1>3. \A k \in T : ~(k < m)
  BY <1>1, <1>2 DEF OpToRel
<1>4. PICK x \in S : f[x] = m
  OBVIOUS
<1>5. \A y \in S : ~(f[y] < f[x]) /\ f[x] \in Nat /\ f[y] \in Nat
  BY <1>3, <1>4
<1> QED
  BY <1>5

\* ORDER BY use_count, last_used_at, priority, id has a first row.
LEMMA LeastUsedFirst ==
  ASSUME TypeOK, Ordered, NEW rows \in SUBSET Profiles, rows # {}
  PROVE  /\ LeastUsed(rows) \in rows
         /\ \A q \in rows \ {LeastUsed(rows)} : LessUsed(LeastUsed(rows), q)
<1>1. \A p \in rows : uses[p] \in Nat /\ lastUse[p] \in Nat /\ rank[p] \in Nat
  BY DEF TypeOK
<1>2. PICK a \in rows : \A q \in rows : uses[a] <= uses[q]
  BY <1>1, Least
<1> DEFINE S == {p \in rows : uses[p] = uses[a]}
<1>3. PICK b \in S : \A q \in S : lastUse[b] <= lastUse[q]
  <2>1. S # {} /\ \A p \in S : lastUse[p] \in Nat
    BY <1>1
  <2> QED
    BY <2>1, Least
<1> DEFINE T == {p \in S : lastUse[p] = lastUse[b]}
<1>4. PICK c \in T : \A q \in T : rank[c] <= rank[q]
  <2>1. T # {} /\ \A p \in T : rank[p] \in Nat
    BY <1>1, <1>3
  <2> QED
    BY <2>1, Least
<1>5. \A q \in rows \ {c} : LessUsed(c, q)
  BY <1>1, <1>2, <1>3, <1>4 DEF LessUsed, Ordered
<1> QED
  BY <1>4, <1>5 DEF LeastUsed

-----------------------------------------------------------------------------
(* Going round.                                                            *)

LEMMA Division ==
  ASSUME NEW n \in Nat \ {0}, NEW c \in Nat
  PROVE  c % n \in 0..(n - 1) /\ \E q \in Nat : c = n * q + (c % n)
<1>1. c % n \in 0..(n - 1) /\ c \div n \in Nat
  OBVIOUS
<1>2. c = n * (c \div n) + (c % n)
  OBVIOUS
<1> QED
  BY <1>1, <1>2

LEMMA Multiple == ASSUME NEW n \in Nat \ {0}, NEW t \in Int, t >= 1 PROVE n * t >= n
OBVIOUS

\* A cursor that goes on by one goes on by one place, or from the last to the first.
LEMMA NextPlace ==
  ASSUME NEW n \in Nat \ {0}, NEW c \in Nat
  PROVE  (c + 1) % n = IF c % n = n - 1 THEN 0 ELSE (c % n) + 1
<1> DEFINE a == c % n
           b == (c + 1) % n
<1>1. PICK q \in Nat : c = n * q + a
  BY Division
<1>2. PICK r \in Nat : c + 1 = n * r + b
  BY Division, c + 1 \in Nat
<1>3. a \in 0..(n - 1) /\ b \in 0..(n - 1)
  BY Division, c + 1 \in Nat
<1> HIDE DEF a, b
<1>4. n * (r - q) = a + 1 - b
  BY <1>1, <1>2, <1>3
<1>5. r - q < 2
  <2> SUFFICES ASSUME r - q >= 2 PROVE FALSE
    OBVIOUS
  <2>1. n * (r - q - 1) >= n
    BY Multiple
  <2> QED
    BY <1>3, <1>4, <2>1
<1>6. r - q >= 0
  <2> SUFFICES ASSUME q - r >= 1 PROVE FALSE
    OBVIOUS
  <2>1. n * (q - r) >= n
    BY Multiple
  <2> QED
    BY <1>3, <1>4, <2>1
<1>7. r - q = 0 \/ r - q = 1
  BY <1>5, <1>6
<1>8. b = IF a = n - 1 THEN 0 ELSE a + 1
  BY <1>3, <1>4, <1>7
<1> QED
  BY <1>8 DEF a, b

\* The strategy's choice is a member of the pool: nobody in it was used less, or it is at
\* the cursor's place.
LEMMA PickRight ==
  ASSUME TypeOK, Ordered, NEW k \in Pools
  PROVE  /\ Cardinality(Members[k]) \in Nat \ {0}
         /\ Pick(k) \in Members[k]
         /\ Strategy[k] = "least_used" => \A q \in Members[k] : uses[Pick(k)] <= uses[q]
         /\ Strategy[k] = "round_robin" =>
              Ahead(Members[k], Pick(k)) = cursor[k] % Cardinality(Members[k])
<1> DEFINE rows == Members[k]
           n == Cardinality(rows)
<1>1. rows \in SUBSET Profiles /\ rows # {} /\ Strategy[k] \in Strategies
  BY PoolAssumption
<1>2. n \in Nat \ {0} /\ \A i \in 0..(n - 1) : Nth(rows, i) \in rows /\ Ahead(rows, Nth(rows, i)) = i
  BY <1>1, Places, FS_EmptySet
<1>3. cursor[k] \in Nat
  BY DEF TypeOK
<1>4. cursor[k] % n \in 0..(n - 1) /\ 0 \in 0..(n - 1)
  <2>1. n \in Nat \ {0}
    BY <1>2
  <2> HIDE DEF n
  <2>2. cursor[k] % n \in 0..(n - 1)
    BY <1>3, <2>1, Division
  <2>3. 0 \in 0..(n - 1)
    BY <2>1
  <2> QED
    BY <2>2, <2>3
<1>5. CASE Strategy[k] = "fill_first"
  BY <1>2, <1>4, <1>5 DEF Pick
<1>6. CASE Strategy[k] = "round_robin"
  BY <1>2, <1>4, <1>6 DEF Pick
<1>7. CASE Strategy[k] = "least_used"
  <2>1. Pick(k) = LeastUsed(rows)
    BY <1>7 DEF Pick
  <2>2. \A p \in rows : uses[p] \in Nat
    BY <1>1 DEF TypeOK
  <2>3. /\ LeastUsed(rows) \in rows
        /\ \A q \in rows \ {LeastUsed(rows)} : LessUsed(LeastUsed(rows), q)
    BY <1>1, LeastUsedFirst
  <2>4. \A p \in rows, q \in rows : LessUsed(p, q) => uses[p] <= uses[q]
    BY <2>2 DEF LessUsed
  <2> HIDE DEF rows
  <2>5. \A q \in rows : uses[LeastUsed(rows)] <= uses[q]
    BY <2>2, <2>3, <2>4
  <2> QED
    BY <1>2, <1>7, <2>1, <2>3, <2>5 DEF rows
<1> QED
  BY <1>1, <1>5, <1>6, <1>7, <1>2 DEF Strategies

\* A pool's rows and the cursor's place among them.
LEMMA PlacesOf ==
  ASSUME TypeOK, Ordered, NEW k \in Pools
  PROVE  /\ Cardinality(Members[k]) \in Nat \ {0}
         /\ cursor[k] \in Nat
         /\ cursor[k] % Cardinality(Members[k]) \in 0..(Cardinality(Members[k]) - 1)
         /\ \A p \in Members[k] : Ahead(Members[k], p) \in 0..(Cardinality(Members[k]) - 1)
         /\ \A p, q \in Members[k] : Ahead(Members[k], p) = Ahead(Members[k], q) => p = q
<1>1. Cardinality(Members[k]) \in Nat \ {0} /\ cursor[k] \in Nat
  BY PickRight DEF TypeOK
<1>2. cursor[k] % Cardinality(Members[k]) \in 0..(Cardinality(Members[k]) - 1)
  BY <1>1, Division
<1> QED
  BY <1>1, <1>2, Places, PoolAssumption

LEMMA NothingPassed ==
  ASSUME TypeOK, Ordered, NEW k \in Pools, NEW p \in Members[k]
  PROVE  ~Passed(k, p, 0)
<1> DEFINE n == Cardinality(Members[k])
           next == cursor[k] % n
           i == Ahead(Members[k], p)
<1>1. n \in Nat \ {0} /\ next \in 0..(n - 1) /\ i \in 0..(n - 1)
  BY PlacesOf
<1>2. Passed(k, p, 0) <=> IF i < next THEN next - i <= 0 ELSE next + n - i <= 0
  BY DEF Passed
<1> HIDE DEF n, next, i
<1> QED
  BY <1>1, <1>2

LEMMA NothingPassedNext ==
  ASSUME TypeOK', Ordered', NEW k \in Pools, NEW p \in Members[k]
  PROVE  ~Passed(k, p, 0)'
BY NothingPassed, PTL

\* The row at the cursor's place has not been passed, and is when the cursor has gone on.
LEMMA PassedNext ==
  ASSUME TypeOK, Ordered, NEW k \in Pools, rank' = rank, cursor'[k] = cursor[k] + 1,
         NEW d \in 0..(Cardinality(Members[k]) - 1), NEW p \in Members[k]
  PROVE  /\ Ahead(Members[k], p) = cursor[k] % Cardinality(Members[k]) => ~Passed(k, p, d)
         /\ Passed(k, p, d + 1)' <=>
              Passed(k, p, d) \/ Ahead(Members[k], p) = cursor[k] % Cardinality(Members[k])
         /\ d + 1 = Cardinality(Members[k]) => Passed(k, p, d + 1)'
<1> DEFINE n == Cardinality(Members[k])
           next == cursor[k] % n
           later == (cursor[k] + 1) % n
           i == Ahead(Members[k], p)
<1>1. n \in Nat \ {0} /\ next \in 0..(n - 1) /\ i \in 0..(n - 1) /\ d \in 0..(n - 1)
  BY PlacesOf
<1>2. later = IF next = n - 1 THEN 0 ELSE next + 1
  BY PlacesOf, NextPlace
<1>3. Passed(k, p, d) <=> IF i < next THEN next - i <= d ELSE next + n - i <= d
  BY DEF Passed
<1>4. Passed(k, p, d + 1)' <=> IF i < later THEN later - i <= d + 1 ELSE later + n - i <= d + 1
  BY DEF Passed, Ahead
<1> HIDE DEF n, next, later, i
<1>5. /\ i = next => ~Passed(k, p, d)
      /\ Passed(k, p, d + 1)' <=> Passed(k, p, d) \/ i = next
      /\ d + 1 = n => Passed(k, p, d + 1)'
  BY <1>1, <1>2, <1>3, <1>4
<1> QED
  BY <1>5 DEF n, next, i

-----------------------------------------------------------------------------
(* The inductive invariant.                                                *)

LEMMA InitInv == Init => IInv
<1> SUFFICES ASSUME Init PROVE IInv
  OBVIOUS
<1>1. TypeOK /\ Ordered
  BY PoolAssumption DEF Init, TypeOK, Ordered
<1>2. ClaimAlone
  BY DEF Init, ClaimAlone
<1>3. InRounds
  <2> SUFFICES ASSUME NEW k \in Pools
               PROVE  \E m \in 0..claims, d \in 0..(Cardinality(Members[k]) - 1) :
                        \A p \in Members[k] : served[k][p] = m + (IF Passed(k, p, d) THEN 1 ELSE 0)
    BY DEF InRounds
  <2>1. 0 \in 0..claims /\ 0 \in 0..(Cardinality(Members[k]) - 1)
    BY <1>1, PickRight DEF Init
  <2>2. \A p \in Members[k] : ~Passed(k, p, 0)
    BY <1>1, NothingPassed
  <2>3. \A p \in Members[k] : served[k][p] = 0
    BY PoolAssumption DEF Init
  <2> QED
    BY <2>1, <2>2, <2>3
<1> QED
  BY <1>1, <1>2, <1>3 DEF IInv

\* Only who holds the write lock is in a claim.
LEMMA OneInClaim ==
  ASSUME ClaimAlone, NEW c \in Callers, at[c] # "idle" \/ writer = {}
  PROVE  \A b \in Callers \ {c} : at[b] = "idle" /\ pool[b] = {} /\ chosen[b] = {}
BY DEF ClaimAlone

\* Leaving a claim.
LEMMA LeaveFine ==
  ASSUME TypeOK, ClaimAlone, NEW c \in Callers, at[c] # "idle", Leave(c)
  PROVE  /\ writer' \in SUBSET Callers
         /\ at' \in [Callers -> {"idle", "choose", "commit"}]
         /\ pool' \in [Callers -> SUBSET Pools]
         /\ chosen' \in [Callers -> SUBSET Profiles]
         /\ ClaimAlone'
<1>1. /\ writer' \in SUBSET Callers
      /\ at' \in [Callers -> {"idle", "choose", "commit"}]
      /\ pool' \in [Callers -> SUBSET Pools]
      /\ chosen' \in [Callers -> SUBSET Profiles]
  BY DEF TypeOK, Leave
<1>2. \A b \in Callers : at'[b] = "idle" /\ pool'[b] = {} /\ chosen'[b] = {}
  BY OneInClaim DEF TypeOK, Leave
<1> QED
  BY <1>1, <1>2 DEF ClaimAlone

\* Rounds are not disturbed by what touches neither order nor cursor nor what was served.
LEMMA RoundsStay ==
  ASSUME InRounds, UNCHANGED <<rank, cursor, claims, served>>
  PROVE  InRounds'
BY DEF InRounds, Passed, Ahead

\* A claim that is recorded goes on with the round, or ends it.
LEMMA CommitFine == ASSUME IInv, NEW c \in Callers, Commit(c) PROVE IInv'
<1>1. /\ TypeOK /\ ClaimAlone /\ Ordered /\ InRounds /\ at[c] = "commit"
      /\ Leave(c) /\ claims' = claims + 1 /\ claims \in Nat /\ UNCHANGED <<stored, enabled, rank>>
  BY DEF IInv, Commit, TypeOK
<1>2. PICK k \in Pools : pool[c] = {k} /\ chosen[c] = {Pick(k)} /\ Members[k] \subseteq enabled
  BY <1>1 DEF ClaimAlone
<1> DEFINE p == Pick(k)
<1>3. /\ uses' = [uses EXCEPT ![p] = @ + 1]
      /\ lastUse' = [lastUse EXCEPT ![p] = claims + 1]
      /\ cursor' = IF Strategy[k] = "round_robin" THEN [cursor EXCEPT ![k] = @ + 1] ELSE cursor
      /\ served' = [served EXCEPT ![k][p] = @ + 1]
  BY <1>2 DEF Commit
<1>4. p \in Members[k] /\ p \in Profiles /\ p \in stored
  BY <1>1, <1>2, PickRight, PoolAssumption DEF TypeOK
<1> HIDE DEF p
<1>5. TypeOK'
  <2>1. uses' \in [Profiles -> Nat] /\ \A q \in Profiles \ stored : uses'[q] = 0
    BY <1>1, <1>3, <1>4 DEF TypeOK
  <2>2. lastUse' \in [Profiles -> Nat]
    BY <1>1, <1>3, <1>4 DEF TypeOK
  <2>3. cursor' \in [Pools -> Nat]
    BY <1>1, <1>3 DEF TypeOK
  <2>4. served' \in [Pools -> [Profiles -> Nat]]
    BY <1>1, <1>3, <1>4 DEF TypeOK
  <2> QED
    BY <1>1, <2>1, <2>2, <2>3, <2>4, LeaveFine DEF TypeOK
<1>6. ClaimAlone' /\ Ordered'
  BY <1>1, LeaveFine DEF Ordered
<1>7. ASSUME NEW l \in Pools, Strategy[l] = "round_robin"
      PROVE  \E m \in 0..claims', d \in 0..(Cardinality(Members[l]) - 1) :
               \A q \in Members[l] : served'[l][q] = m + (IF Passed(l, q, d)' THEN 1 ELSE 0)
  <2> DEFINE n == Cardinality(Members[l])
  <2>1. PICK m \in 0..claims, d \in 0..(n - 1) :
          \A q \in Members[l] : served[l][q] = m + (IF Passed(l, q, d) THEN 1 ELSE 0)
    BY <1>1, <1>7 DEF InRounds
  <2>2. n \in Nat \ {0} /\ Members[l] \subseteq Profiles
    BY <1>1, PlacesOf, PoolAssumption
  <2>3. CASE l # k
    <3>1. served'[l] = served[l] /\ cursor'[l] = cursor[l]
      BY <1>1, <1>3, <2>3 DEF TypeOK
    <3>2. \A q : Passed(l, q, d)' <=> Passed(l, q, d)
      BY <1>1, <3>1 DEF Passed, Ahead
    <3> HIDE DEF n
    <3>3. m \in 0..claims'
      BY <1>1, <2>1
    <3> QED
      BY <2>1, <3>1, <3>2, <3>3 DEF n
  <2>4. CASE l = k
    <3>1. cursor'[l] = cursor[l] + 1
      BY <1>1, <1>3, <1>7, <2>4 DEF TypeOK
    <3>2. \A q \in Members[l] :
            /\ (Ahead(Members[l], q) = cursor[l] % n) <=> q = p
            /\ served'[l][q] = IF q = p THEN served[l][q] + 1 ELSE served[l][q]
      <4>1. Ahead(Members[l], p) = cursor[l] % n
        BY <1>1, <1>7, <2>4, PickRight DEF p
      <4>2. \A q \in Members[l] : Ahead(Members[l], q) = Ahead(Members[l], p) => q = p
        BY <1>1, <1>4, <2>4, PlacesOf
      <4>3. \A q \in Members[l] : served'[l][q] = IF q = p THEN served[l][q] + 1 ELSE served[l][q]
        BY <1>1, <1>3, <1>4, <2>2, <2>4 DEF TypeOK
      <4> QED
        BY <4>1, <4>2, <4>3
    <3>3. \A q \in Members[l] :
            /\ q = p => ~Passed(l, q, d)
            /\ Passed(l, q, d + 1)' <=> Passed(l, q, d) \/ q = p
            /\ d + 1 = n => Passed(l, q, d + 1)'
      BY <1>1, <3>1, <3>2, PassedNext
    <3>4. \A q \in Members[l] : served'[l][q] = m + (IF Passed(l, q, d + 1)' THEN 1 ELSE 0)
      <4> SUFFICES ASSUME NEW q \in Members[l]
                   PROVE  served'[l][q] = m + (IF Passed(l, q, d + 1)' THEN 1 ELSE 0)
        OBVIOUS
      <4>1. m \in Nat
        BY <1>1, <2>1
      <4>2. CASE q = p
        BY <2>1, <3>2, <3>3, <4>1, <4>2
      <4>3. CASE q # p
        BY <2>1, <3>2, <3>3, <4>1, <4>3
      <4> QED
        BY <4>2, <4>3
    <3>5. CASE d + 1 = n
      <4>1. TypeOK' /\ Ordered'
        BY <1>5, <1>6
      <4>2. \A q \in Members[l] : ~Passed(l, q, 0)'
        BY <4>1, NothingPassedNext
      <4>3. m + 1 \in 0..claims' /\ 0 \in 0..(n - 1) /\ m \in Nat
        <5> HIDE DEF n
        <5> QED
          BY <1>1, <2>1, <2>2
      <4>4. \A q \in Members[l] : served'[l][q] = m + 1
        BY <3>3, <3>4, <3>5
      <4> QED
        BY <4>2, <4>3, <4>4
    <3>6. CASE d + 1 # n
      <4>1. m \in 0..claims' /\ d + 1 \in 0..(n - 1)
        <5> HIDE DEF n
        <5> QED
          BY <1>1, <2>1, <2>2, <3>6
      <4> QED
        BY <3>4, <4>1
    <3> QED
      BY <3>5, <3>6
  <2> QED
    BY <2>3, <2>4
<1>8. InRounds'
  BY <1>7 DEF InRounds
<1> QED
  BY <1>5, <1>6, <1>8 DEF IInv

LEMMA NextInv == IInv /\ [Next]_vars => IInv'
<1> SUFFICES ASSUME IInv, [Next]_vars PROVE IInv'
  OBVIOUS
<1>0. TypeOK /\ ClaimAlone /\ Ordered /\ InRounds
  BY DEF IInv
<1>1. ASSUME NEW c \in Callers, NEW k \in Pools, BeginImmediate(c, k)
      PROVE  IInv'
  <2>1. TypeOK' /\ Ordered'
    BY <1>0, <1>1 DEF TypeOK, Ordered, BeginImmediate, database
  <2>2. InRounds'
    BY <1>0, <1>1, RoundsStay DEF BeginImmediate, database
  <2>3. \A b \in Callers \ {c} : at'[b] = "idle" /\ pool'[b] = {} /\ chosen'[b] = {}
    BY <1>0, <1>1, OneInClaim DEF BeginImmediate, TypeOK
  <2>4. at'[c] = "choose" /\ pool'[c] = {k} /\ writer' = {c}
    BY <1>0, <1>1 DEF BeginImmediate, TypeOK
  <2>5. ClaimAlone'
    BY <2>3, <2>4 DEF ClaimAlone
  <2> QED
    BY <2>1, <2>2, <2>5 DEF IInv
<1>2. ASSUME NEW c \in Callers, Choose(c)
      PROVE  IInv'
  <2>0. writer = {c} /\ at[c] = "choose"
    BY <1>0, <1>2 DEF Choose, ClaimAlone
  <2>1. PICK k \in Pools : pool[c] = {k} /\ Members[k] \subseteq enabled /\ chosen' = [chosen EXCEPT ![c] = {Pick(k)}]
    BY <1>0, <1>2 DEF Choose, ClaimAlone
  <2>2. Pick(k) \in Profiles
    BY <1>0, PickRight, PoolAssumption
  <2>3. TypeOK' /\ Ordered'
    BY <1>0, <1>2, <2>1, <2>2 DEF TypeOK, Ordered, Choose, database
  <2>4. InRounds'
    BY <1>0, <1>2, RoundsStay DEF Choose, database
  <2>5. \A b \in Callers \ {c} : at'[b] = "idle" /\ pool'[b] = {} /\ chosen'[b] = {}
    BY <1>0, <1>2, <2>0, <2>1, OneInClaim DEF Choose, TypeOK
  <2>6. Pick(k)' = Pick(k)
    BY <1>2 DEF Choose, database, Pick, Nth, Ahead, LeastUsed, LessUsed
  <2>7. at'[c] = "commit" /\ pool'[c] = {k} /\ chosen'[c] = {Pick(k)} /\ writer' = {c} /\ enabled' = enabled
    BY <1>0, <1>2, <2>0, <2>1 DEF Choose, TypeOK, database
  <2>8. ClaimAlone'
    BY <2>1, <2>5, <2>6, <2>7 DEF ClaimAlone
  <2> QED
    BY <2>3, <2>4, <2>8 DEF IInv
<1>3. ASSUME NEW c \in Callers, Rollback(c)
      PROVE  IInv'
  <2>1. ClaimAlone' /\ TypeOK'
    BY <1>0, <1>3, LeaveFine DEF Rollback, TypeOK, database
  <2>2. Ordered' /\ InRounds'
    BY <1>0, <1>3, RoundsStay DEF Rollback, database, Ordered
  <2> QED
    BY <2>1, <2>2 DEF IInv
<1>4. ASSUME NEW p \in Profiles, SetEnabled(p) \/ Delete(p) \/ Store(p)
      PROVE  IInv'
  <2>1. TypeOK' /\ Ordered'
    BY <1>0, <1>4 DEF TypeOK, Ordered, SetEnabled, Delete, Store
  <2>2. InRounds'
    BY <1>0, <1>4, RoundsStay DEF SetEnabled, Delete, Store
  <2>3. \A c \in Callers : at[c] = "idle" /\ pool[c] = {} /\ chosen[c] = {}
    BY <1>0, <1>4 DEF ClaimAlone, SetEnabled, Delete, Store
  <2>4. ClaimAlone'
    BY <1>4, <2>3 DEF ClaimAlone, SetEnabled, Delete, Store
  <2> QED
    BY <2>1, <2>2, <2>4 DEF IInv
<1>5. ASSUME NEW p \in Profiles, NEW q \in Profiles, Reorder(p, q)
      PROVE  IInv'
  <2>1. rank' = [rank EXCEPT ![p] = rank[q], ![q] = rank[p]] /\ p # q
    BY <1>5 DEF Reorder
  <2>2. TypeOK' /\ Ordered'
    BY <1>0, <1>5, <2>1 DEF TypeOK, Ordered, Reorder
  <2>3. \A c \in Callers : at[c] = "idle" /\ pool[c] = {} /\ chosen[c] = {}
    BY <1>0, <1>5 DEF ClaimAlone, Reorder
  <2>4. ClaimAlone'
    BY <1>5, <2>3 DEF ClaimAlone, Reorder
  <2>5. InRounds'
    <3> SUFFICES ASSUME NEW k \in Pools
                 PROVE  \E m \in 0..claims', d \in 0..(Cardinality(Members[k]) - 1) :
                          \A r \in Members[k] : served'[k][r] = m + (IF Passed(k, r, d)' THEN 1 ELSE 0)
      BY DEF InRounds
    <3>1. 0 \in 0..claims' /\ 0 \in 0..(Cardinality(Members[k]) - 1)
      BY <1>0, <1>5, PlacesOf DEF Reorder, TypeOK
    <3>2. \A r \in Members[k] : ~Passed(k, r, 0)'
      BY <2>2, NothingPassedNext
    <3>3. \A r \in Members[k] : served'[k][r] = 0
      BY <1>5, PoolAssumption DEF Reorder
    <3> QED
      BY <3>1, <3>2, <3>3
  <2> QED
    BY <2>2, <2>4, <2>5 DEF IInv
<1>6. CASE UNCHANGED vars
  <2>1. TypeOK' /\ Ordered'
    BY <1>0, <1>6 DEF vars, TypeOK, Ordered
  <2>2. InRounds'
    BY <1>0, <1>6, RoundsStay DEF vars
  <2>3. \A k : Pick(k)' = Pick(k)
    BY <1>6 DEF vars, Pick, Nth, Ahead, LeastUsed, LessUsed
  <2>4. ClaimAlone'
    BY <1>0, <1>6, <2>3 DEF vars, ClaimAlone
  <2> QED
    BY <2>1, <2>2, <2>4 DEF IInv
<1> QED
  BY <1>1, <1>2, <1>3, <1>4, <1>5, <1>6, CommitFine DEF Next, Claim

\* The inductive invariant, for any number of callers, pools and profiles.
THEOREM PoolInvariant == Spec => []IInv
BY InitInv, NextInv, PTL DEF Spec

\* A round-robin pool (profiles.py _choose_pool_row) serves its members evenly, up to one,
\* since the last change of order, whatever claims fail or overlap and whatever members are
\* disabled, deleted and stored again.
THEOREM PoolsServeEvenly == Spec => []RoundRobinEven
<1>1. IInv => RoundRobinEven
  <2> SUFFICES ASSUME IInv, NEW k \in Pools, Strategy[k] = "round_robin",
                      NEW p \in Members[k], NEW q \in Members[k]
               PROVE  served[k][p] <= served[k][q] + 1
    BY DEF RoundRobinEven
  <2>1. PICK m \in 0..claims : \A r \in Members[k] : served[k][r] \in {m, m + 1}
    BY DEF IInv, InRounds
  <2>2. m \in Nat
    BY <2>1 DEF IInv, TypeOK
  <2> QED
    BY <2>1, <2>2
<1> QED
  BY <1>1, PoolInvariant, PTL

\* A claim is recorded for the member that nobody was used less than when it is recorded
\* (_choose_pool_row), since the write lock is held from the choice to the commit.
THEOREM LeastUsedServed == Spec => LeastUsedAtCommit
<1>1. ASSUME IInv
      PROVE  \A c \in Callers : Recorded(c) =>
               \A k \in pool[c], p \in chosen[c] : Strategy[k] = "least_used" =>
                 \A q \in Members[k] : uses[p] <= uses[q]
  <2> SUFFICES ASSUME NEW c \in Callers, at[c] = "commit"
               PROVE  \A k \in pool[c], p \in chosen[c] : Strategy[k] = "least_used" =>
                        \A q \in Members[k] : uses[p] <= uses[q]
    BY DEF Recorded
  <2>1. PICK k \in Pools : pool[c] = {k} /\ chosen[c] = {Pick(k)}
    BY <1>1 DEF IInv, ClaimAlone
  <2>2. Strategy[k] = "least_used" => \A q \in Members[k] : uses[Pick(k)] <= uses[q]
    BY <1>1, PickRight DEF IInv
  <2> QED
    BY <2>1, <2>2
<1> QED
  BY <1>1, PoolInvariant, PTL DEF LeastUsedAtCommit

\* A claim answers only when every member of its pool is enabled (claim_from_pool).
THEOREM WholePoolAnswers == Spec => AnswerFromWholePool
<1>1. ASSUME IInv
      PROVE  \A c \in Callers : Recorded(c) => \A k \in pool[c] : Members[k] \subseteq enabled
  BY <1>1 DEF IInv, ClaimAlone, Recorded
<1> QED
  BY <1>1, PoolInvariant, PTL DEF AnswerFromWholePool
=============================================================================
