--------------------------- MODULE CredentialPool ---------------------------
(***************************************************************************)
(* ProfileRegistry.claim_from_pool (profiles.py): several callers draw     *)
(* credential profiles from pools.  A claim is one BEGIN IMMEDIATE         *)
(* transaction: it holds SQLite's write lock from its reads to its commit, *)
(* and what it wrote is seen by others only if it commits.                 *)
(*                                                                         *)
(* A pool is always claimed with the same members and strategy, as a       *)
(* configuration names them; profiles are disabled, enabled, deleted,      *)
(* stored again and reordered by others in between.                        *)
(***************************************************************************)
EXTENDS Integers, FiniteSets

CONSTANTS
  Callers,
  Profiles,
  Pools,
  Members,     \* the profile_ids each pool is claimed with
  Strategy,    \* and its strategy
  FirstRank,   \* the initial (priority, id) order of the profiles, from 0
  MaxClaims    \* bound: claims committed

Strategies == {"fill_first", "least_used", "round_robin"}

ASSUME PoolAssumption ==
  /\ IsFiniteSet(Profiles)
  /\ Members \in [Pools -> SUBSET Profiles]
  /\ \A k \in Pools : Members[k] # {}
  /\ Strategy \in [Pools -> Strategies]
  /\ FirstRank \in [Profiles -> Nat]
  /\ \A p, q \in Profiles : FirstRank[p] = FirstRank[q] => p = q
  /\ MaxClaims \in Nat

VARIABLES
  stored,    \* profiles that have a row
  enabled,   \* those whose row is enabled
  rank,      \* ORDER BY priority, id
  uses,      \* profile_usage.use_count, 0 without a row
  lastUse,   \* profile_usage.last_used_at as the number of the claim, 0 if none
  cursor,    \* credential_pool_state.cursor
  writer,    \* the caller that holds the write lock, if any
  at,        \* where each caller stands in claim_from_pool
  pool,      \* the pool it claims from, if any
  chosen,    \* the row it chose, if any
  claims,    \* claims committed: the clock last_used_at is read from
  served     \* history: claims of each pool answered with each profile since
             \* the profiles were last reordered

vars == <<stored, enabled, rank, uses, lastUse, cursor, writer, at, pool, chosen,
          claims, served>>
database == <<stored, enabled, rank, uses, lastUse, cursor>>

TypeOK ==
  /\ stored \in SUBSET Profiles
  /\ enabled \in SUBSET stored
  /\ rank \in [Profiles -> Nat]
  /\ uses \in [Profiles -> Nat]
  /\ lastUse \in [Profiles -> Nat]
  /\ cursor \in [Pools -> Nat]
  /\ writer \in SUBSET Callers
  /\ at \in [Callers -> {"idle", "choose", "commit"}]
  /\ pool \in [Callers -> SUBSET Pools]
  /\ chosen \in [Callers -> SUBSET Profiles]
  /\ claims \in Nat
  /\ served \in [Pools -> [Profiles -> Nat]]
  /\ \A p \in Profiles \ stored : uses[p] = 0    \* the FOREIGN KEY of profile_usage

Init ==
  /\ stored = Profiles
  /\ enabled = Profiles
  /\ rank = FirstRank
  /\ uses = [p \in Profiles |-> 0]
  /\ lastUse = [p \in Profiles |-> 0]
  /\ cursor = [k \in Pools |-> 0]
  /\ writer = {}
  /\ at = [c \in Callers |-> "idle"]
  /\ pool = [c \in Callers |-> {}]
  /\ chosen = [c \in Callers |-> {}]
  /\ claims = 0
  /\ served = [k \in Pools |-> [p \in Profiles |-> 0]]

-----------------------------------------------------------------------------
(* The choice of a row, _choose_pool_row.                                  *)

\* The query orders its rows by priority and id: how many of them come before p, and the
\* n-th row, counted from 0.
Ahead(rows, p) == Cardinality({q \in rows : rank[q] < rank[p]})
Nth(rows, n) == CHOOSE p \in rows : Ahead(rows, p) = n

\* p comes before q by use_count, last_used_at, priority and id.
LessUsed(p, q) ==
  \/ uses[p] < uses[q]
  \/ uses[p] = uses[q] /\ lastUse[p] < lastUse[q]
  \/ uses[p] = uses[q] /\ lastUse[p] = lastUse[q] /\ rank[p] < rank[q]

LeastUsed(rows) == CHOOSE p \in rows : \A q \in rows \ {p} : LessUsed(p, q)

\* Mutant: the cursor stops at the last row.
MutantPick(k) ==
  LET rows == Members[k] IN
  CASE Strategy[k] = "fill_first"  -> Nth(rows, 0)
    [] Strategy[k] = "least_used"  -> LeastUsed(rows)
    [] Strategy[k] = "round_robin" ->
         Nth(rows, IF cursor[k] < Cardinality(rows) THEN cursor[k] ELSE Cardinality(rows) - 1)

Pick(k) ==
  LET rows == Members[k] IN
  CASE Strategy[k] = "fill_first"  -> Nth(rows, 0)
    [] Strategy[k] = "least_used"  -> LeastUsed(rows)
    [] Strategy[k] = "round_robin" -> Nth(rows, cursor[k] % Cardinality(rows))

-----------------------------------------------------------------------------
(* A claim.                                                                *)

\* Mutant: BEGIN instead of BEGIN IMMEDIATE, so claims overlap.
MutantBeginImmediate(c, k) ==
  /\ at[c] = "idle"
  /\ writer' = writer \cup {c}
  /\ at' = [at EXCEPT ![c] = "choose"]
  /\ pool' = [pool EXCEPT ![c] = {k}]
  /\ UNCHANGED <<database, chosen, claims, served>>

\* The claim gets the write lock.  (One that finds it busy for ten seconds
\* raises and changes nothing.)
BeginImmediate(c, k) ==
  /\ at[c] = "idle"
  /\ writer = {}
  /\ writer' = {c}
  /\ at' = [at EXCEPT ![c] = "choose"]
  /\ pool' = [pool EXCEPT ![c] = {k}]
  /\ UNCHANGED <<database, chosen, claims, served>>

\* Mutant: a pool is served by whatever members are enabled.
MutantChoose(c) ==
  /\ at[c] = "choose"
  /\ \E k \in pool[c] :
       /\ Members[k] \cap enabled # {}
       /\ chosen' = [chosen EXCEPT ![c] = {Pick(k)}]
  /\ at' = [at EXCEPT ![c] = "commit"]
  /\ UNCHANGED <<database, writer, pool, claims, served>>

\* Every member has an enabled row: choose one.
Choose(c) ==
  /\ at[c] = "choose"
  /\ \E k \in pool[c] :
       /\ Members[k] \subseteq enabled
       /\ chosen' = [chosen EXCEPT ![c] = {Pick(k)}]
  /\ at' = [at EXCEPT ![c] = "commit"]
  /\ UNCHANGED <<database, writer, pool, claims, served>>

\* The transaction is over for c.
Leave(c) ==
  /\ writer' = writer \ {c}
  /\ at' = [at EXCEPT ![c] = "idle"]
  /\ chosen' = [chosen EXCEPT ![c] = {}]
  /\ pool' = [pool EXCEPT ![c] = {}]

\* The usage row and the cursor appear together, and the profile is returned.
Commit(c) ==
  /\ at[c] = "commit"
  /\ claims < MaxClaims
  /\ claims' = claims + 1
  /\ \E k \in pool[c], p \in chosen[c] :
       /\ uses' = [uses EXCEPT ![p] = @ + 1]
       /\ lastUse' = [lastUse EXCEPT ![p] = claims + 1]
       /\ cursor' = IF Strategy[k] = "round_robin"
                    THEN [cursor EXCEPT ![k] = @ + 1] ELSE cursor
       /\ served' = [served EXCEPT ![k][p] = @ + 1]
  /\ Leave(c)
  /\ UNCHANGED <<stored, enabled, rank>>

\* Mutant: the cursor of a claim that fails later has already been written.
MutantRollback(c) ==
  /\ at[c] \in {"choose", "commit"}
  /\ cursor' = [k \in Pools |->
                  IF at[c] = "commit" /\ k \in pool[c] /\ Strategy[k] = "round_robin"
                  THEN cursor[k] + 1 ELSE cursor[k]]
  /\ Leave(c)
  /\ UNCHANGED <<stored, enabled, rank, uses, lastUse, claims, served>>

\* An unknown or disabled member, a failing statement or a dying process: the
\* transaction is rolled back and the claim raises.
Rollback(c) ==
  /\ at[c] \in {"choose", "commit"}
  /\ Leave(c)
  /\ UNCHANGED <<database, claims, served>>

-----------------------------------------------------------------------------
(* What others do to the profiles, each in one autocommitted statement.     *)

SetEnabled(p) ==
  /\ writer = {}
  /\ p \in stored
  /\ enabled' = IF p \in enabled THEN enabled \ {p} ELSE enabled \cup {p}
  /\ UNCHANGED <<stored, rank, uses, lastUse, cursor, writer, at, pool, chosen, claims, served>>

\* Mutant: without PRAGMA foreign_keys = ON the usage row stays.
MutantDelete(p) ==
  /\ writer = {}
  /\ p \in stored
  /\ stored' = stored \ {p}
  /\ enabled' = enabled \ {p}
  /\ UNCHANGED <<rank, uses, lastUse, cursor, writer, at, pool, chosen, claims, served>>

\* Deleting a profile deletes its usage row; pool cursors stay.
Delete(p) ==
  /\ writer = {}
  /\ p \in stored
  /\ stored' = stored \ {p}
  /\ enabled' = enabled \ {p}
  /\ uses' = [uses EXCEPT ![p] = 0]
  /\ lastUse' = [lastUse EXCEPT ![p] = 0]
  /\ UNCHANGED <<rank, cursor, writer, at, pool, chosen, claims, served>>

Store(p) ==
  /\ writer = {}
  /\ p \notin stored
  /\ stored' = stored \cup {p}
  /\ enabled' = enabled \cup {p}
  /\ UNCHANGED <<rank, uses, lastUse, cursor, writer, at, pool, chosen, claims, served>>

\* upsert with new priorities exchanges two profiles in the order.
Reorder(p, q) ==
  /\ writer = {}
  /\ p # q /\ {p, q} \subseteq stored
  /\ rank' = [rank EXCEPT ![p] = rank[q], ![q] = rank[p]]
  /\ served' = [k \in Pools |-> [r \in Profiles |-> 0]]
  /\ UNCHANGED <<stored, enabled, uses, lastUse, cursor, writer, at, pool, chosen, claims>>

-----------------------------------------------------------------------------

Claim(c) ==
  \/ \E k \in Pools : BeginImmediate(c, k)
  \/ Choose(c) \/ Commit(c) \/ Rollback(c)

Next ==
  \/ \E c \in Callers : Claim(c)
  \/ \E p \in Profiles : SetEnabled(p) \/ Delete(p) \/ Store(p)
  \/ \E p, q \in Profiles : Reorder(p, q)

Spec == Init /\ [][Next]_vars

-----------------------------------------------------------------------------
(* What pools promise.                                                     *)

\* Since the profiles were last reordered, a round-robin pool has answered with
\* each of its members equally often, up to one: concurrent claims, failed ones,
\* and members disabled, deleted and stored again in between do not skip or
\* repeat anybody.
RoundRobinEven ==
  \A k \in Pools : Strategy[k] = "round_robin" =>
    \A p, q \in Members[k] : served[k][p] <= served[k][q] + 1

-----------------------------------------------------------------------------
(* The inductive invariant behind them.                                    *)

\* Who is in a claim holds the write lock, for one pool; a row chosen is the strategy's
\* choice until it is recorded, for nobody else can write.
ClaimAlone ==
  \A c \in Callers :
    IF at[c] = "idle" THEN pool[c] = {} /\ chosen[c] = {}
    ELSE /\ writer = {c}
         /\ \E k \in Pools :
              /\ pool[c] = {k}
              /\ at[c] = "commit" => Members[k] \subseteq enabled /\ chosen[c] = {Pick(k)}

\* ORDER BY priority, id is a total order.
Ordered == \A p, q \in Profiles : rank[p] = rank[q] => p = q

\* p is among the last d rows the cursor has passed, going round.
Passed(k, p, d) ==
  LET n == Cardinality(Members[k])
      next == cursor[k] % n
      i == Ahead(Members[k], p)
  IN IF i < next THEN next - i <= d ELSE next + n - i <= d

\* Everybody in a round-robin pool was served in m whole rounds, and the d members that
\* the cursor has just passed once more.
InRounds ==
  \A k \in Pools : Strategy[k] = "round_robin" =>
    \E m \in 0..claims, d \in 0..(Cardinality(Members[k]) - 1) : \A p \in Members[k] :
      served[k][p] = m + (IF Passed(k, p, d) THEN 1 ELSE 0)

IInv == TypeOK /\ ClaimAlone /\ Ordered /\ InRounds

-----------------------------------------------------------------------------
(* What each claim promises.                                               *)

\* c's claim is being recorded by this step.
Recorded(c) == at[c] = "commit" /\ claims' # claims /\ at'[c] = "idle"

\* A least-used claim is recorded for a member that nobody in the pool was used
\* less than at that moment, however many claims run concurrently.
LeastUsedAtCommit ==
  [][\A c \in Callers : Recorded(c) =>
       \A k \in pool[c], p \in chosen[c] : Strategy[k] = "least_used" =>
         \A q \in Members[k] : uses[p] <= uses[q]]_vars

\* A claim answers only when every member of its pool is enabled: a disabled or
\* deleted member is never stepped over in silence.
AnswerFromWholePool ==
  [][\A c \in Callers : Recorded(c) =>
       \A k \in pool[c] : Members[k] \subseteq enabled]_vars
=============================================================================
