-------------------------- MODULE CredentialRefresh --------------------------
(***************************************************************************)
(* The two code paths that lease and refresh one OAuth profile's           *)
(* credential: CredentialBroker.refresh and .lease (broker.py) and         *)
(* AuthBroker.lease with its _refresh (auth.py), over the profile table,   *)
(* the secret store, the refresh lease and the provider's token endpoint.  *)
(*                                                                         *)
(* The refresh lease appears as the abstract lock that RefreshLease is     *)
(* shown to implement: its grant is free only when nobody has it, and it   *)
(* may run out.  Overrun says whether it may run out under a call that is  *)
(* still inside, which the code allows: nothing bounds driver.refresh by   *)
(* ttl_seconds.  Every read or write of a store is a step of its own.      *)
(*                                                                         *)
(* A material is the number of the token the provider issued it with.  The *)
(* distance to its expiry is one of three ages: "fresh", "due" (inside the *)
(* broker's skew) and "expired" (inside AuthBroker's smaller skew); time   *)
(* may age any token at any moment.  The provider rotates refresh tokens:  *)
(* a refresh spends the one presented.                                     *)
(***************************************************************************)
EXTENDS Integers

CONSTANTS
  Callers,    \* calls in flight, in any thread of any process
  Codes,      \* the operations called: "refresh", "lease" (broker), "auth" (AuthBroker)
  Overrun,    \* whether a lease may run out under its holder
  MaxTokens,  \* bound: tokens the provider issues
  MaxFaults   \* bound: crashes, lost answers, failed writes and releases

ASSUME RefreshAssumption ==
  /\ Codes \subseteq {"refresh", "lease", "auth"}
  /\ Overrun \in BOOLEAN
  /\ MaxTokens \in Nat \ {0}
  /\ MaxFaults \in Nat

Tokens == 1..MaxTokens

VARIABLES
  profile,    \* the profile's row in credential_profiles, if any
  secret,     \* the material under the profile's reference, if any
  holders,    \* the owner of the refresh lease, if any
  issued,     \* the provider: tokens issued so far
  honoured,   \* the provider: tokens whose refresh token is still good
  grant,      \* the provider: the first token of the sign-in each one stems from
  age,        \* how close each token is to its expiry
  at,         \* where each call stands
  op,         \* the operation it is in; a lease becomes "auth" once refreshed
  hand,       \* its local material: current, refreshed or leased; 0 if none
  faults,     \* faults so far
  overran     \* history: whether a lease has run out under its holder

provider == <<issued, honoured, grant>>
vars == <<profile, secret, holders, provider, age, at, op, hand, faults, overran>>

Lock == INSTANCE ExclusiveGrant WITH Owners <- Callers

\* The places inside "with refresh_lease(...)"; the last two are its finally
\* block, reached by a normal end and by an exception.
Body == {"recheck", "load", "call", "put", "release", "unwind"}

Places == {"idle", "enter", "due", "wait", "auth", "fetch", "leased", "dead"} \cup Body

TypeOK ==
  /\ profile \in SUBSET [enabled : BOOLEAN, login : Tokens]
  /\ secret \in SUBSET Tokens
  /\ holders \in SUBSET Callers
  /\ issued \in Tokens
  /\ honoured \in SUBSET (1..issued)
  /\ grant \in [Tokens -> Tokens]
  /\ age \in [Tokens -> {"fresh", "due", "expired"}]
  /\ at \in [Callers -> Places]
  /\ op \in [Callers -> {"refresh", "lease", "auth"}]
  /\ hand \in [Callers -> Tokens \cup {0}]
  /\ \A c \in Callers : at[c] \in {"call", "put"} => hand[c] \in Tokens
  /\ faults \in 0..MaxFaults
  /\ overran \in BOOLEAN

\* A profile somebody signed in to, its first token stored.
Init ==
  /\ profile = {[enabled |-> TRUE, login |-> 1]}
  /\ secret = {1}
  /\ holders = {}
  /\ issued = 1
  /\ honoured = {1}
  /\ grant = [t \in Tokens |-> t]
  /\ age = [t \in Tokens |-> "fresh"]
  /\ at = [c \in Callers |-> "idle"]
  /\ op = [c \in Callers |-> "refresh"]
  /\ hand = [c \in Callers |-> 0]
  /\ faults = 0
  /\ overran = FALSE

-----------------------------------------------------------------------------
(* Control.                                                                *)

Become(c, place, code, token) ==
  /\ at' = [at EXCEPT ![c] = place]
  /\ op' = [op EXCEPT ![c] = code]
  /\ hand' = [hand EXCEPT ![c] = token]

Goto(c, place) == Become(c, place, op[c], hand[c])

\* The call returns or raises to whoever made it; its locals are gone.
Return(c) == Become(c, "idle", "refresh", 0)

\* An exception in the body under the lease: current and refreshed are wiped.
Raise(c) == Become(c, "unwind", op[c], 0)

\* CredentialBroker.refresh returns: a lease goes on to AuthBroker.lease.
RefreshReturns(c) ==
  IF op[c] = "lease" THEN Become(c, "auth", "auth", 0) ELSE Return(c)

Fault == faults < MaxFaults /\ faults' = faults + 1

Enabled == \E p \in profile : p.enabled

\* _due: the stored material is inside the broker's skew.
Due == \E t \in secret : age[t] # "fresh"

\* AuthBroker asks the same of a smaller skew.
Expired == \E t \in secret : age[t] = "expired"

-----------------------------------------------------------------------------
(* CredentialBroker.refresh, up to its lease.                              *)

Begin(c, code) ==
  /\ at[c] = "idle"
  /\ Become(c, IF code = "auth" THEN "auth" ELSE "enter", code, 0)
  /\ UNCHANGED <<profile, secret, holders, provider, age, faults, overran>>

\* _enabled_profile: the only look the broker takes at the profile.
EnterRefresh(c) ==
  /\ at[c] = "enter"
  /\ IF Enabled THEN Goto(c, "due") ELSE Return(c)
  /\ UNCHANGED <<profile, secret, holders, provider, age, faults, overran>>

\* The first _due, outside the lease.  A missing secret raises.
CheckDue(c) ==
  /\ at[c] = "due"
  /\ \/ secret = {} /\ Return(c)
     \/ Due /\ Goto(c, "wait")
     \/ secret # {} /\ ~Due /\ RefreshReturns(c)
  /\ UNCHANGED <<profile, secret, holders, provider, age, faults, overran>>

-----------------------------------------------------------------------------
(* The lease and the body under it, for both writers.                      *)

Grant(c) ==
  /\ at[c] = "wait"
  /\ Lock!Grant(c)
  /\ Goto(c, IF op[c] = "auth" THEN "load" ELSE "recheck")
  /\ UNCHANGED <<profile, secret, provider, age, faults, overran>>

\* Mutant: the deadline is looked at only when the lease is found free.
MutantGiveUp(c) ==
  /\ at[c] = "wait"
  /\ holders = {}
  /\ Return(c)
  /\ UNCHANGED <<profile, secret, holders, provider, age, faults, overran>>

\* wait_seconds passed, or SQLite raised: RefreshError to the caller.
GiveUp(c) ==
  /\ at[c] = "wait"
  /\ Return(c)
  /\ UNCHANGED <<profile, secret, holders, provider, age, faults, overran>>

\* The broker's second _due, under the lease.
Recheck(c) ==
  /\ at[c] = "recheck"
  /\ \/ secret = {} /\ Raise(c)
     \/ Due /\ Goto(c, "load")
     \/ secret # {} /\ ~Due /\ Goto(c, "release")
  /\ UNCHANGED <<profile, secret, holders, provider, age, faults, overran>>

\* store.get under the lease; AuthBroker returns what is not expired.
Load(c) ==
  /\ at[c] = "load"
  /\ \/ secret = {} /\ Raise(c)
     \/ \E t \in secret :
          Become(c, IF op[c] = "auth" /\ ~Expired THEN "release" ELSE "call", op[c], t)
  /\ UNCHANGED <<profile, secret, holders, provider, age, faults, overran>>

\* The provider spends the token presented and issues the next one.
Rotate(t) ==
  /\ t \in honoured
  /\ issued < MaxTokens
  /\ issued' = issued + 1
  /\ honoured' = (honoured \ {t}) \cup {issued + 1}
  /\ grant' = [grant EXCEPT ![issued + 1] = grant[t]]

\* Mutant: the lease covers the token request but not the write of its answer.
MutantExchange(c) ==
  /\ at[c] = "call"
  /\ Rotate(hand[c])
  /\ Become(c, "put", op[c], issued + 1)
  /\ holders' = holders \ {c}
  /\ UNCHANGED <<profile, secret, age, faults, overran>>

\* driver.refresh returned the next token.
Exchange(c) ==
  /\ at[c] = "call"
  /\ Rotate(hand[c])
  /\ Become(c, "put", op[c], issued + 1)
  /\ UNCHANGED <<profile, secret, holders, age, faults, overran>>

\* driver.refresh raised and the provider did nothing: a spent refresh token, an
\* endpoint that is down, an answer that is no token.
Refused(c) ==
  /\ at[c] = "call"
  /\ Raise(c)
  /\ UNCHANGED <<profile, secret, holders, provider, age, faults, overran>>

\* driver.refresh raised although the provider rotated: the answer was lost.
AnswerLost(c) ==
  /\ at[c] = "call"
  /\ Rotate(hand[c])
  /\ Fault
  /\ Raise(c)
  /\ UNCHANGED <<profile, secret, holders, age, overran>>

\* Mutant: the token that was presented is stored, not the one that came back.
MutantPut(c) ==
  /\ at[c] = "put"
  /\ Become(c, "release", op[c], IF op[c] = "auth" THEN hand[c] ELSE 0)
  /\ UNCHANGED <<profile, secret, holders, provider, age, faults, overran>>

\* store.put, which looks at nothing: neither the lease nor what is stored.  The
\* broker wipes its copy, AuthBroker leases a clone of it.
Put(c) ==
  /\ at[c] = "put"
  /\ secret' = {hand[c]}
  /\ Become(c, "release", op[c], IF op[c] = "auth" THEN hand[c] ELSE 0)
  /\ UNCHANGED <<profile, holders, provider, age, faults, overran>>

PutFails(c) ==
  /\ at[c] = "put"
  /\ Fault
  /\ Raise(c)
  /\ UNCHANGED <<profile, secret, holders, provider, age, overran>>

\* The finally block of refresh_lease on the way of an exception.
Unwind(c) ==
  /\ at[c] = "unwind"
  /\ holders' = holders \ {c}
  /\ Return(c)
  /\ UNCHANGED <<profile, secret, provider, age, faults, overran>>

\* The finally block after a normal end, and back to whoever refreshed.
Release(c) ==
  /\ at[c] = "release"
  /\ holders' = holders \ {c}
  /\ IF op[c] = "auth" THEN Goto(c, "leased") ELSE RefreshReturns(c)
  /\ UNCHANGED <<profile, secret, provider, age, faults, overran>>

-----------------------------------------------------------------------------
(* AuthBroker.lease.                                                       *)

\* AuthBroker.lease looks at the profile for itself.
EnterLease(c) ==
  /\ at[c] = "auth"
  /\ IF Enabled THEN Goto(c, "fetch") ELSE Return(c)
  /\ UNCHANGED <<profile, secret, holders, provider, age, faults, overran>>

\* Mutant: AuthBroker refreshes an expired material without the lease.
MutantFetch(c) ==
  /\ at[c] = "fetch"
  /\ \/ secret = {} /\ Return(c)
     \/ Expired /\ Goto(c, "load")
     \/ \E t \in secret : ~Expired /\ Become(c, "leased", op[c], t)
  /\ UNCHANGED <<profile, secret, holders, provider, age, faults, overran>>

\* store.get: an expired material goes through AuthBroker._refresh.
Fetch(c) ==
  /\ at[c] = "fetch"
  /\ \/ secret = {} /\ Return(c)
     \/ Expired /\ Goto(c, "wait")
     \/ \E t \in secret : ~Expired /\ Become(c, "leased", op[c], t)
  /\ UNCHANGED <<profile, secret, holders, provider, age, faults, overran>>

\* The caller leaves its "with" block: the material is wiped.
Close(c) ==
  /\ at[c] = "leased"
  /\ Return(c)
  /\ UNCHANGED <<profile, secret, holders, provider, age, faults, overran>>

-----------------------------------------------------------------------------
(* The environment.                                                        *)

\* The process dies, or the DELETE that releases the lease raises.  Its owner
\* name is never used again: later calls are those of other callers.
Crash(c) ==
  /\ at[c] \notin {"idle", "dead"}
  /\ Fault
  /\ Become(c, "dead", "refresh", 0)
  /\ UNCHANGED <<profile, secret, holders, provider, age, overran>>

\* ttl_seconds pass: the lease of a dead owner, or of a slow one, runs out.
Lapse ==
  /\ Overrun \/ \E c \in holders : at[c] = "dead"
  /\ Lock!End
  /\ overran' = (overran \/ \E c \in holders : at[c] # "dead")
  /\ UNCHANGED <<profile, secret, provider, age, at, op, hand, faults>>

\* Time passes for a token somebody can still look at.
Age(t) ==
  /\ t \in secret \/ \E c \in Callers : hand[c] = t
  /\ \/ age[t] = "fresh" /\ age' = [age EXCEPT ![t] = "due"]
     \/ age[t] = "due" /\ age' = [age EXCEPT ![t] = "expired"]
  /\ UNCHANGED <<profile, secret, holders, provider, at, op, hand, faults, overran>>

-----------------------------------------------------------------------------

\* What a call does by itself when nothing breaks.
Progress(c) ==
  \/ EnterRefresh(c) \/ CheckDue(c) \/ Grant(c) \/ GiveUp(c) \/ Recheck(c)
  \/ Load(c) \/ Exchange(c) \/ Refused(c) \/ Put(c) \/ Release(c) \/ Unwind(c)
  \/ EnterLease(c) \/ Fetch(c) \/ Close(c)

Step(c) ==
  \/ Progress(c)
  \/ \E code \in Codes : Begin(c, code)
  \/ AnswerLost(c) \/ PutFails(c) \/ Crash(c)

Environment == Lapse \/ \E t \in Tokens : Age(t)

Next == Environment \/ \E c \in Callers : Step(c)

Spec == Init /\ [][Next]_vars

\* A call that is not dead keeps running: waits are bounded by wait_seconds, the
\* token endpoint by its HTTP timeout, and a caller leaves its "with" block.
FairSpec == Spec /\ \A c \in Callers : WF_vars(Progress(c))

-----------------------------------------------------------------------------
(* What the two brokers promise.                                           *)

\* c is between its load of the current material and the write of the next one.
Refreshing(c) == at[c] \in {"call", "put"}

\* Two calls never refresh at the same time, in the broker, in AuthBroker or
\* across the two, as long as no lease has run out under its holder.
OneRefreshAtATime ==
  ~overran => \A c, d \in Callers : Refreshing(c) /\ Refreshing(d) => c = d

\* The provider is never shown a refresh token that a completed refresh spent:
\* whoever is about to ask has the token that is still good.  A lease that runs
\* out under its holder, a crash, a lost answer or a failed write may break this.
NoSpentTokenPresented ==
  \A c \in Callers : at[c] = "call" /\ faults = 0 /\ ~overran => hand[c] \in honoured

\* The stored material can still be refreshed, or its replacement is in the hand
\* of a call about to store it.  This needs no lease that lasts: of two calls that
\* present the same token the provider answers one, and only that one stores.
StoredTokenHonoured ==
  faults = 0 => secret \subseteq honoured \/ \E c \in Callers : at[c] = "put"

\* No token request is made for a material that is not due: the loser of a race
\* for the lease finds the winner's material and asks for nothing.
NoRequestForFreshToken ==
  ~overran => \A c \in Callers : at[c] = "call" => age[hand[c]] # "fresh"

\* Whoever owns the lease is inside its body or died there: every way out of the
\* body, exceptions included, gives the lease back.
LeaseGivenBack == \A c \in holders : at[c] \in Body \cup {"dead"}

\* Every call ends, by a return, an exception or the death of its process.
CallEnds == \A c \in Callers : at[c] \notin {"idle", "dead"} ~> at[c] \in {"idle", "dead"}

-----------------------------------------------------------------------------
(* The inductive invariant behind the safety properties.                   *)

\* Whoever is in the body has the lease.
BodyOwnsLease == \A c \in Callers : at[c] \in Body => holders = {c}

\* The token about to be presented, and the one about to be stored, are good.
HandHonoured ==
  \A c \in Callers : at[c] \in {"call", "put"} => hand[c] \in honoured

\* reference is the store's key.
OneSecret == \A s, t \in secret : s = t

\* What the broker found due under the lease stays due until it loads it.
DueUnderLease == \A c \in Callers : at[c] = "load" /\ op[c] # "auth" => Due

\* Nobody has a token before it is issued.
OnlyIssued == secret \subseteq 1..issued /\ \A c \in Callers : hand[c] \in 0..issued

\* Until something fails, one token is good, the last one issued.  It is in the
\* store, or else one call alone has it and is about to store it.
LastTokenKept ==
  /\ honoured = {issued}
  /\ \/ /\ secret = {issued}
        /\ \A c \in Callers : at[c] # "put"
     \/ /\ issued \notin secret
        /\ \A c \in Callers : at[c] = "call" => hand[c] # issued
        /\ \E c \in Callers :
             /\ at[c] = "put" /\ hand[c] = issued
             /\ \A d \in Callers : at[d] = "put" => d = c

IInv ==
  /\ TypeOK
  /\ OneSecret
  /\ LeaseGivenBack
  /\ ~overran => BodyOwnsLease /\ DueUnderLease
  /\ NoRequestForFreshToken
  /\ OnlyIssued
  /\ faults = 0 => LastTokenKept
  /\ faults = 0 /\ ~overran => HandHonoured
=============================================================================
