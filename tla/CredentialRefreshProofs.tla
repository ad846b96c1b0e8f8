----------------------- MODULE CredentialRefreshProofs -----------------------
(***************************************************************************)
(* CredentialRefresh for any number of calls, tokens and faults: one       *)
(* refresh at a time, no spent refresh token and no request for a fresh    *)
(* token, until a lease runs out under its holder; and no stranded profile *)
(* and the lease given back on every path, even after that.  Then the same *)
(* calls among any number of admins (ProfileLifecycle).                    *)
(***************************************************************************)
EXTENDS ProfileLifecycle, TLAPS

-----------------------------------------------------------------------------
(* The type invariant.                                                     *)

\* Moving a call to a place of the code, with an operation and a material.
LEMMA BecomeType ==
  ASSUME TypeOK, NEW c \in Callers, NEW place \in Places,
         NEW code \in {"refresh", "lease", "auth"}, NEW token \in Tokens \cup {0},
         place \in {"call", "put"} => token \in Tokens,
         Become(c, place, code, token)
  PROVE  /\ at' \in [Callers -> Places]
         /\ op' \in [Callers -> {"refresh", "lease", "auth"}]
         /\ hand' \in [Callers -> Tokens \cup {0}]
         /\ \A d \in Callers : at'[d] \in {"call", "put"} => hand'[d] \in Tokens
BY DEF TypeOK, Become

\* The token issued next is one of the model's, and the provider's records of
\* the tokens it issued stay records of issued tokens.
LEMMA RotateType ==
  ASSUME TypeOK, NEW t \in Tokens, Rotate(t)
  PROVE  /\ issued' \in Tokens
         /\ issued' = issued + 1
         /\ honoured' \in SUBSET (1..issued')
         /\ grant' \in [Tokens -> Tokens]
<1>1. issued \in 1..MaxTokens /\ issued < MaxTokens
  BY DEF TypeOK, Rotate, Tokens
<1>2. issued' = issued + 1 /\ issued + 1 \in 1..MaxTokens
  BY <1>1, RefreshAssumption DEF Rotate
<1>3. 1..issued \subseteq 1..(issued + 1) /\ issued + 1 \in 1..(issued + 1)
  BY <1>1, RefreshAssumption
<1>4. honoured' \in SUBSET (1..issued')
  BY <1>2, <1>3 DEF TypeOK, Rotate
<1>5. grant' \in [Tokens -> Tokens]
  BY <1>2 DEF TypeOK, Rotate, Tokens
<1> QED
  BY <1>2, <1>4, <1>5 DEF Tokens

\* A fault is counted within its bound.
LEMMA FaultType == ASSUME TypeOK, Fault PROVE faults' \in 0..MaxFaults
BY RefreshAssumption DEF TypeOK, Fault

LEMMA InitType == ASSUME Init PROVE TypeOK
<1>1. 1 \in Tokens /\ 1 \in 1..1 /\ 0 \in 0..MaxFaults
  BY RefreshAssumption DEF Tokens
<1>2. at \in [Callers -> Places]
  BY DEF Init, Places
<1>3. /\ op \in [Callers -> {"refresh", "lease", "auth"}]
      /\ hand \in [Callers -> Tokens \cup {0}]
      /\ \A c \in Callers : at[c] \in {"call", "put"} => hand[c] \in Tokens
  BY DEF Init
<1>4. /\ grant \in [Tokens -> Tokens]
      /\ age \in [Tokens -> {"fresh", "due", "expired"}]
  BY DEF Init
<1>5. profile \in SUBSET [enabled : BOOLEAN, login : Tokens]
  BY <1>1 DEF Init
<1>6. overran \in BOOLEAN
  BY DEF Init
<1>7. /\ secret \in SUBSET Tokens /\ holders \in SUBSET Callers
      /\ issued \in Tokens /\ honoured \in SUBSET (1..issued)
      /\ faults \in 0..MaxFaults
  BY <1>1 DEF Init
<1> QED
  BY <1>2, <1>3, <1>4, <1>5, <1>6, <1>7, Zenon DEF TypeOK

\* The type invariant is inductive by itself.
LEMMA TypeStep == ASSUME TypeOK, [Next]_vars PROVE TypeOK'
<1> DEFINE MoveType == /\ at' \in [Callers -> Places]
                       /\ op' \in [Callers -> {"refresh", "lease", "auth"}]
                       /\ hand' \in [Callers -> Tokens \cup {0}]
                       /\ \A d \in Callers :
                            at'[d] \in {"call", "put"} => hand'[d] \in Tokens
<1> USE DEF Goto, Return, Raise, RefreshReturns
<1>0. Body \subseteq Places /\ {"idle", "enter", "due", "wait", "auth", "fetch", "leased", "dead"} \subseteq Places
  BY DEF Places
<1>a. "recheck" \in Places /\ "load" \in Places /\ "call" \in Places /\ "put" \in Places
      /\ "release" \in Places /\ "unwind" \in Places
  BY DEF Places, Body
<1>1. CASE Lapse
  BY <1>1 DEF Lapse, Lock!End, provider, TypeOK
<1>2. ASSUME NEW t \in Tokens, Age(t) PROVE TypeOK'
  BY <1>2 DEF Age, provider, TypeOK
<1>3. ASSUME NEW c \in Callers, Step(c) PROVE TypeOK'
  <2> USE <1>0, <1>a
  <2>0. op[c] \in {"refresh", "lease", "auth"} /\ hand[c] \in Tokens \cup {0}
    BY DEF TypeOK
  <2>1. ASSUME NEW code \in Codes, Begin(c, code) PROVE TypeOK'
    <3>1. code \in {"refresh", "lease", "auth"}
      BY RefreshAssumption
    <3>2. MoveType
      BY <2>1, <3>1, BecomeType DEF Begin
    <3> QED
      BY <2>1, <3>2 DEF Begin, provider, TypeOK
  <2>2. CASE EnterRefresh(c)
    <3>1. MoveType
      BY <2>0, <2>2, BecomeType DEF EnterRefresh
    <3> QED
      BY <2>2, <3>1 DEF EnterRefresh, provider, TypeOK
  <2>3. CASE CheckDue(c)
    <3>1. MoveType
      BY <2>0, <2>3, BecomeType DEF CheckDue
    <3> QED
      BY <2>3, <3>1 DEF CheckDue, provider, TypeOK
  <2>4. CASE Grant(c)
    <3>1. MoveType
      BY <2>0, <2>4, BecomeType DEF Grant
    <3> QED
      BY <2>4, <3>1 DEF Grant, Lock!Grant, provider, TypeOK
  <2>5. CASE GiveUp(c)
    <3>1. MoveType
      BY <2>0, <2>5, BecomeType DEF GiveUp
    <3> QED
      BY <2>5, <3>1 DEF GiveUp, provider, TypeOK
  <2>6. CASE Recheck(c)
    <3>1. MoveType
      BY <2>0, <2>6, BecomeType DEF Recheck
    <3> QED
      BY <2>6, <3>1 DEF Recheck, provider, TypeOK
  <2>7. CASE Load(c)
    <3>1. secret \subseteq Tokens
      BY DEF TypeOK
    <3>2. MoveType
      BY <2>0, <2>7, <3>1, BecomeType DEF Load
    <3> QED
      BY <2>7, <3>2 DEF Load, provider, TypeOK
  <2>8. CASE Exchange(c)
    <3>1. hand[c] \in Tokens
      BY <2>8 DEF Exchange, TypeOK
    <3>2. /\ issued' \in Tokens /\ issued' = issued + 1
          /\ honoured' \in SUBSET (1..issued') /\ grant' \in [Tokens -> Tokens]
      BY <2>8, <3>1, RotateType DEF Exchange
    <3>3. MoveType
      BY <2>0, <2>8, <3>2, BecomeType DEF Exchange
    <3> QED
      BY <2>8, <3>2, <3>3 DEF Exchange, TypeOK
  <2>9. CASE Refused(c)
    <3>1. MoveType
      BY <2>0, <2>9, BecomeType DEF Refused
    <3> QED
      BY <2>9, <3>1 DEF Refused, provider, TypeOK
  <2>10. CASE AnswerLost(c)
    <3>1. hand[c] \in Tokens
      BY <2>10 DEF AnswerLost, TypeOK
    <3>2. /\ issued' \in Tokens /\ issued' = issued + 1
          /\ honoured' \in SUBSET (1..issued') /\ grant' \in [Tokens -> Tokens]
      BY <2>10, <3>1, RotateType DEF AnswerLost
    <3>3. MoveType
      BY <2>0, <2>10, BecomeType DEF AnswerLost
    <3>4. faults' \in 0..MaxFaults
      BY <2>10, FaultType DEF AnswerLost
    <3> QED
      BY <2>10, <3>2, <3>3, <3>4 DEF AnswerLost, TypeOK
  <2>11. CASE Put(c)
    <3>1. MoveType
      BY <2>0, <2>11, BecomeType DEF Put
    <3>2. secret' \in SUBSET Tokens
      BY <2>11 DEF Put, TypeOK
    <3> QED
      BY <2>11, <3>1, <3>2 DEF Put, provider, TypeOK
  <2>12. CASE PutFails(c)
    <3>1. MoveType
      BY <2>0, <2>12, BecomeType DEF PutFails
    <3>2. faults' \in 0..MaxFaults
      BY <2>12, FaultType DEF PutFails
    <3> QED
      BY <2>12, <3>1, <3>2 DEF PutFails, provider, TypeOK
  <2>13. CASE Unwind(c)
    <3>1. MoveType
      BY <2>0, <2>13, BecomeType DEF Unwind
    <3> QED
      BY <2>13, <3>1 DEF Unwind, provider, TypeOK
  <2>14. CASE Release(c)
    <3>1. MoveType
      BY <2>0, <2>14, BecomeType DEF Release
    <3> QED
      BY <2>14, <3>1 DEF Release, provider, TypeOK
  <2>15. CASE EnterLease(c)
    <3>1. MoveType
      BY <2>0, <2>15, BecomeType DEF EnterLease
    <3> QED
      BY <2>15, <3>1 DEF EnterLease, provider, TypeOK
  <2>16. CASE Fetch(c)
    <3>1. secret \subseteq Tokens
      BY DEF TypeOK
    <3>2. MoveType
      BY <2>0, <2>16, <3>1, BecomeType DEF Fetch
    <3> QED
      BY <2>16, <3>2 DEF Fetch, provider, TypeOK
  <2>17. CASE Close(c)
    <3>1. MoveType
      BY <2>0, <2>17, BecomeType DEF Close
    <3> QED
      BY <2>17, <3>1 DEF Close, provider, TypeOK
  <2>18. CASE Crash(c)
    <3>1. MoveType
      BY <2>0, <2>18, BecomeType DEF Crash
    <3>2. faults' \in 0..MaxFaults
      BY <2>18, FaultType DEF Crash
    <3> QED
      BY <2>18, <3>1, <3>2 DEF Crash, provider, TypeOK
  <2> QED
    BY <1>3, <2>1, <2>2, <2>3, <2>4, <2>5, <2>6, <2>7, <2>8, <2>9, <2>10, <2>11,
       <2>12, <2>13, <2>14, <2>15, <2>16, <2>17, <2>18 DEF Step, Progress
<1>4. CASE UNCHANGED vars
  BY <1>4 DEF vars, provider, TypeOK
<1> QED
  BY <1>1, <1>2, <1>3, <1>4 DEF Next, Environment

\* Every reachable state is well typed.
THEOREM TypeCorrect == Spec => []TypeOK
<1>1. Init => TypeOK
  BY InitType
<1>2. TypeOK /\ [Next]_vars => TypeOK'
  BY TypeStep
<1> QED
  BY <1>1, <1>2, PTL DEF Spec

-----------------------------------------------------------------------------
(* The lease and the body.                                                 *)

\* What the actions do to the lease and to where calls stand, and nothing else
\* of them: c moves, and everybody else stays.
Move(c, from, to) == at[c] \in from /\ at' = [at EXCEPT ![c] = to]

\* A step of a call takes the lease when it was free, gives up its own, or
\* leaves it alone, and enters and leaves the body accordingly.
LEMMA StepShape ==
  ASSUME TypeOK, NEW c \in Callers, Step(c)
  PROVE  \/ /\ \E to \in {"recheck", "load"} : Move(c, {"wait"}, to)
            /\ holders = {} /\ holders' = {c}
         \/ /\ \E to \in {"idle", "auth", "leased"} : Move(c, {"release", "unwind"}, to)
            /\ holders' = holders \ {c}
         \/ /\ \E to \in Body : Move(c, Body, to)
            /\ UNCHANGED holders
         \/ /\ \E to \in Places \ (Body \cup {"dead"}) :
                 Move(c, Places \ (Body \cup {"dead"}), to)
            /\ UNCHANGED holders
         \/ /\ Move(c, Places \ {"dead"}, "dead")
            /\ UNCHANGED holders
<1> USE DEF Step, Progress, Become, Goto, Return, Raise, RefreshReturns, Move, Body, Places
<1>1. CASE Grant(c)
  BY <1>1 DEF Grant, Lock!Grant
<1>2. CASE Release(c) \/ Unwind(c)
  BY <1>2 DEF Release, Unwind
<1>3. CASE Recheck(c) \/ Load(c) \/ Exchange(c) \/ Refused(c) \/ Put(c)
           \/ AnswerLost(c) \/ PutFails(c)
  BY <1>3 DEF Recheck, Load, Exchange, Refused, Put, AnswerLost, PutFails
<1>4. CASE EnterRefresh(c) \/ CheckDue(c) \/ GiveUp(c) \/ EnterLease(c) \/ Fetch(c)
           \/ Close(c) \/ \E code \in Codes : Begin(c, code)
  BY <1>4 DEF EnterRefresh, CheckDue, GiveUp, EnterLease, Fetch, Close, Begin
<1>5. CASE Crash(c)
  BY <1>5 DEF Crash, TypeOK
<1> QED
  BY <1>1, <1>2, <1>3, <1>4, <1>5

\* Every way out of the body gives the lease back; only a dead call keeps it.
LEMMA GivenBackStep ==
  ASSUME TypeOK, LeaseGivenBack, [Next]_vars
  PROVE  LeaseGivenBack'
<1>1. CASE Lapse
  BY <1>1 DEF Lapse, Lock!End, LeaseGivenBack
<1>2. ASSUME NEW t \in Tokens, Age(t) PROVE LeaseGivenBack'
  BY <1>2 DEF Age, LeaseGivenBack
<1>3. ASSUME NEW c \in Callers, Step(c) PROVE LeaseGivenBack'
  <2> SUFFICES ASSUME NEW d \in holders'
               PROVE  at'[d] \in Body \cup {"dead"}
    BY DEF LeaseGivenBack
  <2>1. d \in Callers
    BY <1>3, StepShape DEF TypeOK
  <2> QED
    BY <1>3, <2>1, StepShape DEF LeaseGivenBack, Move, Body, Places, TypeOK
<1>4. CASE UNCHANGED vars
  BY <1>4 DEF vars, LeaseGivenBack
<1> QED
  BY <1>1, <1>2, <1>3, <1>4 DEF Next, Environment

\* Once a lease has run out under its holder, it has.
LEMMA OverranStays ==
  ASSUME TypeOK, [Next]_vars, ~overran'
  PROVE  ~overran /\ (Lapse => \A c \in holders : at[c] = "dead")
<1>1. CASE Lapse
  BY <1>1 DEF Lapse, TypeOK
<1>2. UNCHANGED overran \/ Lapse
  BY DEF Next, Environment, Step, Progress, Begin, EnterRefresh, CheckDue, Grant, GiveUp,
         Recheck, Load, Exchange, Refused, AnswerLost, Put, PutFails, Unwind, Release,
         EnterLease, Fetch, Close, Crash, Age, vars
<1>3. CASE ~Lapse
  BY <1>2, <1>3
<1> QED
  BY <1>1, <1>3

\* A lease that does not run out under its holder belongs to whoever is inside.
LEMMA BodyOwnsLeaseStep ==
  ASSUME TypeOK, ~overran', ~overran => BodyOwnsLease, [Next]_vars
  PROVE  BodyOwnsLease'
<1>0. BodyOwnsLease /\ (Lapse => \A c \in holders : at[c] = "dead")
  BY OverranStays
<1>1. CASE Lapse
  BY <1>0, <1>1 DEF Lapse, Lock!End, BodyOwnsLease, Body
<1>2. ASSUME NEW t \in Tokens, Age(t) PROVE BodyOwnsLease'
  BY <1>0, <1>2 DEF Age, BodyOwnsLease
<1>3. ASSUME NEW c \in Callers, Step(c) PROVE BodyOwnsLease'
  BY <1>0, <1>3, StepShape DEF BodyOwnsLease, Move, Body, Places, TypeOK
<1>4. CASE UNCHANGED vars
  BY <1>0, <1>4 DEF vars, BodyOwnsLease
<1> QED
  BY <1>1, <1>2, <1>3, <1>4 DEF Next, Environment

\* Two calls in the body are the same call.
LEMMA BodyIsExclusive ==
  ASSUME BodyOwnsLease, NEW c \in Callers, NEW d \in Callers,
         at[c] \in Body, at[d] \in Body
  PROVE  c = d
BY DEF BodyOwnsLease


-----------------------------------------------------------------------------
(* The tokens.                                                             *)

\* Nobody has a token before it is issued.
LEMMA OnlyIssuedStep ==
  ASSUME TypeOK, OnlyIssued, [Next]_vars
  PROVE  OnlyIssued'
<1> USE DEF OnlyIssued
<1>0. issued \in Nat
  BY RefreshAssumption DEF TypeOK, Tokens
<1>1. CASE Lapse
  BY <1>1 DEF Lapse, provider
<1>2. ASSUME NEW t \in Tokens, Age(t) PROVE OnlyIssued'
  BY <1>2 DEF Age, provider
<1>3. ASSUME NEW c \in Callers, Step(c) PROVE OnlyIssued'
  <2> USE DEF Become, Goto, Return, Raise, RefreshReturns
  <2>1. CASE Load(c)
    BY <1>0, <2>1 DEF Load, provider, TypeOK
  <2>2. CASE Exchange(c) \/ AnswerLost(c)
    <3>1. issued' = issued + 1 /\ secret' = secret
      BY <2>2 DEF Exchange, AnswerLost, Rotate
    <3>2. \A d \in Callers : hand'[d] \in {0, issued + 1, hand[d]}
      BY <2>2 DEF Exchange, AnswerLost, TypeOK
    <3> QED
      BY <1>0, <3>1, <3>2
  <2>3. CASE Put(c)
    <3>1. hand[c] \in Tokens
      BY <2>3 DEF Put, TypeOK
    <3>2. secret' = {hand[c]} /\ issued' = issued
      BY <2>3 DEF Put, provider
    <3>3. \A d \in Callers : hand'[d] \in {0, hand[d]}
      BY <2>3 DEF Put, TypeOK
    <3> QED
      BY <1>0, <3>1, <3>2, <3>3 DEF Tokens
  <2>4. CASE Grant(c) \/ Recheck(c) \/ Refused(c) \/ Release(c) \/ Unwind(c) \/ PutFails(c)
    <3>1. \A d \in Callers : hand'[d] \in {0, hand[d]}
      BY <2>4 DEF Grant, Recheck, Refused, Release, Unwind, PutFails, TypeOK
    <3>2. UNCHANGED <<secret, issued>>
      BY <2>4 DEF Grant, Recheck, Refused, Release, Unwind, PutFails, provider
    <3> QED
      BY <1>0, <3>1, <3>2
  <2>5. CASE EnterRefresh(c) \/ CheckDue(c) \/ GiveUp(c) \/ EnterLease(c) \/ Crash(c)
    <3>1. \A d \in Callers : hand'[d] \in {0, hand[d]}
      BY <2>5 DEF EnterRefresh, CheckDue, GiveUp, EnterLease, Crash, TypeOK
    <3>2. UNCHANGED <<secret, issued>>
      BY <2>5 DEF EnterRefresh, CheckDue, GiveUp, EnterLease, Crash, provider
    <3> QED
      BY <1>0, <3>1, <3>2
  <2>6. CASE Fetch(c) \/ Close(c) \/ \E code \in Codes : Begin(c, code)
    <3>1. \A d \in Callers : hand'[d] \in {0, hand[d]} \cup secret
      <4>1. CASE Fetch(c)
        <5>1. \E u \in {0, hand[c]} \cup secret : hand' = [hand EXCEPT ![c] = u]
          BY <4>1 DEF Fetch
        <5> QED
          BY <5>1 DEF TypeOK
      <4>2. CASE Close(c) \/ \E code \in Codes : Begin(c, code)
        <5>1. hand' = [hand EXCEPT ![c] = 0]
          BY <4>2 DEF Close, Begin
        <5> QED
          BY <5>1 DEF TypeOK
      <4> QED
        BY <2>6, <4>1, <4>2
    <3>2. UNCHANGED <<secret, issued>>
      BY <2>6 DEF Fetch, Close, Begin, provider
    <3>3. 0 \in 0..issued /\ \A t \in secret : t \in 0..issued
      BY <1>0
    <3>4. \A d \in Callers : hand'[d] \in 0..issued
      BY <3>1, <3>3
    <3> QED
      BY <3>2, <3>4
  <2> QED
    BY <1>3, <2>1, <2>2, <2>3, <2>4, <2>5, <2>6 DEF Step, Progress
<1>4. CASE UNCHANGED vars
  BY <1>4 DEF vars, provider
<1> QED
  BY <1>1, <1>2, <1>3, <1>4 DEF Next, Environment

\* The last token issued stays the good one, and in one place: whoever presents
\* it gets the next one and stores it, and whoever presents another is refused.
LEMMA LastTokenStep ==
  ASSUME TypeOK, OnlyIssued, faults' = 0, faults = 0 => LastTokenKept, [Next]_vars
  PROVE  LastTokenKept'
<1> USE DEF LastTokenKept
<1>1. CASE Lapse
  BY <1>1 DEF Lapse, provider
<1>2. ASSUME NEW t \in Tokens, Age(t) PROVE LastTokenKept'
  BY <1>2 DEF Age, provider
<1>3. ASSUME NEW c \in Callers, Step(c) PROVE LastTokenKept'
  <2> USE DEF Become, Goto, Return, Raise, RefreshReturns
  <2>1. ~Fault
    BY DEF Fault, TypeOK
  <2>2. CASE Load(c)
    BY <2>2 DEF Load, provider, TypeOK
  <2>3. CASE Exchange(c)
    <3>1. faults = 0 /\ hand[c] = issued /\ at[c] = "call" /\ issued \in Tokens
      BY <2>3 DEF Exchange, Rotate, TypeOK
    <3>2. secret = {issued} /\ \A d \in Callers : at[d] # "put"
      BY <3>1
    <3>3. issued' = issued + 1 /\ honoured' = {issued'}
      BY <2>3, <3>1 DEF Exchange, Rotate
    <3>4. issued' \notin secret'
      BY <2>3, <3>1, <3>2, <3>3 DEF Exchange, Tokens
    <3>5. \A d \in Callers : at'[d] = "put" <=> d = c
      BY <2>3, <3>2 DEF Exchange, TypeOK
    <3>6. hand'[c] = issued'
      BY <2>3, <3>3 DEF Exchange, TypeOK
    <3>7. \A d \in Callers : at'[d] = "call" => hand'[d] # issued'
      <4> SUFFICES ASSUME NEW d \in Callers, at'[d] = "call" PROVE hand'[d] # issued'
        OBVIOUS
      <4>1. d # c /\ hand'[d] = hand[d]
        BY <2>3, <3>5 DEF Exchange, TypeOK
      <4>2. hand[d] \in 0..issued
        BY DEF OnlyIssued
      <4> QED
        BY <3>1, <3>3, <4>1, <4>2 DEF Tokens
    <3> QED
      BY <3>3, <3>4, <3>5, <3>6, <3>7
  <2>4. CASE Put(c)
    BY <2>4 DEF Put, provider, TypeOK
  <2>5. CASE Grant(c) \/ Recheck(c) \/ Refused(c) \/ Release(c) \/ Unwind(c)
    BY <2>5 DEF Grant, Recheck, Refused, Release, Unwind, provider, TypeOK
  <2>6. CASE EnterRefresh(c) \/ CheckDue(c) \/ GiveUp(c) \/ EnterLease(c)
    BY <2>6 DEF EnterRefresh, CheckDue, GiveUp, EnterLease, provider, TypeOK
  <2>7. CASE Fetch(c) \/ Close(c) \/ \E code \in Codes : Begin(c, code)
    BY <2>7 DEF Fetch, Close, Begin, provider, TypeOK
  <2> QED
    BY <1>3, <2>1, <2>2, <2>3, <2>4, <2>5, <2>6, <2>7
       DEF Step, Progress, AnswerLost, PutFails, Crash
<1>4. CASE UNCHANGED vars
  BY <1>4 DEF vars, provider
<1> QED
  BY <1>1, <1>2, <1>3, <1>4 DEF Next, Environment

\* Until something fails or a lease runs out under its holder, the body loads the
\* good token and gets the next one for it, with nobody else between the two.
LEMMA HandHonouredStep ==
  ASSUME TypeOK, BodyOwnsLease, faults' = 0, ~overran',
         faults = 0 => LastTokenKept,
         faults = 0 /\ ~overran => HandHonoured,
         [Next]_vars
  PROVE  HandHonoured'
<1> USE DEF HandHonoured
<1>0. ~overran
  BY OverranStays
<1>1. CASE Lapse
  BY <1>0, <1>1 DEF Lapse, provider
<1>2. ASSUME NEW t \in Tokens, Age(t) PROVE HandHonoured'
  BY <1>0, <1>2 DEF Age, provider
<1>3. ASSUME NEW c \in Callers, Step(c) PROVE HandHonoured'
  <2> USE <1>0 DEF Become, Goto, Return, Raise, RefreshReturns
  <2>1. ~Fault
    BY DEF Fault, TypeOK
  <2>2. at[c] \in Body => \A d \in Callers : at[d] \in Body => d = c
    BY BodyIsExclusive
  <2>3. CASE Load(c)
    <3>1. \A d \in Callers : at[d] # "put"
      BY <2>2, <2>3 DEF Load, Body
    <3>2. secret \subseteq honoured /\ faults = 0
      BY <2>3, <3>1 DEF Load, LastTokenKept
    <3> QED
      BY <2>3, <3>2 DEF Load, provider, TypeOK
  <2>4. CASE Exchange(c)
    <3>1. hand'[c] \in honoured' /\ at'[c] = "put"
      BY <2>4 DEF Exchange, Rotate, TypeOK
    <3>2. \A d \in Callers : at'[d] \in {"call", "put"} => d = c
      BY <2>2, <2>4 DEF Exchange, Body, TypeOK
    <3> QED
      BY <3>1, <3>2
  <2>5. CASE Put(c)
    BY <2>5 DEF Put, provider, TypeOK
  <2>6. CASE Grant(c) \/ Recheck(c) \/ Refused(c) \/ Release(c) \/ Unwind(c)
    BY <2>6 DEF Grant, Recheck, Refused, Release, Unwind, provider, TypeOK
  <2>7. CASE EnterRefresh(c) \/ CheckDue(c) \/ GiveUp(c) \/ EnterLease(c)
    BY <2>7 DEF EnterRefresh, CheckDue, GiveUp, EnterLease, provider, TypeOK
  <2>8. CASE Fetch(c) \/ Close(c) \/ \E code \in Codes : Begin(c, code)
    BY <2>8 DEF Fetch, Close, Begin, provider, TypeOK
  <2> QED
    BY <1>3, <2>1, <2>3, <2>4, <2>5, <2>6, <2>7, <2>8
       DEF Step, Progress, AnswerLost, PutFails, Crash
<1>4. CASE UNCHANGED vars
  BY <1>0, <1>4 DEF vars, provider
<1> QED
  BY <1>1, <1>2, <1>3, <1>4 DEF Next, Environment

\* The store keeps one material under the profile's reference.
LEMMA OneSecretStep ==
  ASSUME OneSecret, [Next]_vars
  PROVE  OneSecret'
<1>1. \/ UNCHANGED secret
      \/ \E c \in Callers : secret' = {hand[c]}
  BY DEF Next, Environment, Step, Progress, Begin, EnterRefresh, CheckDue, Grant, GiveUp,
         Recheck, Load, Exchange, Refused, AnswerLost, Put, PutFails, Unwind, Release,
         EnterLease, Fetch, Close, Crash, Lapse, Age, vars
<1> QED
  BY <1>1 DEF OneSecret

\* What is due stays due until somebody in the body replaces it, so a token is
\* never presented while it is fresh.
LEMMA DueStep ==
  ASSUME TypeOK, OneSecret, ~overran', ~overran => BodyOwnsLease /\ DueUnderLease,
         NoRequestForFreshToken, [Next]_vars
  PROVE  DueUnderLease' /\ NoRequestForFreshToken'
<1>0. ~overran /\ BodyOwnsLease /\ DueUnderLease
  BY OverranStays
<1> USE <1>0 DEF DueUnderLease, NoRequestForFreshToken, Due
<1>1. CASE Lapse
  BY <1>1 DEF Lapse
<1>2. ASSUME NEW t \in Tokens, Age(t) PROVE DueUnderLease' /\ NoRequestForFreshToken'
  <2>1. \A u \in Tokens : age[u] # "fresh" => age'[u] # "fresh"
    BY <1>2 DEF Age, TypeOK
  <2>2. UNCHANGED <<secret, at, op, hand>>
    BY <1>2 DEF Age
  <2>3. secret \subseteq Tokens
    BY DEF TypeOK
  <2>4. \A c \in Callers : at[c] = "call" => hand[c] \in Tokens
    BY DEF TypeOK
  <2> QED
    BY <2>1, <2>2, <2>3, <2>4
<1>3. ASSUME NEW c \in Callers, Step(c) PROVE DueUnderLease' /\ NoRequestForFreshToken'
  <2> USE DEF Become, Goto, Return, Raise, RefreshReturns
  <2>1. at[c] \in Body => \A d \in Callers : at[d] \in Body => d = c
    BY BodyIsExclusive
  <2>2. CASE Grant(c) \/ Recheck(c)
    BY <2>2 DEF Grant, Recheck, TypeOK
  <2>3. CASE Load(c)
    <3>1. \A t \in secret : Due => age[t] # "fresh"
      BY DEF OneSecret
    <3>2. \A t \in secret : Expired => age[t] # "fresh"
      BY DEF OneSecret, Expired
    <3> HIDE DEF Due
    <3>3. DueUnderLease'
      BY <2>3, Due' <=> Due DEF Load, TypeOK, Due
    <3>4. NoRequestForFreshToken'
      BY <2>3, <3>1, <3>2 DEF Load, TypeOK
    <3> QED
      BY <3>3, <3>4
  <2>4. CASE Put(c)
    <3>1. \A d \in Callers : at'[d] \notin {"load", "call"}
      BY <2>1, <2>4 DEF Put, Body, TypeOK
    <3> QED
      BY <3>1
  <2>5. CASE Exchange(c) \/ Refused(c) \/ AnswerLost(c) \/ PutFails(c)
    BY <2>5 DEF Exchange, Refused, AnswerLost, PutFails, TypeOK
  <2>6. CASE Release(c) \/ Unwind(c) \/ Crash(c)
    BY <2>6 DEF Release, Unwind, Crash, TypeOK
  <2>7. CASE EnterRefresh(c) \/ CheckDue(c) \/ GiveUp(c) \/ EnterLease(c)
    BY <2>7 DEF EnterRefresh, CheckDue, GiveUp, EnterLease, TypeOK
  <2>8. CASE Fetch(c) \/ Close(c) \/ \E code \in Codes : Begin(c, code)
    BY <2>8 DEF Fetch, Close, Begin, TypeOK
  <2> QED
    BY <1>3, <2>2, <2>3, <2>4, <2>5, <2>6, <2>7, <2>8 DEF Step, Progress
<1>4. CASE UNCHANGED vars
  BY <1>4 DEF vars
<1> QED
  BY <1>1, <1>2, <1>3, <1>4 DEF Next, Environment

-----------------------------------------------------------------------------
(* The theorems.                                                           *)

LEMMA InitIInv == ASSUME Init PROVE IInv
<1>1. TypeOK
  BY InitType
<1> QED
  BY <1>1 DEF Init, IInv, OneSecret, LeaseGivenBack, BodyOwnsLease, DueUnderLease,
              NoRequestForFreshToken, HandHonoured, OnlyIssued, LastTokenKept, Body, Tokens

LEMMA StepIInv == ASSUME IInv, [Next]_vars PROVE IInv'
<1> USE DEF IInv
<1>1. TypeOK' /\ OneSecret' /\ LeaseGivenBack' /\ OnlyIssued'
  BY TypeStep, OneSecretStep, GivenBackStep, OnlyIssuedStep
<1>2. ASSUME ~overran' PROVE (BodyOwnsLease /\ DueUnderLease)'
  BY <1>2, BodyOwnsLeaseStep, DueStep
<1>3. NoRequestForFreshToken'
  <2>1. CASE overran'
    BY <2>1 DEF NoRequestForFreshToken
  <2>2. CASE ~overran'
    BY <2>2, DueStep
  <2> QED
    BY <2>1, <2>2
<1>4. ASSUME faults' = 0 PROVE LastTokenKept'
  BY <1>4, LastTokenStep
<1>5. ASSUME faults' = 0, ~overran' PROVE HandHonoured'
  <2>1. BodyOwnsLease
    BY <1>5, OverranStays
  <2> QED
    BY <1>5, <2>1, HandHonouredStep
<1> QED
  BY <1>1, <1>2, <1>3, <1>4, <1>5

\* The inductive invariant holds in every reachable state.
THEOREM RefreshInvariant == Spec => []IInv
<1>1. Init => IInv
  BY InitIInv
<1>2. IInv /\ [Next]_vars => IInv'
  BY StepIInv
<1> QED
  BY <1>1, <1>2, PTL DEF Spec

\* Whatever fails and however long a body takes, only a call that is inside its
\* body or died there owns the lease.
THEOREM LeaseAlwaysGivenBack == Spec => []LeaseGivenBack
<1>1. IInv => LeaseGivenBack
  BY DEF IInv
<1> QED
  BY <1>1, RefreshInvariant, PTL

\* Until a lease runs out under its holder, two calls never refresh at the same
\* time, in the broker, in AuthBroker or across the two, whatever else fails.
THEOREM RefreshExclusion == Spec => []OneRefreshAtATime
<1>1. IInv => OneRefreshAtATime
  BY BodyIsExclusive DEF IInv, OneRefreshAtATime, Refreshing, Body
<1> QED
  BY <1>1, RefreshInvariant, PTL

\* Until a lease runs out under its holder, a token request is made only for a
\* material that is due: the loser of a race asks for nothing.
THEOREM OnlyDueRefreshed == Spec => []NoRequestForFreshToken
<1>1. IInv => NoRequestForFreshToken
  BY DEF IInv
<1> QED
  BY <1>1, RefreshInvariant, PTL

\* Until something fails or a lease runs out under its holder, the provider is
\* never shown a spent refresh token.
THEOREM SpentTokensStayHidden == Spec => []NoSpentTokenPresented
<1>1. IInv => NoSpentTokenPresented
  BY DEF IInv, HandHonoured, NoSpentTokenPresented
<1> QED
  BY <1>1, RefreshInvariant, PTL

\* Until something fails, the stored material can be refreshed or is about to be
\* replaced by one that can, even when leases run out under slow calls.
THEOREM ProfileNotStranded == Spec => []StoredTokenHonoured
<1>1. IInv => StoredTokenHonoured
  BY DEF IInv, LastTokenKept, StoredTokenHonoured
<1> QED
  BY <1>1, RefreshInvariant, PTL

-----------------------------------------------------------------------------
(* The profile's administration.                                           *)

\* A sign-in's token is issued as a refresh's is.
LEMMA AuthorizeType ==
  ASSUME LifeTypeOK, NEW a \in Admins, Authorize(a)
  PROVE  /\ issued \in Nat /\ issued + 1 \in Tokens /\ issued' = issued + 1
         /\ honoured' \in SUBSET (1..issued')
<1>1. issued \in 1..MaxTokens /\ issued < MaxTokens /\ honoured \in SUBSET (1..issued)
  BY DEF LifeTypeOK, TypeOK, Authorize, Tokens
<1>2. 1..issued \subseteq 1..(issued + 1) /\ issued + 1 \in 1..(issued + 1)
  BY <1>1, RefreshAssumption
<1> QED
  BY <1>1, <1>2, RefreshAssumption DEF Authorize, Tokens

\* The admin's own state, before its next step.
LEMMA ProceedType ==
  ASSUME LifeTypeOK, NEW a \in Admins, NEW what \in Doings, NEW token \in Tokens \cup {0},
         NEW rows \in SUBSET [enabled : BOOLEAN, login : Tokens],
         what \in {"store", "record"} => token \in Tokens,
         Proceed(a, what, rows, token)
  PROVE  /\ doing' \in [Admins -> Doings]
         /\ row' \in [Admins -> SUBSET [enabled : BOOLEAN, login : Tokens]]
         /\ fresh' \in [Admins -> Tokens \cup {0}]
         /\ \A b \in Admins : doing'[b] \in {"store", "record"} => fresh'[b] \in Tokens
BY DEF LifeTypeOK, Proceed

LEMMA LifeTypeStep == ASSUME LifeTypeOK, [LifeNext]_lifeVars PROVE LifeTypeOK'
<1> DEFINE AdminType == /\ doing' \in [Admins -> Doings]
                        /\ row' \in [Admins -> SUBSET [enabled : BOOLEAN, login : Tokens]]
                        /\ fresh' \in [Admins -> Tokens \cup {0}]
                        /\ \A b \in Admins : doing'[b] \in {"store", "record"} => fresh'[b] \in Tokens
           Rows == [enabled : BOOLEAN, login : Tokens]
<1>1. CASE [Next]_vars /\ UNCHANGED adminVars
  BY <1>1, TypeStep DEF LifeTypeOK, adminVars
<1>2. ASSUME NEW a \in Admins, AdminStep(a) PROVE LifeTypeOK'
  <2>0. /\ TypeOK /\ doing[a] \in Doings /\ row[a] \in SUBSET Rows /\ fresh[a] \in Tokens \cup {0}
        /\ doing[a] \in {"store", "record"} => fresh[a] \in Tokens
        /\ profile \in SUBSET Rows
    BY DEF LifeTypeOK, TypeOK
  <2> USE DEF Done, UnchangedCalls
  <2>1. CASE Authorize(a)
    <3>1. issued + 1 \in Tokens /\ issued' = issued + 1 /\ honoured' \in SUBSET (1..issued')
      BY <2>1, AuthorizeType
    <3>2. AdminType
      BY <2>1, <3>1, ProceedType DEF Authorize, Doings
    <3> QED
      BY <2>0, <2>1, <3>1, <3>2 DEF Authorize, LifeTypeOK, TypeOK
  <2>2. CASE StoreSecret(a)
    <3>1. AdminType
      BY <2>0, <2>2, ProceedType DEF StoreSecret, Doings
    <3> QED
      BY <2>0, <2>2, <3>1 DEF StoreSecret, provider, LifeTypeOK, TypeOK
  <2>3. CASE RecordProfile(a)
    <3>1. AdminType
      BY <2>3, ProceedType DEF RecordProfile, Doings
    <3>2. profile' \in SUBSET Rows
      BY <2>0, <2>3 DEF RecordProfile
    <3> QED
      BY <2>0, <2>3, <3>1, <3>2 DEF RecordProfile, provider, LifeTypeOK, TypeOK
  <2>4. ASSUME NEW task, NEW what \in {"forget", "enable", "disable", "probe"}, Read(a, task, what)
        PROVE  LifeTypeOK'
    <3>1. AdminType
      BY <2>0, <2>4, ProceedType DEF Read, Doings
    <3> QED
      BY <2>0, <2>4, <3>1 DEF Read, provider, LifeTypeOK, TypeOK
  <2>5. CASE ForgetSecret(a)
    <3>1. AdminType
      BY <2>0, <2>5, ProceedType DEF ForgetSecret, Doings
    <3> QED
      BY <2>0, <2>5, <3>1 DEF ForgetSecret, provider, LifeTypeOK, TypeOK
  <2>6. CASE EraseProfile(a)
    <3>1. AdminType
      BY <2>6, ProceedType DEF EraseProfile, Doings
    <3> QED
      BY <2>0, <2>6, <3>1 DEF EraseProfile, provider, LifeTypeOK, TypeOK
  <2>7. CASE WriteEnabled(a)
    <3>1. AdminType
      BY <2>7, ProceedType DEF WriteEnabled, Doings
    <3>2. profile' \in SUBSET Rows
      BY <2>0, <2>7 DEF WriteEnabled
    <3> QED
      BY <2>0, <2>7, <3>1, <3>2 DEF WriteEnabled, provider, LifeTypeOK, TypeOK
  <2>8. CASE RecordProbe(a)
    <3>1. AdminType
      BY <2>8, ProceedType DEF RecordProbe, Doings
    <3> QED
      BY <2>0, <2>8, <3>1 DEF RecordProbe, provider, LifeTypeOK, TypeOK
  <2>9. CASE AdminCrash(a)
    <3>1. AdminType
      BY <2>9, ProceedType DEF AdminCrash, Doings
    <3>2. faults' \in 0..MaxFaults
      BY <2>0, <2>9, FaultType DEF AdminCrash
    <3> QED
      BY <2>0, <2>9, <3>1, <3>2 DEF AdminCrash, provider, LifeTypeOK, TypeOK
  <2> QED
    BY <1>2, <2>1, <2>2, <2>3, <2>4, <2>5, <2>6, <2>7, <2>8, <2>9 DEF AdminStep
<1> QED
  BY <1>1, <1>2 DEF LifeNext, lifeVars, vars

\* What administration does to tokens: a sign-in obtains one, stores it and forgets it;
\* a sign-out empties the store.  The calls and their lease it leaves alone.
LEMMA AdminShape ==
  ASSUME LifeTypeOK, NEW a \in Admins, AdminStep(a)
  PROVE  /\ UNCHANGED <<holders, at, op, hand, overran, age>>
         /\ \/ /\ issued' = issued + 1 /\ honoured' = honoured \cup {issued + 1}
               /\ UNCHANGED secret
               /\ doing' = [doing EXCEPT ![a] = "store"]
               /\ fresh' = [fresh EXCEPT ![a] = issued + 1]
            \/ /\ doing[a] = "store" /\ secret' = {fresh[a]}
               /\ doing' = [doing EXCEPT ![a] = "record"]
               /\ UNCHANGED <<issued, honoured, fresh>>
            \/ /\ \E what \in Doings \ {"store", "record"} : doing' = [doing EXCEPT ![a] = what]
               /\ fresh' = [fresh EXCEPT ![a] = 0]
               /\ secret' \in {secret, {}}
               /\ UNCHANGED <<issued, honoured>>
<1> USE DEF Proceed, Done, UnchangedCalls, Doings, provider
<1>1. CASE Authorize(a)
  BY <1>1 DEF Authorize
<1>2. CASE StoreSecret(a)
  <2>1. fresh' = fresh
    BY <1>2 DEF StoreSecret, LifeTypeOK
  <2> QED
    BY <1>2, <2>1 DEF StoreSecret
<1>3. CASE RecordProfile(a) \/ ForgetSecret(a) \/ EraseProfile(a)
  BY <1>3 DEF RecordProfile, ForgetSecret, EraseProfile
<1>4. CASE WriteEnabled(a) \/ RecordProbe(a) \/ AdminCrash(a)
  BY <1>4 DEF WriteEnabled, RecordProbe, AdminCrash
<1>5. ASSUME NEW task, NEW what \in {"forget", "enable", "disable", "probe"}, Read(a, task, what)
      PROVE  /\ UNCHANGED <<holders, at, op, hand, overran, age, secret, issued, honoured>>
             /\ doing' = [doing EXCEPT ![a] = what] /\ fresh' = [fresh EXCEPT ![a] = 0]
  BY <1>5 DEF Read
<1> QED
  BY <1>1, <1>2, <1>3, <1>4, <1>5 DEF AdminStep

LEMMA NoneEarlyStep == ASSUME LifeTypeOK, NoneEarly, [LifeNext]_lifeVars PROVE NoneEarly'
<1>0. issued \in Nat /\ issued' \in Nat
  <2>1. issued \in Tokens /\ issued' \in Tokens
    BY LifeTypeStep DEF LifeTypeOK, TypeOK
  <2> QED
    BY <2>1, RefreshAssumption DEF Tokens
<1>1. CASE [Next]_vars /\ UNCHANGED adminVars
  <2>1. OnlyIssued'
    BY <1>1, OnlyIssuedStep DEF LifeTypeOK, NoneEarly
  <2>2. issued <= issued'
    BY <1>0, <1>1 DEF Next, Environment, Step, Progress, Begin, EnterRefresh, CheckDue, Grant,
       GiveUp, Recheck, Load, Exchange, Refused, AnswerLost, Put, PutFails, Unwind, Release,
       EnterLease, Fetch, Close, Crash, Lapse, Age, Rotate, provider, vars
  <2> QED
    BY <1>0, <1>1, <2>1, <2>2 DEF NoneEarly, adminVars
<1>2. ASSUME NEW a \in Admins, AdminStep(a) PROVE NoneEarly'
  <2>1. /\ hand' = hand /\ issued' \in {issued, issued + 1}
        /\ secret' \in {secret, {}} \/ (doing[a] = "store" /\ secret' = {fresh[a]})
        /\ \E token \in {0, issued', fresh[a]} : fresh' = [fresh EXCEPT ![a] = token]
    BY <1>2, AdminShape DEF LifeTypeOK
  <2>2. fresh[a] \in 0..issued /\ (doing[a] = "store" => fresh[a] \in Tokens)
    BY DEF NoneEarly, LifeTypeOK
  <2>3. secret' \subseteq 1..issued'
    <3>1. secret \subseteq 1..issued /\ 1..issued \subseteq 1..issued'
      BY <1>0, <2>1 DEF NoneEarly, OnlyIssued
    <3>2. doing[a] = "store" => fresh[a] \in 1..issued
      BY <1>0, <2>2, RefreshAssumption DEF Tokens
    <3> QED
      BY <2>1, <3>1, <3>2
  <2>4. \A c \in Callers : hand'[c] \in 0..issued'
    BY <1>0, <2>1 DEF NoneEarly, OnlyIssued
  <2>5. \A b \in Admins : fresh'[b] \in 0..issued'
    BY <1>0, <2>1, <2>2 DEF NoneEarly, LifeTypeOK
  <2> QED
    BY <2>3, <2>4, <2>5 DEF NoneEarly, OnlyIssued
<1> QED
  BY <1>1, <1>2 DEF LifeNext, lifeVars, vars

\* What a step of a call does to tokens, as long as nothing fails: it loads the stored one,
\* exchanges the one in hand, stores it, or goes elsewhere.
LEMMA TokenShape ==
  ASSUME TypeOK, faults' = 0, NEW c \in Callers, Step(c)
  PROVE  /\ \E to \in Places : at' = [at EXCEPT ![c] = to]
         /\ \/ /\ at'[c] = "call" /\ at[c] = "load"
               /\ \E t \in secret : hand' = [hand EXCEPT ![c] = t]
               /\ UNCHANGED <<secret, issued, honoured>>
            \/ /\ at'[c] = "put" /\ at[c] = "call"
               /\ hand[c] \in honoured /\ honoured' = (honoured \ {hand[c]}) \cup {issued + 1}
               /\ hand' = [hand EXCEPT ![c] = issued + 1] /\ issued' = issued + 1
               /\ UNCHANGED secret
            \/ /\ at'[c] = "release" /\ at[c] = "put" /\ secret' = {hand[c]}
               /\ \E t \in {hand[c], 0} : hand' = [hand EXCEPT ![c] = t]
               /\ UNCHANGED <<issued, honoured>>
            \/ /\ at'[c] \notin {"call", "put"} /\ at[c] # "put"
               /\ \E t : hand' = [hand EXCEPT ![c] = t]
               /\ UNCHANGED <<secret, issued, honoured>>
<1> USE DEF Become, Goto, Return, Raise, RefreshReturns, provider
<1>0. ~Fault /\ at \in [Callers -> Places]
  BY DEF Fault, TypeOK
<1>a. /\ Body \cup {"idle", "enter", "due", "wait", "auth", "fetch", "leased", "dead"} = Places
      /\ {"call", "put", "release"} \subseteq Body
      /\ \A to \in Places : at' = [at EXCEPT ![c] = to] => at'[c] = to
  BY <1>0 DEF Places, Body
<1>1. CASE Load(c)
  <2>1. CASE secret = {}
    BY <1>0, <1>1, <1>a, <2>1 DEF Load, Body
  <2>2. CASE \E t \in secret : \E to \in {"release", "call"} :
               at' = [at EXCEPT ![c] = to] /\ hand' = [hand EXCEPT ![c] = t]
    <3>1. at[c] = "load" /\ UNCHANGED <<secret, issued, honoured>>
      BY <1>1 DEF Load
    <3>2. PICK t \in secret, to \in {"release", "call"} :
            at' = [at EXCEPT ![c] = to] /\ hand' = [hand EXCEPT ![c] = t]
      BY <2>2
    <3>3. to \in Places /\ at'[c] = to
      BY <1>0, <1>a, <3>2
    <3> QED
      BY <3>1, <3>2, <3>3
  <2> QED
    BY <1>1, <2>1, <2>2 DEF Load
<1>2. CASE Exchange(c)
  BY <1>0, <1>2, <1>a DEF Exchange, Rotate
<1>3. CASE Put(c)
  BY <1>0, <1>3, <1>a DEF Put
<1>4. CASE Grant(c) \/ Recheck(c) \/ Refused(c) \/ Release(c) \/ Unwind(c)
  BY <1>0, <1>4, <1>a DEF Grant, Recheck, Refused, Release, Unwind, Body
<1>5. CASE EnterRefresh(c) \/ CheckDue(c) \/ GiveUp(c) \/ EnterLease(c)
  BY <1>0, <1>5, <1>a DEF EnterRefresh, CheckDue, GiveUp, EnterLease
<1>6. CASE Fetch(c) \/ Close(c) \/ \E code \in Codes : Begin(c, code)
  BY <1>0, <1>6, <1>a DEF Fetch, Close, Begin
<1> QED
  BY <1>0, <1>1, <1>2, <1>3, <1>4, <1>5, <1>6
     DEF Step, Progress, AnswerLost, PutFails, Crash

\* Whatever is stored next, by a refresh or a sign-in, is good, and no one else has it.
LEMMA TokensKeptStep ==
  ASSUME LifeTypeOK, NoneEarly, faults' = 0, faults = 0 => TokensKept, [LifeNext]_lifeVars
  PROVE  TokensKept'
<1>0. /\ TypeOK /\ issued \in Nat /\ honoured \subseteq 1..issued /\ secret \subseteq 1..issued
      /\ at \in [Callers -> Places] /\ hand \in [Callers -> 0..issued]
      /\ doing \in [Admins -> Doings] /\ fresh \in [Admins -> 0..issued]
      /\ issued + 1 \notin 0..issued /\ issued + 1 \notin 1..issued
  <2>1. issued \in Nat
    BY RefreshAssumption DEF LifeTypeOK, TypeOK, Tokens
  <2>2. hand \in [Callers -> 0..issued] /\ fresh \in [Admins -> 0..issued]
    BY DEF LifeTypeOK, TypeOK, NoneEarly, OnlyIssued
  <2> QED
    BY <2>1, <2>2 DEF LifeTypeOK, TypeOK, NoneEarly, OnlyIssued
<1> USE DEF TokensKept, Unstored
<1>1. CASE UNCHANGED <<at, hand, secret, issued, honoured, doing, fresh, faults>>
  BY <1>1
<1>2. ASSUME NEW c \in Callers, Step(c), UNCHANGED adminVars, faults = 0 PROVE TokensKept'
  <2>0. /\ \A d \in Callers \ {c} : at'[d] = at[d] /\ hand'[d] = hand[d]
        /\ doing' = doing /\ fresh' = fresh
    BY <1>0, <1>2, TokenShape DEF adminVars
  <2>1. CASE /\ at'[c] = "call" /\ \E t \in secret : hand' = [hand EXCEPT ![c] = t]
             /\ at[c] = "load" /\ UNCHANGED <<secret, issued, honoured>>
    BY <1>0, <1>2, <2>0, <2>1
  <2>2. CASE /\ at'[c] = "put" /\ at[c] = "call"
             /\ hand[c] \in honoured /\ honoured' = (honoured \ {hand[c]}) \cup {issued + 1}
             /\ hand' = [hand EXCEPT ![c] = issued + 1] /\ issued' = issued + 1
             /\ UNCHANGED secret
    BY <1>0, <1>2, <2>0, <2>2
  <2>3. CASE /\ at'[c] = "release" /\ at[c] = "put" /\ secret' = {hand[c]}
             /\ \E t \in {hand[c], 0} : hand' = [hand EXCEPT ![c] = t]
             /\ UNCHANGED <<issued, honoured>>
    BY <1>0, <1>2, <2>0, <2>3
  <2>4. CASE /\ at'[c] \notin {"call", "put"} /\ at[c] # "put"
             /\ UNCHANGED <<secret, issued, honoured>>
    BY <1>0, <1>2, <2>0, <2>4
  <2> QED
    BY <1>0, <1>2, <2>1, <2>2, <2>3, <2>4, TokenShape
<1>3. ASSUME NEW a \in Admins, AdminStep(a), faults = 0 PROVE TokensKept'
  <2>1. UNCHANGED <<at, hand>>
    BY <1>3, AdminShape
  <2>2. CASE /\ issued' = issued + 1 /\ honoured' = honoured \cup {issued + 1}
             /\ UNCHANGED secret
             /\ doing' = [doing EXCEPT ![a] = "store"]
             /\ fresh' = [fresh EXCEPT ![a] = issued + 1]
    BY <1>0, <1>3, <2>1, <2>2
  <2>3. CASE /\ doing[a] = "store" /\ secret' = {fresh[a]}
             /\ doing' = [doing EXCEPT ![a] = "record"]
             /\ UNCHANGED <<issued, honoured, fresh>>
    BY <1>0, <1>3, <2>1, <2>3
  <2>4. CASE /\ \E what \in Doings \ {"store", "record"} : doing' = [doing EXCEPT ![a] = what]
             /\ fresh' = [fresh EXCEPT ![a] = 0]
             /\ secret' \in {secret, {}}
             /\ UNCHANGED <<issued, honoured>>
    BY <1>0, <1>3, <2>1, <2>4
  <2> QED
    BY <1>3, <2>2, <2>3, <2>4, AdminShape
<1>4. CASE Environment /\ UNCHANGED adminVars
  BY <1>1, <1>4 DEF Environment, Lapse, Age, provider, adminVars
<1>5. faults = 0 \/ faults' # 0
  BY <1>0 DEF LifeNext, AdminStep, Authorize, StoreSecret, RecordProfile, Read, ForgetSecret,
     EraseProfile, WriteEnabled, RecordProbe, AdminCrash, Fault, Next, Environment, Step, Progress,
     Begin, EnterRefresh, CheckDue, Grant, GiveUp, Recheck, Load, Exchange, Refused, AnswerLost,
     Put, PutFails, Unwind, Release, EnterLease, Fetch, Close, Crash, Lapse, Age, TypeOK,
     lifeVars, vars
<1> QED
  BY <1>1, <1>2, <1>3, <1>4, <1>5 DEF LifeNext, Next, lifeVars, vars, adminVars, provider

LEMMA InitLifeIInv == ASSUME LifeInit PROVE LifeIInv
<1>1. TypeOK /\ OnlyIssued
  BY InitType, InitIInv DEF LifeInit, IInv
<1>2. LifeTypeOK
  BY <1>1 DEF LifeInit, LifeTypeOK, Doings
<1>3. NoneEarly
  BY <1>1, RefreshAssumption DEF LifeInit, Init, NoneEarly
<1>4. TokensKept
  BY DEF LifeInit, Init, TokensKept
<1> QED
  BY <1>2, <1>3, <1>4 DEF LifeIInv

\* With one admin at a time, a row stands only with its secret or amid a sign-out.
LEMMA RowIInvStep ==
  ASSUME OneAdmin, LifeTypeOK, RowIInv, [LifeNext]_lifeVars
  PROVE  RowIInv'
<1> USE DEF RowIInv, RowHasSecret, RowSettled, HalfSignedOut
<1>1. CASE [Next]_vars /\ UNCHANGED adminVars
  <2>1. UNCHANGED <<profile, secret>> \/ (UNCHANGED profile /\ secret' # {})
    BY <1>1 DEF Next, Environment, Step, Progress, Begin, EnterRefresh, CheckDue, Grant,
       GiveUp, Recheck, Load, Exchange, Refused, AnswerLost, Put, PutFails, Unwind, Release,
       EnterLease, Fetch, Close, Crash, Lapse, Age, vars
  <2> QED
    BY <1>1, <2>1 DEF adminVars
<1>2. ASSUME NEW a \in Admins, AdminStep(a) PROVE RowIInv'
  <2>0. /\ \A b \in Admins : b = a
        /\ doing \in [Admins -> Doings]
        /\ row \in [Admins -> SUBSET [enabled : BOOLEAN, login : Tokens]]
    BY DEF OneAdmin, LifeTypeOK
  <2> USE <2>0 DEF Proceed, Done
  <2>1. CASE Authorize(a) \/ AdminCrash(a)
    BY <2>1 DEF Authorize, AdminCrash
  <2>2. CASE StoreSecret(a)
    BY <2>2 DEF StoreSecret
  <2>3. CASE RecordProfile(a)
    BY <2>3 DEF RecordProfile
  <2>4. ASSUME NEW task, NEW what \in {"forget", "enable", "disable", "probe"}, Read(a, task, what)
        PROVE  RowIInv'
    BY <2>4 DEF Read
  <2>5. CASE ForgetSecret(a) \/ EraseProfile(a)
    BY <2>5 DEF ForgetSecret, EraseProfile
  <2>6. CASE WriteEnabled(a)
    BY <2>6 DEF WriteEnabled
  <2>7. CASE RecordProbe(a)
    BY <2>7 DEF RecordProbe
  <2> QED
    BY <1>2, <2>1, <2>2, <2>3, <2>4, <2>5, <2>6, <2>7 DEF AdminStep
<1> QED
  BY <1>1, <1>2 DEF LifeNext, lifeVars, vars

\* Administration leaves the lease and the body under it alone.
LEMMA BodyOwnsLeaseLife ==
  ASSUME LifeTypeOK, ~overran => BodyOwnsLease, [LifeNext]_lifeVars
  PROVE  ~overran' => BodyOwnsLease'
<1>1. CASE [Next]_vars /\ UNCHANGED adminVars
  BY <1>1, BodyOwnsLeaseStep DEF LifeTypeOK
<1>2. ASSUME NEW a \in Admins, AdminStep(a) PROVE ~overran' => BodyOwnsLease'
  BY <1>2, AdminShape DEF BodyOwnsLease
<1> QED
  BY <1>1, <1>2 DEF LifeNext, lifeVars, vars

\* The invariant of calls and any number of admins: types, and each token about to be
\* stored is good and the only copy, until something fails.
THEOREM LifecycleInvariant == LifeSpec => []LifeIInv
<1>1. LifeInit => LifeIInv
  BY InitLifeIInv
<1>2. LifeIInv /\ [LifeNext]_lifeVars => LifeIInv'
  BY LifeTypeStep, NoneEarlyStep, TokensKeptStep DEF LifeIInv
<1> QED
  BY <1>1, <1>2, PTL DEF LifeSpec

\* However many people sign in and out, enable, disable and probe among the refreshes,
\* what is stored can be refreshed, or is about to be replaced by what can.
THEOREM AdministeredTokenHonoured == LifeSpec => []StoredTokenHonoured
<1>1. LifeIInv => StoredTokenHonoured
  BY DEF LifeIInv, TokensKept, StoredTokenHonoured
<1> QED
  BY <1>1, LifecycleInvariant, PTL

\* Nor does any of them let two calls refresh at the same time.
THEOREM AdministeredExclusion == LifeSpec => []OneRefreshAtATime
<1>1. LifeInit => (~overran => BodyOwnsLease)
  BY DEF LifeInit, Init, BodyOwnsLease, Body
<1>2. LifeTypeOK /\ (~overran => BodyOwnsLease) /\ [LifeNext]_lifeVars
      => (~overran => BodyOwnsLease)'
  BY BodyOwnsLeaseLife
<1>3. (~overran => BodyOwnsLease) => OneRefreshAtATime
  BY BodyIsExclusive DEF OneRefreshAtATime, Refreshing, Body
<1>4. LifeIInv => LifeTypeOK
  BY DEF LifeIInv
<1> QED
  BY <1>1, <1>2, <1>3, <1>4, LifecycleInvariant, PTL DEF LifeSpec

\* With one admin at a time, neither a sign-in that dies halfway, nor a refresh that
\* fails, nor a sign-out amid refreshes leaves a profile without its secret.
THEOREM ProfileKeepsSecret == ASSUME OneAdmin PROVE LifeSpec => []RowHasSecret
<1>1. LifeInit => RowIInv
  BY DEF LifeInit, Init, RowIInv, RowHasSecret, RowSettled
<1>2. LifeTypeOK /\ RowIInv /\ [LifeNext]_lifeVars => RowIInv'
  BY RowIInvStep
<1>3. LifeIInv => LifeTypeOK
  BY DEF LifeIInv
<1>4. RowIInv => RowHasSecret
  BY DEF RowIInv
<1> QED
  BY <1>1, <1>2, <1>3, <1>4, LifecycleInvariant, PTL DEF LifeSpec

=============================================================================
