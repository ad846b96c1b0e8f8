------------------------- MODULE DeviceSignInProofs -------------------------
(***************************************************************************)
(* DeviceSignIn for every lifetime, interval, backoff and timeout: the     *)
(* driver gives up neither before the provider nor long after, polls no    *)
(* faster than it is told, and misses no approval but a late one.          *)
(***************************************************************************)
EXTENDS DeviceSignIn, TLAPS

-----------------------------------------------------------------------------
(* The inductive invariant.                                                *)

LEMMA InitIInv == ASSUME Init PROVE IInv
<1> USE DEF Init
<1>1. TypeOK
  <2>1. secret \in BOOLEAN /\ redeemed \in BOOLEAN /\ polled \in BOOLEAN
    BY Zenon
  <2>2. /\ now \in Nat /\ asked \in Nat /\ expires_at \in Nat /\ interval \in Nat /\ wake \in Nat
        /\ validUntil \in Nat /\ demand \in Nat /\ earliest \in Nat /\ approvedAt \in Nat
        /\ slows \in 0..MaxSlow
    BY DeviceAssumption
  <2>3. /\ at \in Places /\ reply \in Replies /\ user \in {"open", "approved", "denied"}
    BY DEF Places, Replies
  <2> QED
    BY <2>1, <2>2, <2>3 DEF TypeOK
<1>2. AnswerInPlace
  BY DEF AnswerInPlace
<1>3. ExpiryNotBefore /\ IntervalKept /\ ApprovedSincePoll /\ OnlyLateApprovalMissed
  BY DEF ExpiryNotBefore, IntervalKept, ApprovedSincePoll, OnlyLateApprovalMissed
<1>4. PollsBetween /\ PollsPaced
  BY DEF PollsBetween, PollsPaced
<1> QED
  BY <1>1, <1>2, <1>3, <1>4 DEF IInv

LEMMA StepIInv == ASSUME IInv, Next PROVE IInv'
<1> USE DeviceAssumption
    DEF IInv, TypeOK, Places, Ended, Replies, AnswerInPlace, ExpiryNotBefore, IntervalKept,
        PollsBetween, ApprovedSincePoll, PollsPaced, OnlyLateApprovalMissed, driver, provider
<1>1. CASE Begin
  BY <1>1 DEF Begin
<1>2. CASE Issue
  BY <1>2 DEF Issue
<1>3. CASE Show
  BY <1>3 DEF Show
<1>4. CASE Advance
  BY <1>4 DEF Advance
<1>5. CASE PollDevice
  <2>1. TypeOK'
    BY <1>5 DEF PollDevice
  <2>2. AnswerInPlace' /\ ExpiryNotBefore'
    BY <1>5 DEF PollDevice
  <2>3. IntervalKept' /\ PollsPaced'
    BY <1>5 DEF PollDevice
  <2>4. PollsBetween'
    BY <1>5 DEF PollDevice
  <2>5. ApprovedSincePoll' /\ OnlyLateApprovalMissed'
    BY <1>5 DEF PollDevice
  <2> QED
    BY <2>1, <2>2, <2>3, <2>4, <2>5
<1>6. CASE TokenEndpoint
  <2>1. TypeOK'
    <3>1. redeemed' \in BOOLEAN /\ secret' \in BOOLEAN /\ polled' \in BOOLEAN
      <4>1. redeemed' = redeemed \/ redeemed' = TRUE
        BY <1>6 DEF TokenEndpoint, Answer
      <4>2. secret' = secret /\ polled' = TRUE
        BY <1>6 DEF TokenEndpoint, Answer
      <4> QED
        BY <4>1, <4>2, Zenon
    <3>2. slows' \in 0..MaxSlow
      BY <1>6 DEF TokenEndpoint, Answer
    <3>3. reply' \in Replies
      BY <1>6 DEF TokenEndpoint, Answer
    <3>4. demand' \in Nat /\ earliest' \in Nat
      BY <1>6 DEF TokenEndpoint, Answer
    <3>5. UNCHANGED <<now, driver, validUntil, user, approvedAt>>
      BY <1>6 DEF TokenEndpoint, Answer
    <3> QED
      BY <3>1, <3>2, <3>3, <3>4, <3>5
  <2>2. AnswerInPlace' /\ ExpiryNotBefore'
    BY <1>6 DEF TokenEndpoint, Answer
  <2>3. IntervalKept' /\ PollsPaced'
    BY <1>6 DEF TokenEndpoint, Answer
  <2>4. PollsBetween'
    BY <1>6 DEF TokenEndpoint, Answer
  <2>5. ApprovedSincePoll' /\ OnlyLateApprovalMissed'
    BY <1>6 DEF TokenEndpoint, Answer
  <2> QED
    BY <2>1, <2>2, <2>3, <2>4, <2>5
<1>7. CASE Hear
  BY <1>7 DEF Hear
<1>8. CASE RequestFails
  BY <1>8 DEF RequestFails
<1>9. CASE Judge
  BY <1>9 DEF Judge, Pause
<1>10. CASE Wake
  BY <1>10 DEF Wake
<1>11. CASE Put
  BY <1>11 DEF Put
<1>12. CASE Record
  BY <1>12 DEF Record
<1>13. ASSUME NEW choice \in {"approved", "denied"}, Decide(choice) PROVE IInv'
  BY <1>13 DEF Decide
<1>14. CASE Tick
  BY <1>14 DEF Tick
<1> QED
  BY <1>1, <1>2, <1>3, <1>4, <1>5, <1>6, <1>7, <1>8, <1>9, <1>10, <1>11, <1>12, <1>13, <1>14
     DEF Next

LEMMA StutterIInv == ASSUME IInv, UNCHANGED vars PROVE IInv'
BY DEF IInv, TypeOK, Places, Ended, Replies, AnswerInPlace, ExpiryNotBefore, IntervalKept,
       PollsBetween, ApprovedSincePoll, PollsPaced, OnlyLateApprovalMissed,
       vars, driver, provider

-----------------------------------------------------------------------------
(* The theorems.                                                           *)

\* What the driver and the provider know of the code, the pace and each other's
\* clock is never out of step, however long requests take.
THEOREM DeviceInvariant == Spec => []IInv
<1>1. IInv /\ [Next]_vars => IInv'
  BY StepIInv, StutterIInv
<1> QED
  BY InitIInv, <1>1, PTL DEF Spec

\* advance raises expired_token only once the provider's own clock has ended the
\* code, and never when the provider has given out the token.
THEOREM DriverOutlastsCode == Spec => []NoEarlyGiveUp
<1>1. IInv => NoEarlyGiveUp
  BY DEF IInv, NoEarlyGiveUp, TypeOK, AnswerInPlace, ExpiryNotBefore
<1> QED
  BY DeviceInvariant, <1>1, PTL

\* No poll reaches the provider before the pace it demands allows, slow_down
\* after slow_down included.
THEOREM PollsKeepPace == Spec => []PollsPaced
<1>1. IInv => PollsPaced
  BY DEF IInv
<1> QED
  BY DeviceInvariant, <1>1, PTL

\* A sign-in that ends as expired although the user approved ends so only because
\* the approval came within one interval and one request of the code's end.
THEOREM ApprovalHeard == Spec => []OnlyLateApprovalMissed
<1>1. IInv => OnlyLateApprovalMissed
  BY DEF IInv
<1> QED
  BY DeviceInvariant, <1>1, PTL

\* An expired code keeps nobody waiting longer than one request or one sleep.
THEOREM ExpiryEndsWait == Spec => []GivesUpInTime
<1>1. IInv => GivesUpInTime
  BY DeviceAssumption DEF IInv, GivesUpInTime, TypeOK, PollsBetween, IntervalKept
<1> QED
  BY DeviceInvariant, <1>1, PTL
=============================================================================
