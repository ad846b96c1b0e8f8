---------------------------- MODULE DeviceSignIn ----------------------------
(***************************************************************************)
(* Device sign-in: OAuthDeviceDriver (oauth_login.py) over                 *)
(* OAuthClient.begin_device_authorization and poll_device (oauth.py), with *)
(* the provider's side of RFC 8628 and the user who approves the code in a *)
(* browser.                                                                *)
(*                                                                         *)
(* Two clocks matter, and they are read at different moments: the code is  *)
(* valid for Lifetime from when the provider issues it, while the driver   *)
(* stamps its own expires_at when the answer has arrived; the provider     *)
(* measures the pace of the polls it sees, the driver that of its sleeps.  *)
(* Time passes while a request is under way (for at most Timeout), while   *)
(* the driver sleeps, and before advance is called; the driver's own       *)
(* computations take none.                                                 *)
(* urlopen's timeout bounds each wait for the socket; an answer is taken   *)
(* to arrive in one piece, so that it bounds the request.                  *)
(***************************************************************************)
EXTENDS Integers

CONSTANTS
  Lifetime,   \* the provider's expires_in
  Interval,   \* the provider's interval
  Backoff,    \* SLOW_DOWN_BACKOFF_SECONDS
  Timeout,    \* the client's HTTP timeout
  MaxSlow,    \* bound: slow_down answers
  MaxTime     \* bound: the last instant of the clock

ASSUME DeviceAssumption ==
  /\ Lifetime \in Nat
  /\ Interval \in Nat
  /\ Backoff \in Nat
  /\ Timeout \in Nat
  /\ MaxSlow \in Nat
  /\ MaxTime \in Nat

VARIABLES
  now,         \* the clock
  at,          \* where the driver stands
  asked,       \* when it sent the request under way, or the last one
  reply,       \* the provider's answer to it, "none" before it has answered
  expires_at,  \* authorization.expires_at
  interval,    \* the local "interval" of advance
  wake,        \* when its sleep ends
  secret,      \* whether the store holds the material
  validUntil,  \* the provider: when the device code expires
  demand,      \* the provider: the pace it demands
  earliest,    \* the provider: the next poll it does not consider early
  slows,       \* the provider: slow_down answers so far
  redeemed,    \* the provider: whether it has given out the token
  user,        \* what the user has done with the code
  approvedAt,  \* history: when the user approved
  polled       \* history: whether a poll has been answered

driver == <<at, asked, expires_at, interval, wake, secret>>
provider == <<validUntil, demand, earliest, slows, redeemed, polled>>
vars == <<now, reply, driver, provider, user, approvedAt>>

\* "expired" is the OAuthError with code expired_token that the driver raises by
\* its own clock, "failed" any other exception.
Ended == {"done", "failed", "expired"}

Places == {"start", "begin", "shown", "poll", "ask", "judge", "sleep", "store", "record"} \cup Ended

Replies == {"none", "issued", "pending", "slow_down", "token", "denied", "expired_token"}

TypeOK ==
  /\ now \in Nat /\ asked \in Nat /\ expires_at \in Nat /\ interval \in Nat /\ wake \in Nat
  /\ at \in Places
  /\ reply \in Replies
  /\ secret \in BOOLEAN
  /\ validUntil \in Nat /\ demand \in Nat /\ earliest \in Nat
  /\ slows \in 0..MaxSlow
  /\ redeemed \in BOOLEAN
  /\ user \in {"open", "approved", "denied"}
  /\ approvedAt \in Nat
  /\ polled \in BOOLEAN

Init ==
  /\ now = 0 /\ asked = 0 /\ expires_at = 0 /\ interval = 0 /\ wake = 0
  /\ at = "start"
  /\ reply = "none"
  /\ secret = FALSE
  /\ validUntil = 0 /\ demand = 0 /\ earliest = 0
  /\ slows = 0
  /\ redeemed = FALSE
  /\ user = "open"
  /\ approvedAt = 0
  /\ polled = FALSE

-----------------------------------------------------------------------------
(* begin: the device authorization request.                                *)

Begin ==
  /\ at = "start"
  /\ at' = "begin"
  /\ asked' = now
  /\ UNCHANGED <<now, reply, expires_at, interval, wake, secret, provider, user, approvedAt>>

\* The provider issues a code; from now on it is valid.
Issue ==
  /\ at = "begin"
  /\ reply = "none"
  /\ reply' = "issued"
  /\ validUntil' = now + Lifetime
  /\ demand' = Interval
  /\ UNCHANGED <<now, driver, earliest, slows, redeemed, polled, user, approvedAt>>

\* Mutant: the expiry is counted from when the request was sent.
MutantShow ==
  /\ at = "begin"
  /\ reply = "issued"
  /\ reply' = "none"
  /\ expires_at' = asked + Lifetime
  /\ interval' = Interval
  /\ at' = "shown"
  /\ UNCHANGED <<now, asked, wake, secret, provider, user, approvedAt>>

\* The answer has arrived: expires_at is stamped and the prompt is shown.
Show ==
  /\ at = "begin"
  /\ reply = "issued"
  /\ reply' = "none"
  /\ expires_at' = now + Lifetime
  /\ interval' = Interval
  /\ at' = "shown"
  /\ UNCHANGED <<now, asked, wake, secret, provider, user, approvedAt>>

-----------------------------------------------------------------------------
(* advance: poll, judge the answer, sleep.                                 *)

Advance ==
  /\ at = "shown"
  /\ at' = "poll"
  /\ UNCHANGED <<now, asked, reply, expires_at, interval, wake, secret, provider, user, approvedAt>>

\* Mutant: poll_device asks without a look at the clock.
MutantPollDevice ==
  /\ at = "poll"
  /\ at' = "ask"
  /\ asked' = now
  /\ UNCHANGED <<now, reply, expires_at, interval, wake, secret, provider, user, approvedAt>>

\* poll_device: a code that has expired is not presented.
PollDevice ==
  /\ at = "poll"
  /\ \/ expires_at <= now /\ at' = "expired" /\ asked' = asked
     \/ expires_at > now /\ at' = "ask" /\ asked' = now
  /\ UNCHANGED <<now, reply, expires_at, interval, wake, secret, provider, user, approvedAt>>

\* Every answer but a slow_down leaves the pace; the next poll is due after it.
Answer(value, pace) ==
  /\ reply' = value
  /\ demand' = pace
  /\ earliest' = now + pace
  /\ polled' = TRUE
  /\ UNCHANGED <<now, driver, validUntil, user, approvedAt>>

\* The provider answers a poll; slow_down is its other way to say pending.
TokenEndpoint ==
  /\ at = "ask"
  /\ reply = "none"
  /\ \/ /\ now >= validUntil
        /\ Answer("expired_token", demand) /\ UNCHANGED <<slows, redeemed>>
     \/ /\ now < validUntil /\ user = "approved"
        /\ Answer("token", demand) /\ redeemed' = TRUE /\ slows' = slows
     \/ /\ now < validUntil /\ user = "denied"
        /\ Answer("denied", demand) /\ UNCHANGED <<slows, redeemed>>
     \/ /\ now < validUntil /\ user = "open"
        /\ Answer("pending", demand) /\ UNCHANGED <<slows, redeemed>>
     \/ /\ now < validUntil /\ user = "open" /\ slows < MaxSlow
        /\ Answer("slow_down", demand + Backoff) /\ slows' = slows + 1 /\ redeemed' = redeemed

\* Mutant: an answer that took until the expiry is not looked at.
MutantHear ==
  /\ at = "ask"
  /\ reply # "none"
  /\ at' = IF expires_at <= now THEN "expired"
           ELSE IF reply = "token" THEN "store"
           ELSE IF reply \in {"pending", "slow_down"} THEN "judge" ELSE "failed"
  /\ UNCHANGED <<now, asked, reply, expires_at, interval, wake, secret, provider, user, approvedAt>>

\* The answer has arrived.  Only pending and slow_down become AuthorizationPending;
\* a token leaves the loop whatever the time is, any other error leaves advance.
Hear ==
  /\ at = "ask"
  /\ \/ reply = "token" /\ at' = "store"
     \/ reply \in {"pending", "slow_down"} /\ at' = "judge"
     \/ reply \in {"denied", "expired_token"} /\ at' = "failed"
  /\ UNCHANGED <<now, asked, reply, expires_at, interval, wake, secret, provider, user, approvedAt>>

\* A request under way fails, before or after the provider has seen it.
RequestFails ==
  /\ at \in {"begin", "ask"}
  /\ at' = "failed"
  /\ UNCHANGED <<now, asked, reply, expires_at, interval, wake, secret, provider, user, approvedAt>>

\* Mutant: every answer that is not a token lengthens the interval.
MutantPauseMore ==
  /\ interval' = interval + Backoff
  /\ wake' = now + interval'

\* slow_down lengthens this sleep and all that follow.
Pause ==
  /\ interval' = IF reply = "slow_down" THEN interval + Backoff ELSE interval
  /\ wake' = now + interval'

\* except AuthorizationPending: give up once the code has expired, else sleep.
Judge ==
  /\ at = "judge"
  /\ \/ /\ expires_at <= now
        /\ at' = "expired"
        /\ UNCHANGED <<reply, interval, wake>>
     \/ /\ expires_at > now
        /\ at' = "sleep"
        /\ reply' = "none"
        /\ Pause
  /\ UNCHANGED <<now, asked, expires_at, secret, provider, user, approvedAt>>

Wake ==
  /\ at = "sleep"
  /\ now >= wake
  /\ at' = "poll"
  /\ UNCHANGED <<now, asked, reply, expires_at, interval, wake, secret, provider, user, approvedAt>>

\* store.put, which may fail.
Put ==
  /\ at = "store"
  /\ \/ secret' = TRUE /\ at' = "record"
     \/ secret' = secret /\ at' = "failed"
  /\ UNCHANGED <<now, asked, reply, expires_at, interval, wake, provider, user, approvedAt>>

\* LoginBroker.advance upserts the profile.
Record ==
  /\ at = "record"
  /\ at' \in {"done", "failed"}
  /\ UNCHANGED <<now, asked, reply, expires_at, interval, wake, secret, provider, user, approvedAt>>

-----------------------------------------------------------------------------
(* The user and the clock.                                                 *)

\* The user has seen the code and the provider still accepts it.
Decide(choice) ==
  /\ at \notin {"start", "begin"} \cup Ended
  /\ user = "open"
  /\ now < validUntil
  /\ user' = choice
  /\ approvedAt' = now
  /\ UNCHANGED <<now, reply, driver, provider>>

\* Where the driver waits, and until when.
Tick ==
  /\ now < MaxTime
  /\ \/ at \in {"start", "shown"}
     \/ at \in {"begin", "ask"} /\ now < asked + Timeout
     \/ at = "sleep" /\ now < wake
  /\ now' = now + 1
  /\ UNCHANGED <<reply, driver, provider, user, approvedAt>>

-----------------------------------------------------------------------------

Next ==
  \/ Begin \/ Issue \/ Show
  \/ Advance \/ PollDevice \/ TokenEndpoint \/ Hear \/ RequestFails \/ Judge \/ Wake
  \/ Put \/ Record
  \/ \E choice \in {"approved", "denied"} : Decide(choice)
  \/ Tick

Spec == Init /\ [][Next]_vars

-----------------------------------------------------------------------------
(* What the driver promises.                                               *)

\* The driver does not give up before the provider does, and never after the
\* provider has given out the token.
NoEarlyGiveUp == at = "expired" => now >= validUntil /\ ~redeemed

\* Between two polls lies the interval the provider demands, every slow_down so
\* far included, however long the answers took.
PollsPaced == at = "ask" /\ reply = "none" /\ polled => asked >= earliest

\* An approval is missed only in the last moments: it came so late that the code
\* expired within one interval and one request of it.
OnlyLateApprovalMissed ==
  at = "expired" /\ user = "approved" /\ polled => validUntil <= approvedAt + demand + Timeout

\* Nobody waits for an expired code longer than for the request or the sleep that
\* was under way when it expired.
GivesUpInTime ==
  /\ at \in {"ask", "judge"} => now < expires_at + Timeout
  /\ at = "sleep" => now < expires_at + demand

-----------------------------------------------------------------------------
(* The inductive invariant behind these promises.                          *)

\* What is on its way when, and that no token has been given out unnoticed.
AnswerInPlace ==
  /\ at \in {"start", "shown", "poll", "sleep"} => reply = "none"
  /\ at = "begin" => reply \in {"none", "issued"}
  /\ at = "ask" => reply # "issued"
  /\ at = "judge" => reply \in {"pending", "slow_down"}
  /\ at \in {"start", "begin", "shown"} => ~polled
  /\ at \in {"start", "begin", "shown", "poll", "judge", "sleep", "expired"} => ~redeemed
  /\ at = "ask" /\ redeemed => reply = "token"

\* The driver's expiry is not before the provider's, which has issued the code
\* by the time the driver stamps it.
ExpiryNotBefore ==
  /\ at = "begin" /\ reply = "issued" => validUntil <= now + Lifetime /\ demand = Interval
  /\ at \in {"shown", "poll", "ask", "judge", "sleep", "expired"} => validUntil <= expires_at
  /\ at = "expired" => expires_at <= now

\* The driver's interval is the one demanded, as soon as it has judged the answer.
IntervalKept ==
  /\ at \in {"shown", "poll", "sleep"} => interval = demand
  /\ at \in {"ask", "judge"} =>
       demand = IF reply = "slow_down" THEN interval + Backoff ELSE interval

\* earliest - demand is when the provider answered the last poll: not later than
\* now, not earlier than the poll was sent, and not long before the next.
PollsBetween ==
  /\ polled => earliest <= now + demand
  /\ at \in {"ask", "judge"} => asked <= now /\ asked < expires_at
  /\ at = "ask" => now <= asked + Timeout
  /\ at = "ask" /\ reply # "none" => polled /\ asked + demand <= earliest
  /\ at = "judge" => polled /\ now + demand <= earliest + Timeout /\ now <= asked + Timeout
  /\ at = "sleep" => polled /\ earliest <= wake /\ now <= wake
  /\ at = "sleep" => wake <= earliest + Timeout /\ wake < expires_at + demand
  /\ at = "poll" /\ polled => earliest <= now /\ now <= earliest + Timeout

\* Who approved has not been polled for since.
ApprovedSincePoll ==
  user = "approved" /\ polled /\ ~redeemed /\ reply # "expired_token"
    => earliest <= approvedAt + demand

IInv ==
  /\ TypeOK
  /\ AnswerInPlace
  /\ ExpiryNotBefore
  /\ IntervalKept
  /\ PollsBetween
  /\ ApprovedSincePoll
  /\ PollsPaced
  /\ OnlyLateApprovalMissed
=============================================================================
