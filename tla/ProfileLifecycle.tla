-------------------------- MODULE ProfileLifecycle --------------------------
(***************************************************************************)
(* The administration of one OAuth profile, interleaved with the refreshes *)
(* of CredentialRefresh: signing in (LoginBroker.advance) and out          *)
(* (LoginBroker.logout), disabling and enabling it (CredentialBroker), and *)
(* recording a probe (Prober.probe).                                       *)
(*                                                                         *)
(* None of these takes the refresh lease, and the profile table and the    *)
(* secret store share no transaction, so each is a sequence of single      *)
(* reads and writes.  enable, disable and probe read the whole row and     *)
(* write the whole row back (ProfileRegistry.upsert inserts a row that is  *)
(* gone); between the two, a probe talks to the provider.                  *)
(***************************************************************************)
EXTENDS CredentialRefresh

CONSTANTS
  Admins,   \* people or programs administering the profile
  Tasks     \* what they do, of the five tasks below

AllTasks == {"sign_in", "sign_out", "enable", "disable", "probe"}

ASSUME TasksAssumption == Tasks \subseteq AllTasks

VARIABLES
  doing,    \* what each admin does next
  row,      \* the row it read, if any
  fresh     \* the token its sign-in obtained, 0 if none

adminVars == <<doing, row, fresh>>
lifeVars == <<vars, adminVars>>

LifeInit ==
  /\ Init
  /\ doing = [a \in Admins |-> "idle"]
  /\ row = [a \in Admins |-> {}]
  /\ fresh = [a \in Admins |-> 0]

\* Admin a stands before its next step, with the row it read and its token.
Proceed(a, what, rows, token) ==
  /\ doing' = [doing EXCEPT ![a] = what]
  /\ row' = [row EXCEPT ![a] = rows]
  /\ fresh' = [fresh EXCEPT ![a] = token]

Done(a) == Proceed(a, "idle", {}, 0)

UnchangedCalls == UNCHANGED <<holders, age, at, op, hand, overran>>

-----------------------------------------------------------------------------
(* Signing in: the driver obtains and stores the secret, then the broker    *)
(* upserts the profile.                                                    *)

Authorize(a) ==
  /\ "sign_in" \in Tasks
  /\ doing[a] = "idle"
  /\ issued < MaxTokens
  /\ issued' = issued + 1
  /\ honoured' = honoured \cup {issued + 1}
  /\ Proceed(a, "store", {}, issued + 1)
  /\ UNCHANGED <<profile, secret, grant, faults>> /\ UnchangedCalls

StoreSecret(a) ==
  /\ doing[a] = "store"
  /\ secret' = {fresh[a]}
  /\ Proceed(a, "record", {}, fresh[a])
  /\ UNCHANGED <<profile, provider, faults>> /\ UnchangedCalls

RecordProfile(a) ==
  /\ doing[a] = "record"
  /\ profile' = {[enabled |-> TRUE, login |-> fresh[a]]}
  /\ Done(a)
  /\ UNCHANGED <<secret, provider, faults>> /\ UnchangedCalls

-----------------------------------------------------------------------------
(* Everything else starts by reading the row; without one it ends there.    *)

Read(a, task, what) ==
  /\ task \in Tasks
  /\ doing[a] = "idle"
  /\ profile # {}
  /\ Proceed(a, what, profile, 0)
  /\ UNCHANGED <<profile, secret, provider, faults>> /\ UnchangedCalls

\* logout deletes the secret first ...
ForgetSecret(a) ==
  /\ doing[a] = "forget"
  /\ secret' = {}
  /\ Proceed(a, "erase", row[a], 0)
  /\ UNCHANGED <<profile, provider, faults>> /\ UnchangedCalls

\* Mutant: logout removes the secret but leaves the profile.
MutantEraseProfile(a) ==
  /\ doing[a] = "erase"
  /\ Done(a)
  /\ UNCHANGED <<profile, secret, provider, faults>> /\ UnchangedCalls

\* ... and then the profile.
EraseProfile(a) ==
  /\ doing[a] = "erase"
  /\ profile' = {}
  /\ Done(a)
  /\ UNCHANGED <<secret, provider, faults>> /\ UnchangedCalls

\* _set_enabled: the row as it was read, with the flag changed.
WriteEnabled(a) ==
  /\ doing[a] \in {"enable", "disable"}
  /\ profile' = {[p EXCEPT !.enabled = (doing[a] = "enable")] : p \in row[a]}
  /\ Done(a)
  /\ UNCHANGED <<secret, provider, faults>> /\ UnchangedCalls

\* _record: the row as it was read before the check; what it adds is metadata.
RecordProbe(a) ==
  /\ doing[a] = "probe"
  /\ profile' = row[a]
  /\ Done(a)
  /\ UNCHANGED <<secret, provider, faults>> /\ UnchangedCalls

\* The admin's process dies, or a store raises, between two steps; it starts over,
\* except that one that leaves a sign-out half done does not come back.
AdminCrash(a) ==
  /\ doing[a] \notin {"idle", "half"}
  /\ Fault
  /\ Proceed(a, IF doing[a] = "erase" THEN "half" ELSE "idle", {}, 0)
  /\ UNCHANGED <<profile, secret, provider>> /\ UnchangedCalls

AdminStep(a) ==
  \/ Authorize(a) \/ StoreSecret(a) \/ RecordProfile(a)
  \/ Read(a, "sign_out", "forget") \/ ForgetSecret(a) \/ EraseProfile(a)
  \/ Read(a, "enable", "enable") \/ Read(a, "disable", "disable") \/ WriteEnabled(a)
  \/ Read(a, "probe", "probe") \/ RecordProbe(a)
  \/ AdminCrash(a)

LifeNext ==
  \/ Next /\ UNCHANGED adminVars
  \/ \E a \in Admins : AdminStep(a)

LifeSpec == LifeInit /\ [][LifeNext]_lifeVars

-----------------------------------------------------------------------------
(* What holds with one admin at a time, whatever the refreshes do.         *)

HalfSignedOut == \E a \in Admins : doing[a] \in {"erase", "half"}

\* A profile points to a stored secret, unless its sign-out is half done, or was
\* when its process died: the sign-in stores before it records and the sign-out
\* erases the row last, so neither a sign-in that dies halfway, nor a refresh that
\* fails, nor a sign-out amid refreshes leaves a profile without its secret.
RowHasSecret == profile # {} => secret # {} \/ HalfSignedOut

-----------------------------------------------------------------------------
(* The inductive invariants: the tokens with any number of admins, the row  *)
(* with one.                                                               *)

OneAdmin == \A a, b \in Admins : a = b

Doings == {"idle", "store", "record", "forget", "erase", "half", "enable", "disable", "probe"}

LifeTypeOK ==
  /\ TypeOK
  /\ doing \in [Admins -> Doings]
  /\ row \in [Admins -> SUBSET [enabled : BOOLEAN, login : Tokens]]
  /\ fresh \in [Admins -> Tokens \cup {0}]
  /\ \A a \in Admins : doing[a] \in {"store", "record"} => fresh[a] \in Tokens

\* Nobody has a token before it is issued, whoever obtained it.
NoneEarly == OnlyIssued /\ \A a \in Admins : fresh[a] \in 0..issued

\* A good token that no request can present: it is neither stored nor with a call
\* about to ask.
Unstored(t) == t \in honoured \ secret /\ \A c \in Callers : at[c] = "call" => hand[c] # t

\* Each token about to be stored, by a refresh or by a sign-in, is good and the only
\* copy; so whoever stores next makes the stored one good, in whatever order they do.
TokensKept ==
  /\ secret \subseteq honoured \/ \E c \in Callers : at[c] = "put"
  /\ \A c \in Callers : at[c] = "put" =>
       Unstored(hand[c]) /\ \A d \in Callers : at[d] = "put" /\ hand[d] = hand[c] => d = c
  /\ \A a \in Admins : doing[a] = "store" =>
       Unstored(fresh[a]) /\ \A b \in Admins : doing[b] = "store" /\ fresh[b] = fresh[a] => b = a
  /\ \A a \in Admins, c \in Callers : doing[a] = "store" /\ at[c] = "put" => fresh[a] # hand[c]

LifeIInv == LifeTypeOK /\ NoneEarly /\ (faults = 0 => TokensKept)

\* A sign-in has stored its secret before it records, and the row somebody is about to
\* write back is still there.
RowSettled ==
  \A a \in Admins :
    /\ doing[a] = "record" => secret # {}
    /\ doing[a] \in {"enable", "disable", "probe"} => (row[a] # {} => profile # {})

RowIInv == RowHasSecret /\ RowSettled

-----------------------------------------------------------------------------
(* What documents say and the code does not do.                            *)

Quiet ==
  /\ \A c \in Callers : at[c] = "idle"
  /\ \A a \in Admins : doing[a] = "idle"

\* "Remove the profile and any secret it referenced": with nothing in flight and no
\* fault, a profile that is gone has left no secret.
SignOutLeavesNothing == Quiet /\ faults = 0 /\ profile = {} => secret = {}
=============================================================================
