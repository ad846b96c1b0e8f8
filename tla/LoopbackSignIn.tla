--------------------------- MODULE LoopbackSignIn ---------------------------
(***************************************************************************)
(* Browser sign-in: OAuthPkceDriver and LoopbackRedirect (oauth_login.py)  *)
(* over OAuthClient.begin_authorization and exchange_code (oauth.py).      *)
(*                                                                         *)
(* A session is one sign-in, in a process of its own.  All sessions use a  *)
(* route whose provider registered one redirect URI, so their listeners    *)
(* want the same port, one after the other; a callback reaches whichever   *)
(* listener has the port by then, also the callback of an earlier session  *)
(* whose browser tab is still open, and a page may be reloaded.  Each      *)
(* request is served by a handler thread of its own, and the capture tests *)
(* and sets without a lock, beside the driver that waits for the event.    *)
(*                                                                         *)
(* A state parameter and a code name the session they were made for; the   *)
(* verifier is the session's own, and the provider refuses any other.      *)
(***************************************************************************)
EXTENDS Naturals

CONSTANTS
  Sessions,  \* sign-ins
  Requests,  \* bound: HTTP requests any listener ever gets, each used once
  None       \* no session, no callback

ASSUME LoopbackAssumption == None \notin Sessions

VARIABLES
  port,      \* the session whose listener has the port
  result,    \* LoopbackRedirect._result
  received,  \* LoopbackRedirect._received
  handler,   \* where the thread of each request stands, and whom it serves
  at,        \* where each driver stands
  values,    \* the local "values" of advance
  secret,    \* whether the session's material is in the store
  page,      \* what the user did on the session's authorization page
  redeemed,  \* the provider: codes exchanged
  presented, \* history: <<session, code>> pairs sent to the token endpoint
  first      \* history: the callback a listener had served before any other came

listener == <<port, result, received>>
driver == <<at, values, secret>>
world == <<page, redeemed>>
vars == <<listener, handler, driver, world, presented, first>>

\* What the query of a callback says: the session its state names, and whether
\* it carries a code (of that session) or an error.  A bare visit to the
\* path has neither state nor code.
Callbacks == [state : Sessions, says : {"code", "error"}] \cup [state : {None}, says : {"nothing"}]

NoCallback == [state |-> None, says |-> "none"]

Ended == {"done", "failed", "dead"}

\* The places of the try block, whose finally closes the listener.
Inside == {"wait", "check", "exchange", "leave", "raise"}

Places == {"start", "bound", "shown", "store", "record"} \cup Inside \cup Ended

TypeOK ==
  /\ port \in Sessions \cup {None}
  /\ result \in [Sessions -> Callbacks \cup {NoCallback}]
  /\ received \in [Sessions -> BOOLEAN]
  /\ handler \in [Requests ->
       [at : {"unused", "test", "set", "signal", "served"},
        of : Sessions \cup {None}, query : Callbacks \cup {NoCallback}]]
  /\ at \in [Sessions -> Places]
  /\ values \in [Sessions -> Callbacks \cup {NoCallback}]
  /\ secret \in [Sessions -> BOOLEAN]
  /\ page \in [Sessions -> {"closed", "open", "approved", "refused"}]
  /\ redeemed \in SUBSET Sessions
  /\ presented \in SUBSET (Sessions \X Sessions)
  /\ first \in [Sessions -> Callbacks \cup {NoCallback}]

Init ==
  /\ port = None
  /\ result = [s \in Sessions |-> NoCallback]
  /\ received = [s \in Sessions |-> FALSE]
  /\ handler = [r \in Requests |-> [at |-> "unused", of |-> None, query |-> NoCallback]]
  /\ at = [s \in Sessions |-> "start"]
  /\ values = [s \in Sessions |-> NoCallback]
  /\ secret = [s \in Sessions |-> FALSE]
  /\ page = [s \in Sessions |-> "closed"]
  /\ redeemed = {}
  /\ presented = {}
  /\ first = [s \in Sessions |-> NoCallback]

Goto(s, place) == at' = [at EXCEPT ![s] = place]

-----------------------------------------------------------------------------
(* begin                                                                   *)

\* LoopbackRedirect binds the port, unless another process has it.
Bind(s) ==
  /\ at[s] = "start"
  /\ \/ port = None /\ port' = s /\ Goto(s, "bound")
     \/ port # None /\ port' = port /\ Goto(s, "failed")
  /\ UNCHANGED <<result, received, handler, values, secret, world, presented, first>>

\* begin_authorization makes state, verifier and URL, or raises and the listener
\* is closed; the surface shows the prompt.
BeginAuthorization(s) ==
  /\ at[s] = "bound"
  /\ \/ /\ Goto(s, "shown")
        /\ page' = [page EXCEPT ![s] = "open"]
        /\ port' = port
     \/ /\ Goto(s, "failed")
        /\ page' = page
        /\ port' = None
  /\ UNCHANGED <<result, received, handler, values, secret, redeemed, presented, first>>

-----------------------------------------------------------------------------
(* The browser, and the handler threads of the listener.                   *)

\* The user decides on the authorization page, now or after the session ended.
Decide(s, choice) ==
  /\ page[s] = "open"
  /\ page' = [page EXCEPT ![s] = choice]
  /\ UNCHANGED <<listener, handler, driver, redeemed, presented, first>>

\* The callbacks browsers may request, again and again: the redirects the
\* provider sent, and a bare visit.
Redirects ==
  {[state |-> None, says |-> "nothing"]}
    \cup {[state |-> s, says |-> "code"] : s \in {t \in Sessions : page[t] = "approved"}}
    \cup {[state |-> s, says |-> "error"] : s \in {t \in Sessions : page[t] = "refused"}}

\* A request for the listener's path reaches whoever has the port.
Arrive(r, query) ==
  /\ handler[r].at = "unused"
  /\ port # None
  /\ handler' = [handler EXCEPT ![r] = [at |-> "test", of |-> port, query |-> query]]
  /\ UNCHANGED <<listener, driver, world, presented, first>>

Step(r, place) == handler' = [handler EXCEPT ![r].at = place]

\* Requests that reached the listener of s.
Arrived(s) == {r \in Requests : handler[r].at # "unused" /\ handler[r].of = s}

\* The page is written; a request served before any other came is remembered.
Serve(r) ==
  /\ Step(r, "served")
  /\ LET s == handler[r].of IN
       first' = IF Arrived(s) = {r} THEN [first EXCEPT ![s] = handler[r].query] ELSE first

\* Mutant: the event is set before the result.
MutantTestSignals(r) ==
  /\ handler[r].at = "test"
  /\ result[handler[r].of] = NoCallback
  /\ received' = [received EXCEPT ![handler[r].of] = TRUE]
  /\ Step(r, "set")
  /\ UNCHANGED <<port, result, driver, world, presented, first>>

\* _capture: only the first callback counts.
Test(r) ==
  /\ handler[r].at = "test"
  /\ \/ result[handler[r].of] = NoCallback /\ Step(r, "set") /\ first' = first
     \/ result[handler[r].of] # NoCallback /\ Serve(r)
  /\ UNCHANGED <<listener, driver, world, presented>>

Set(r) ==
  /\ handler[r].at = "set"
  /\ result' = [result EXCEPT ![handler[r].of] = handler[r].query]
  /\ Step(r, "signal")
  /\ UNCHANGED <<port, received, driver, world, presented, first>>

Signal(r) ==
  /\ handler[r].at = "signal"
  /\ received' = [received EXCEPT ![handler[r].of] = TRUE]
  /\ Serve(r)
  /\ UNCHANGED <<port, result, driver, world, presented>>

-----------------------------------------------------------------------------
(* advance                                                                 *)

\* advance(session, {}) waits for the browser; a surface that has the callback
\* by other means passes it on.
Advance(s) ==
  /\ at[s] = "shown"
  /\ \/ Goto(s, "wait") /\ values' = values
     \/ /\ Goto(s, "check")
        /\ \E query \in Redirects \ {[state |-> None, says |-> "nothing"]} :
             values' = [values EXCEPT ![s] = query]
  /\ UNCHANGED <<listener, handler, secret, world, presented, first>>

\* wait returns the result as it is then.
Receive(s) ==
  /\ at[s] = "wait"
  /\ received[s]
  /\ values' = [values EXCEPT ![s] = result[s]]
  /\ Goto(s, "check")
  /\ UNCHANGED <<listener, handler, secret, world, presented, first>>

\* Mutant: wait without a timeout.
MutantTimeOut(s) ==
  /\ at[s] = "wait"
  /\ received[s]
  /\ Goto(s, "raise")
  /\ UNCHANGED <<listener, handler, values, secret, world, presented, first>>

\* 300 seconds pass before the event is set.
TimeOut(s) ==
  /\ at[s] = "wait"
  /\ ~received[s]
  /\ Goto(s, "raise")
  /\ UNCHANGED <<listener, handler, values, secret, world, presented, first>>

\* Mutant: the state is not compared.
MutantCheck(s) ==
  /\ at[s] = "check"
  /\ Goto(s, IF values[s].says = "code" THEN "exchange" ELSE "raise")
  /\ UNCHANGED <<listener, handler, values, secret, world, presented, first>>

\* An error, a missing code or a state that is not the session's raises, before
\* anything is sent.
Check(s) ==
  /\ at[s] = "check"
  /\ Goto(s, IF values[s] = [state |-> s, says |-> "code"] THEN "exchange" ELSE "raise")
  /\ UNCHANGED <<listener, handler, values, secret, world, presented, first>>

\* The token request.  The provider redeems a code once, for its own verifier,
\* and may refuse, or its answer may be lost.
Exchange(s) ==
  /\ at[s] = "exchange"
  /\ presented' = presented \cup {<<s, values[s].state>>}
  /\ \/ /\ values[s].state = s /\ s \notin redeemed
        /\ redeemed' = redeemed \cup {s}
        /\ Goto(s, "leave") \/ Goto(s, "raise")
     \/ redeemed' = redeemed /\ Goto(s, "raise")
  /\ UNCHANGED <<listener, handler, values, secret, page, first>>

\* Mutant: the listener is closed only when all went well.
MutantClose(s) ==
  /\ at[s] \in {"leave", "raise"}
  /\ port' = IF at[s] = "leave" THEN None ELSE port
  /\ Goto(s, IF at[s] = "leave" THEN "store" ELSE "failed")
  /\ UNCHANGED <<result, received, handler, values, secret, world, presented, first>>

\* finally: redirect.close().
Close(s) ==
  /\ at[s] \in {"leave", "raise"}
  /\ port' = None
  /\ Goto(s, IF at[s] = "leave" THEN "store" ELSE "failed")
  /\ UNCHANGED <<result, received, handler, values, secret, world, presented, first>>

\* store.put, which may fail.
Put(s) ==
  /\ at[s] = "store"
  /\ \/ secret' = [secret EXCEPT ![s] = TRUE] /\ Goto(s, "record")
     \/ secret' = secret /\ Goto(s, "failed")
  /\ UNCHANGED <<listener, handler, values, world, presented, first>>

\* LoginBroker.advance upserts the profile.
Record(s) ==
  /\ at[s] = "record"
  /\ Goto(s, "done") \/ Goto(s, "failed")
  /\ UNCHANGED <<listener, handler, values, secret, world, presented, first>>

\* The process ends, with its listener and its handler threads.
Die(s) ==
  /\ at[s] \notin Ended \cup {"start"}
  /\ Goto(s, "dead")
  /\ port' = IF port = s THEN None ELSE port
  /\ handler' = [r \in Requests |->
       IF handler[r].of = s THEN [handler[r] EXCEPT !.at = "served"] ELSE handler[r]]
  /\ UNCHANGED <<result, received, values, secret, world, presented, first>>

-----------------------------------------------------------------------------

Drive(s) ==
  \/ Bind(s) \/ BeginAuthorization(s)
  \/ Advance(s) \/ Receive(s) \/ TimeOut(s) \/ Check(s) \/ Exchange(s) \/ Close(s)
  \/ Put(s) \/ Record(s)

Serving(r) == Test(r) \/ Set(r) \/ Signal(r)

Next ==
  \/ \E s \in Sessions : Drive(s) \/ Die(s)
  \/ \E s \in Sessions, choice \in {"approved", "refused"} : Decide(s, choice)
  \/ \E r \in Requests : Serving(r) \/ \E query \in Redirects : Arrive(r, query)

Spec == Init /\ [][Next]_vars

\* A driver that can take a step takes it; its wait is bounded by the timeout.
FairSpec == Spec /\ \A s \in Sessions : WF_vars(Drive(s))

-----------------------------------------------------------------------------
(* What a browser sign-in promises.                                        *)

\* No session presents a code made for another, however callbacks are
\* reordered, repeated or sent to the wrong listener.
OwnCodeOnly == presented \subseteq {<<s, s>> : s \in Sessions}

\* However a sign-in ends, the pinned port is free for the next one.
PortGivenBack == \A s \in Sessions : at[s] \in {"store", "record"} \cup Ended => port # s

\* A callback that has been served before any other came is the one that counts,
\* whatever comes later.
FirstServedCounts == \A s \in Sessions : first[s] # NoCallback => result[s] = first[s]

\* Nobody waits for a browser that never returns: an advance ends.
SignInEnds == \A s \in Sessions : at[s] \in Inside ~> at[s] \in Ended

-----------------------------------------------------------------------------
(* The inductive invariant behind these promises.                          *)

\* The port belongs to the one session between bind and close.
PortFollowsSession == \A s \in Sessions : port = s <=> at[s] \in {"bound", "shown"} \cup Inside

\* A code is sent only after its state has been compared.
CheckedBeforeSent ==
  \A s \in Sessions : at[s] = "exchange" => values[s] = [state |-> s, says |-> "code"]

\* A thread serves one session, and signals only what it has set.
ThreadsInPlace ==
  \A r \in Requests :
    /\ handler[r].at = "unused" => handler[r].of = None
    /\ handler[r].at # "unused" => handler[r].of \in Sessions /\ handler[r].query \in Callbacks
    /\ handler[r].at = "signal" => result[handler[r].of] # NoCallback

\* wait's "assert self._result is not None" never fails.
EventMeansResult == \A s \in Sessions : received[s] => result[s] # NoCallback

\* Every result was set by a thread that is past setting it.
ResultFromThread ==
  \A s \in Sessions : result[s] # NoCallback =>
    \E r \in Arrived(s) : handler[r].at \in {"signal", "served"} /\ handler[r].query = result[s]

\* Once a callback has been served alone, nobody is about to replace it.
FirstSettled ==
  \A s \in Sessions : first[s] # NoCallback =>
    \A r \in Requests : handler[r].at = "set" => handler[r].of # s

IInv ==
  /\ TypeOK
  /\ OwnCodeOnly
  /\ PortFollowsSession
  /\ CheckedBeforeSent
  /\ ThreadsInPlace
  /\ EventMeansResult
  /\ ResultFromThread
  /\ FirstSettled
  /\ FirstServedCounts
=============================================================================
