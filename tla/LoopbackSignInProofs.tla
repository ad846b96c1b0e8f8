----------------------- MODULE LoopbackSignInProofs ------------------------
(***************************************************************************)
(* LoopbackSignIn for every number of sessions and of requests: only the   *)
(* session's own code is presented, the port comes back, and the callback  *)
(* served first counts.                                                    *)
(***************************************************************************)
EXTENDS LoopbackSignIn, TLAPS

-----------------------------------------------------------------------------
(* The inductive invariant.                                                *)

\* What the invariant says of the callback "nothing was received".
LEMMA NoCallbackDiffers == NoCallback \notin Callbacks
BY DEF NoCallback, Callbacks

LEMMA InitIInv == ASSUME Init PROVE IInv
BY LoopbackAssumption
   DEF Init, IInv, TypeOK, Places, Ended, Inside, OwnCodeOnly, PortFollowsSession,
       CheckedBeforeSent, ThreadsInPlace, EventMeansResult, ResultFromThread, FirstSettled,
       FirstServedCounts

\* A driver's step leaves the threads alone, and the other drivers' places.
LEMMA DriveIInv == ASSUME IInv, NEW s \in Sessions, Drive(s) \/ Die(s) PROVE IInv'
<1> USE LoopbackAssumption
    DEF IInv, TypeOK, Places, Ended, Inside, Goto, OwnCodeOnly, PortFollowsSession,
        CheckedBeforeSent, ThreadsInPlace, EventMeansResult, ResultFromThread, FirstSettled,
        FirstServedCounts, Arrived, listener, driver, world
<1>1. CASE Bind(s)
  BY <1>1 DEF Bind
<1>2. CASE BeginAuthorization(s)
  BY <1>2 DEF BeginAuthorization
<1>3. CASE Advance(s)
  BY <1>3 DEF Advance, Redirects, Callbacks
<1>4. CASE Receive(s)
  BY <1>4 DEF Receive
<1>5. CASE TimeOut(s)
  BY <1>5 DEF TimeOut
<1>6. CASE Check(s)
  BY <1>6 DEF Check
<1>7. CASE Exchange(s)
  BY <1>7 DEF Exchange
<1>8. CASE Close(s)
  BY <1>8 DEF Close
<1>9. CASE Put(s)
  <2>1. TypeOK'
    <3>1. secret' \in [Sessions -> BOOLEAN]
      BY <1>9 DEF Put
    <3>2. at' \in [Sessions -> Places] /\ UNCHANGED <<listener, handler, values, world, presented, first>>
      BY <1>9 DEF Put
    <3> QED
      BY <3>1, <3>2
  <2>2. OwnCodeOnly' /\ PortFollowsSession'
    BY <1>9 DEF Put
  <2>3. CheckedBeforeSent' /\ ThreadsInPlace'
    BY <1>9 DEF Put
  <2>4. EventMeansResult'
    BY <1>9 DEF Put
  <2>5. ResultFromThread'
    BY <1>9 DEF Put
  <2>6. FirstSettled' /\ FirstServedCounts'
    BY <1>9 DEF Put
  <2> QED
    BY <2>1, <2>2, <2>3, <2>4, <2>5, <2>6
<1>10. CASE Record(s)
  BY <1>10 DEF Record
<1>11. CASE Die(s)
  <2>1. TypeOK'
    BY <1>11 DEF Die
  <2>2. OwnCodeOnly' /\ PortFollowsSession'
    BY <1>11 DEF Die
  <2>3. CheckedBeforeSent' /\ ThreadsInPlace'
    <3>1. CheckedBeforeSent'
      BY <1>11 DEF Die
    <3>2. ThreadsInPlace'
      <4> SUFFICES ASSUME NEW r \in Requests
                   PROVE  /\ handler'[r].at = "unused" => handler'[r].of = None
                          /\ handler'[r].at # "unused" =>
                               handler'[r].of \in Sessions /\ handler'[r].query \in Callbacks
                          /\ handler'[r].at = "signal" => result'[handler'[r].of] # NoCallback
        OBVIOUS
      <4>1. /\ handler'[r].of = handler[r].of /\ handler'[r].query = handler[r].query
            /\ handler'[r].at = IF handler[r].of = s THEN "served" ELSE handler[r].at
        BY <1>11 DEF Die
      <4>2. result' = result
        BY <1>11 DEF Die
      <4> QED
        BY <4>1, <4>2
    <3> QED
      BY <3>1, <3>2
  <2>4. EventMeansResult'
    BY <1>11 DEF Die
  <2>5. ResultFromThread'
    BY <1>11 DEF Die
  <2>6. FirstSettled' /\ FirstServedCounts'
    BY <1>11 DEF Die
  <2> QED
    BY <2>1, <2>2, <2>3, <2>4, <2>5, <2>6
<1> QED
  BY <1>1, <1>2, <1>3, <1>4, <1>5, <1>6, <1>7, <1>8, <1>9, <1>10, <1>11 DEF Drive

\* The steps of the browser and of the handler threads.
LEMMA ServeIInv ==
  ASSUME IInv, NEW r \in Requests,
         Serving(r) \/ \E query \in Redirects : Arrive(r, query)
  PROVE  IInv'
<1> USE LoopbackAssumption, NoCallbackDiffers
    DEF IInv, TypeOK, Places, Ended, Inside, Step, OwnCodeOnly, PortFollowsSession,
        CheckedBeforeSent, ThreadsInPlace, EventMeansResult, ResultFromThread, FirstSettled,
        FirstServedCounts, Arrived, listener, driver, world
<1>1. CASE Test(r)
  <2> DEFINE s == handler[r].of
  <2>1. s \in Sessions /\ handler[r].query \in Callbacks /\ handler[r].at = "test"
    BY <1>1 DEF Test
  <2>2. UNCHANGED <<listener, driver, world, presented>>
    BY <1>1 DEF Test
  <2>3. first' = first
    <3>1. CASE result[s] = NoCallback
      BY <1>1, <3>1 DEF Test
    <3>2. CASE result[s] # NoCallback
      <4>1. Arrived(s) # {r}
        BY <2>1, <3>2
      <4> QED
        BY <1>1, <3>2, <4>1 DEF Test, Serve
    <3> QED
      BY <3>1, <3>2
  <2>4. PICK place \in {"set", "served"} :
          /\ handler' = [handler EXCEPT ![r].at = place]
          /\ place = "set" => result[s] = NoCallback
    BY <1>1 DEF Test, Serve
  <2> HIDE DEF s
  <2>5. /\ \A q \in Requests : handler'[q].of = handler[q].of /\ handler'[q].query = handler[q].query
        /\ \A q \in Requests \ {r} : handler'[q].at = handler[q].at
        /\ handler'[r].at = place
    BY <2>4
  <2>6. TypeOK'
    <3>1. handler' \in [Requests ->
            [at : {"unused", "test", "set", "signal", "served"},
             of : Sessions \cup {None}, query : Callbacks \cup {NoCallback}]]
      BY <2>4
    <3> QED
      BY <2>2, <2>3, <3>1
  <2>7. OwnCodeOnly' /\ PortFollowsSession' /\ CheckedBeforeSent' /\ EventMeansResult'
    BY <2>2
  <2>8. ThreadsInPlace'
    BY <2>1, <2>2, <2>4, <2>5
  <2>9. ResultFromThread'
    BY <2>1, <2>2, <2>4, <2>5
  <2>10. FirstSettled'
    BY <2>1, <2>2, <2>3, <2>4, <2>5 DEF s
  <2>11. FirstServedCounts'
    BY <2>2, <2>3
  <2> QED
    BY <2>6, <2>7, <2>8, <2>9, <2>10, <2>11
<1>2. CASE Set(r)
  <2>1. TypeOK'
    BY <1>2 DEF Set
  <2>2. OwnCodeOnly' /\ PortFollowsSession'
    BY <1>2 DEF Set
  <2>3. CheckedBeforeSent' /\ ThreadsInPlace'
    BY <1>2 DEF Set
  <2>4. EventMeansResult'
    BY <1>2 DEF Set
  <2>5. ResultFromThread'
    BY <1>2 DEF Set
  <2>6. FirstSettled' /\ FirstServedCounts'
    BY <1>2 DEF Set
  <2> QED
    BY <2>1, <2>2, <2>3, <2>4, <2>5, <2>6
<1>3. CASE Signal(r)
  <2> DEFINE s == handler[r].of
  <2>1. s \in Sessions /\ handler[r].query \in Callbacks /\ handler[r].at = "signal"
    BY <1>3 DEF Signal
  <2>2. /\ UNCHANGED <<port, result, driver, world, presented>>
        /\ handler' = [handler EXCEPT ![r].at = "served"]
        /\ received' = [received EXCEPT ![s] = TRUE]
        /\ first' = IF Arrived(s) = {r} THEN [first EXCEPT ![s] = handler[r].query] ELSE first
    BY <1>3 DEF Signal, Serve
  <2>3. result[s] # NoCallback
    BY <2>1
  <2> HIDE DEF s
  <2>4. /\ \A q \in Requests : handler'[q].of = handler[q].of /\ handler'[q].query = handler[q].query
        /\ \A q \in Requests \ {r} : handler'[q].at = handler[q].at
        /\ handler'[r].at = "served"
    BY <2>2
  <2>5. TypeOK'
    <3>1. received' \in [Sessions -> BOOLEAN]
      BY <2>1, <2>2
    <3>2. first' \in [Sessions -> Callbacks \cup {NoCallback}]
      BY <2>1, <2>2
    <3>3. handler' \in [Requests ->
            [at : {"unused", "test", "set", "signal", "served"},
             of : Sessions \cup {None}, query : Callbacks \cup {NoCallback}]]
      BY <2>2
    <3> QED
      BY <2>2, <3>1, <3>2, <3>3
  <2>6. OwnCodeOnly' /\ PortFollowsSession' /\ CheckedBeforeSent'
    BY <2>2
  <2>7. EventMeansResult'
    BY <2>1, <2>2, <2>3
  <2>8. ThreadsInPlace'
    BY <2>1, <2>2, <2>4
  <2>9. ResultFromThread'
    BY <2>1, <2>2, <2>4
  <2>10. CASE Arrived(s) = {r}
    <3>1. result[s] = handler[r].query
      BY <2>1, <2>3, <2>10
    <3>2. \A q \in Requests : handler'[q].at = "set" => handler'[q].of # s
      BY <2>1, <2>4, <2>10
    <3>3. FirstSettled'
      BY <2>1, <2>2, <2>4, <2>10, <3>2
    <3>4. FirstServedCounts'
      BY <2>1, <2>2, <2>10, <3>1
    <3> QED
      BY <2>5, <2>6, <2>7, <2>8, <2>9, <3>3, <3>4
  <2>11. CASE Arrived(s) # {r}
    <3>1. FirstSettled' /\ FirstServedCounts'
      BY <2>1, <2>2, <2>4, <2>11
    <3> QED
      BY <2>5, <2>6, <2>7, <2>8, <2>9, <3>1
  <2> QED
    BY <2>10, <2>11 DEF s
<1>4. ASSUME NEW query \in Redirects, Arrive(r, query) PROVE IInv'
  <2>1. query \in Callbacks
    BY DEF Redirects, Callbacks
  <2> QED
    BY <1>4, <2>1 DEF Arrive
<1> QED
  BY <1>1, <1>2, <1>3, <1>4 DEF Serving

LEMMA StepIInv == ASSUME IInv, Next PROVE IInv'
<1>1. ASSUME NEW s \in Sessions, NEW choice \in {"approved", "refused"}, Decide(s, choice)
      PROVE  IInv'
  BY <1>1
     DEF Decide, IInv, TypeOK, OwnCodeOnly, PortFollowsSession, CheckedBeforeSent, ThreadsInPlace,
         EventMeansResult, ResultFromThread, FirstSettled, FirstServedCounts, Arrived,
         listener, driver
<1> QED
  BY <1>1, DriveIInv, ServeIInv DEF Next

LEMMA StutterIInv == ASSUME IInv, UNCHANGED vars PROVE IInv'
BY DEF IInv, TypeOK, OwnCodeOnly, PortFollowsSession, CheckedBeforeSent, ThreadsInPlace,
       EventMeansResult, ResultFromThread, FirstSettled, FirstServedCounts, Arrived,
       vars, listener, driver, world

-----------------------------------------------------------------------------
(* The theorems.                                                           *)

\* Drivers, threads and port agree at every moment.
THEOREM LoopbackInvariant == Spec => []IInv
<1>1. IInv /\ [Next]_vars => IInv'
  BY StepIInv, StutterIInv
<1> QED
  BY InitIInv, <1>1, PTL DEF Spec

\* exchange_code sends no code of another session, whichever callbacks reach
\* the listener and in whatever order.
THEOREM OnlyOwnCode == Spec => []OwnCodeOnly
<1>1. IInv => OwnCodeOnly
  BY DEF IInv
<1> QED
  BY LoopbackInvariant, <1>1, PTL

\* advance and begin close the listener on every path, failures included.
THEOREM PortFree == Spec => []PortGivenBack
<1>1. IInv => PortGivenBack
  BY DEF IInv, PortFollowsSession, PortGivenBack, Inside, Ended
<1> QED
  BY LoopbackInvariant, <1>1, PTL

\* _capture keeps the callback that was served first, whatever comes later.
THEOREM FirstCallbackStands == Spec => []FirstServedCounts
<1>1. IInv => FirstServedCounts
  BY DEF IInv
<1> QED
  BY LoopbackInvariant, <1>1, PTL
=============================================================================
