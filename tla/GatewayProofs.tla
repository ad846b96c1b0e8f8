---------------------------- MODULE GatewayProofs ----------------------------
(***************************************************************************)
(* Gateway for every set of connections, every length of history and of    *)
(* response: one status line, one authorized provider request, connections *)
(* in step with their clients, and one record per response.                *)
(***************************************************************************)
EXTENDS Gateway, SequenceTheorems, FiniteSetTheorems, TLAPS

-----------------------------------------------------------------------------
(* The history.                                                            *)

\* Appending to the history keeps it a sequence of records of bounded length.
LEMMA KeptType ==
  ASSUME NEW S, NEW log \in Seq(S), Len(log) <= History, NEW r \in S
  PROVE  /\ Kept(log, r) \in Seq(S) /\ Len(Kept(log, r)) <= History
         /\ Len(Kept(log, r)) = IF Len(log) < History THEN Len(log) + 1 ELSE History
<1> DEFINE all == Append(log, r)
<1>1. History \in Nat
  BY GatewayAssumption
<1>2. all \in Seq(S) /\ Len(all) = Len(log) + 1 /\ Len(log) \in Nat
  BY AppendProperties, LenProperties
<1>3. CASE Len(all) > History
  <2>1. all # <<>>
    <3> SUFFICES ASSUME all = <<>> PROVE FALSE
      OBVIOUS
    <3>1. Len(all) = 0
      OBVIOUS
    <3> QED
      BY <1>2, <3>1
  <2>2. Tail(all) \in Seq(S) /\ Len(Tail(all)) = Len(all) - 1
    BY <1>2, <2>1, HeadTailProperties
  <2> QED
    BY <1>1, <1>2, <1>3, <2>2 DEF Kept
<1>4. CASE ~(Len(all) > History)
  BY <1>1, <1>2, <1>4 DEF Kept
<1> QED
  BY <1>3, <1>4

-----------------------------------------------------------------------------
(* The inductive invariant.                                                *)

LEMMA InitIInv == ASSUME Init PROVE IInv
<1>1. records = <<>> => records \in Seq(0..MaxChunks) /\ Len(records) = 0
  BY EmptySeq
<1> QED
  BY <1>1, GatewayAssumption
     DEF Init, IInv, TypeOK, Requests, Bodies, Stages, OneStatusLine, OneAuthorizedRequest,
         NothingAhead, ChecksPassed, BodyPassedOn, RecordedEnded, KeptInStep

\* One case per step of a handler; the steps of one connection leave the others'
\* parts of the invariant alone.
LEMMA StepIInv ==
  ASSUME IInv, NEW c \in Connections, Handle(c)
  PROVE  IInv'
<1> USE GatewayAssumption
    DEF IInv, TypeOK, Requests, Bodies, Stages, Goto, OneStatusLine, OneAuthorizedRequest,
        NothingAhead, ChecksPassed, BodyPassedOn, RecordedEnded, KeptInStep,
        requestVars, responseVars
<1>1. ASSUME NEW r \in Requests, Receive(c, r) PROVE IInv'
  BY <1>1 DEF Receive
<1>2. CASE UndeclaredBody(c)
  BY <1>2 DEF UndeclaredBody
<1>3. CASE Authorize(c)
  BY <1>3 DEF Authorize
<1>4. CASE Route(c)
  BY <1>4 DEF Route
<1>5. CASE Lease(c)
  BY <1>5 DEF Lease
<1>6. CASE NoCredential(c)
  <2>1. TypeOK'
    <3>1. at' \in [Connections -> Stages \cup {"wait", "refuse", "escape", "closed"}]
      BY <1>6 DEF NoCredential
    <3> QED
      BY <1>6, <3>1 DEF NoCredential
  <2>2. OneStatusLine' /\ OneAuthorizedRequest' /\ NothingAhead' /\ ChecksPassed'
    BY <1>6 DEF NoCredential
  <2>3. BodyPassedOn' /\ RecordedEnded' /\ KeptInStep'
    BY <1>6 DEF NoCredential
  <2> QED
    BY <2>1, <2>2, <2>3
<1>7. CASE Transport(c)
  <2>1. TypeOK'
    <3>1. unread' \in [Connections -> BOOLEAN]
      <4>1. PICK off \in BOOLEAN : unread' \in {unread, [unread EXCEPT ![c] = off]}
        BY <1>7 DEF Transport
      <4> QED
        BY <4>1
    <3>2. sent' \in [Connections -> Nat]
      BY <1>7 DEF Transport
    <3>3. at' \in [Connections -> Stages \cup {"wait", "refuse", "escape", "closed"}]
      BY <1>7 DEF Transport
    <3> QED
      BY <1>7, <3>1, <3>2, <3>3 DEF Transport
  <2>2. OneStatusLine' /\ OneAuthorizedRequest'
    BY <1>7 DEF Transport
  <2>3. NothingAhead' /\ ChecksPassed'
    BY <1>7 DEF Transport
  <2>4. BodyPassedOn'
    BY <1>7 DEF Transport
  <2>5. RecordedEnded' /\ KeptInStep'
    BY <1>7 DEF Transport
  <2> QED
    BY <2>1, <2>2, <2>3, <2>4, <2>5
<1>8. CASE BeginResponse(c)
  BY <1>8 DEF BeginResponse
<1>9. CASE StreamChunk(c)
  BY <1>9 DEF StreamChunk
<1>10. CASE EndOfStream(c)
  <2>1. PICK complete \in BOOLEAN :
           /\ ended' = [ended EXCEPT ![c] = complete]
           /\ short' = [short EXCEPT ![c] = ~complete]
    BY <1>10 DEF EndOfStream
  <2>2. /\ ended' \in [Connections -> BOOLEAN]
        /\ short' \in [Connections -> BOOLEAN]
    BY <2>1
  <2>3. ended'[c] \/ short'[c]
    BY <2>1
  <2>4. \A d \in Connections \ {c} : ended'[d] = ended[d] /\ short'[d] = short[d]
    BY <2>1
  <2>5. TypeOK'
    BY <1>10, <2>2 DEF EndOfStream
  <2>6. RecordedEnded' /\ KeptInStep'
    BY <1>10, <2>3, <2>4 DEF EndOfStream
  <2>7. OneStatusLine' /\ OneAuthorizedRequest'
    BY <1>10 DEF EndOfStream
  <2>8. NothingAhead' /\ ChecksPassed' /\ BodyPassedOn'
    BY <1>10 DEF EndOfStream
  <2> QED
    BY <2>5, <2>6, <2>7, <2>8
<1>11. CASE BreakOff(c)
  <2>1. TypeOK'
    <3>1. at' \in [Connections -> Stages \cup {"wait", "refuse", "escape", "closed"}]
      BY <1>11 DEF BreakOff
    <3> QED
      BY <1>11, <3>1 DEF BreakOff
  <2>2. OneStatusLine' /\ OneAuthorizedRequest' /\ NothingAhead' /\ ChecksPassed'
    BY <1>11 DEF BreakOff
  <2>3. BodyPassedOn' /\ RecordedEnded' /\ KeptInStep'
    BY <1>11 DEF BreakOff
  <2> QED
    BY <2>1, <2>2, <2>3
<1>12. CASE Record(c)
  <2>1. records' \in Seq(0..MaxChunks) /\ Len(records') <= History
    BY <1>12, KeptType DEF Record
  <2> QED
    BY <1>12, <2>1 DEF Record
<1>13. CASE Refuse(c)
  BY <1>13 DEF Refuse
<1>14. CASE Escape(c)
  BY <1>14 DEF Escape
<1>15. CASE HangUp(c)
  BY <1>15 DEF HangUp
<1> QED
  BY <1>1, <1>2, <1>3, <1>4, <1>5, <1>6, <1>7, <1>8, <1>9, <1>10, <1>11, <1>12, <1>13,
     <1>14, <1>15 DEF Handle

LEMMA StutterIInv == ASSUME IInv, UNCHANGED vars PROVE IInv'
BY DEF IInv, TypeOK, OneStatusLine, OneAuthorizedRequest, NothingAhead, ChecksPassed,
       BodyPassedOn, RecordedEnded, KeptInStep, vars, requestVars, responseVars

\* The inductive invariant holds in every behaviour of the gateway.
THEOREM GatewayInvariant == Spec => []IInv
<1>1. Init => IInv
  BY InitIInv
<1>2. IInv /\ [Next]_vars => IInv'
  BY StepIInv, StutterIInv DEF Next
<1> QED
  BY <1>1, <1>2, PTL DEF Spec

-----------------------------------------------------------------------------
(* What the gateway promises.                                              *)

\* No request is answered with two status lines.
THEOREM SingleStatusLine == Spec => []OneStatusLine
<1>1. IInv => OneStatusLine
  BY DEF IInv
<1> QED
  BY <1>1, GatewayInvariant, PTL

\* No request becomes two provider requests, and none without token and route
\* reads a secret or reaches a provider.
THEOREM SingleAuthorizedRequest == Spec => []OneAuthorizedRequest
<1>1. IInv => OneAuthorizedRequest
  BY DEF IInv
<1> QED
  BY <1>1, GatewayInvariant, PTL

\* A connection that waits for its next request is in step with its client, unless
\* the client has framed a body otherwise than the handler reads it, or the
\* provider cut the last response short.
THEOREM ConnectionsInStep == Spec => []KeptInStep
<1>1. IInv => KeptInStep
  BY DEF IInv
<1> QED
  BY <1>1, GatewayInvariant, PTL

-----------------------------------------------------------------------------
(* The history and the handlers that are about to add to it.               *)

\* A handler whose response is over is counted before it records, and leaves the
\* count of those who still have to when it does; no other step touches either.
LEMMA RecordingStep ==
  ASSUME TypeOK, NEW c \in Connections, Handle(c)
  PROVE  \/ /\ c \notin Recording /\ Recording' = Recording \cup {c}
            /\ delivered' = delivered + 1 /\ records' = records
         \/ /\ c \in Recording /\ Recording' = Recording \ {c}
            /\ delivered' = delivered /\ records' = Kept(records, chunks[c])
         \/ Recording' = Recording /\ delivered' = delivered /\ records' = records
<1> USE DEF Goto, Recording
<1>0. at \in [Connections -> Stages \cup {"wait", "refuse", "escape", "closed"}]
  BY DEF TypeOK
<1>1. CASE EndOfStream(c)
  BY <1>0, <1>1 DEF EndOfStream
<1>2. CASE Record(c)
  BY <1>0, <1>2 DEF Record
<1>3. CASE (\E r \in Requests : Receive(c, r)) \/ UndeclaredBody(c) \/ Authorize(c) \/ Route(c)
  BY <1>0, <1>3 DEF Receive, UndeclaredBody, Authorize, Route
<1>4. CASE Lease(c) \/ NoCredential(c) \/ Transport(c) \/ BeginResponse(c) \/ StreamChunk(c)
  BY <1>0, <1>4 DEF Lease, NoCredential, Transport, BeginResponse, StreamChunk
<1>5. CASE BreakOff(c) \/ Refuse(c) \/ Escape(c) \/ HangUp(c)
  BY <1>0, <1>5 DEF BreakOff, Refuse, Escape, HangUp
<1> QED
  BY <1>1, <1>2, <1>3, <1>4, <1>5 DEF Handle

LEMMA RecordedOnceStep == ASSUME TypeOK, RecordedOnce, [Next]_vars PROVE RecordedOnce'
<1>0. /\ IsFiniteSet(Recording) /\ Cardinality(Recording) \in Nat
      /\ History \in Nat /\ delivered \in Nat /\ Len(records) \in Nat
  <2>1. IsFiniteSet(Recording)
    BY GatewayAssumption, FS_Subset DEF Recording
  <2> QED
    BY <2>1, FS_CardinalityType, GatewayAssumption DEF TypeOK
<1>1. CASE UNCHANGED vars
  BY <1>1 DEF vars, RecordedOnce, Recording
<1>2. ASSUME NEW c \in Connections, Handle(c) PROVE RecordedOnce'
  <2>1. CASE /\ c \notin Recording /\ Recording' = Recording \cup {c}
             /\ delivered' = delivered + 1 /\ records' = records
    <3>1. Cardinality(Recording') = Cardinality(Recording) + 1
      BY <1>0, <2>1, FS_AddElement
    <3> QED
      BY <1>0, <2>1, <3>1 DEF RecordedOnce
  <2>2. CASE /\ c \in Recording /\ Recording' = Recording \ {c}
             /\ delivered' = delivered /\ records' = Kept(records, chunks[c])
    <3>1. Cardinality(Recording') = Cardinality(Recording) - 1
      BY <1>0, <2>2, FS_RemoveElement
    <3>2. Len(records') = IF Len(records) < History THEN Len(records) + 1 ELSE History
      BY <2>2, KeptType DEF TypeOK
    <3> QED
      BY <1>0, <2>2, <3>1, <3>2 DEF RecordedOnce
  <2>3. CASE Recording' = Recording /\ delivered' = delivered /\ records' = records
    BY <2>3 DEF RecordedOnce
  <2> QED
    BY <1>2, <2>1, <2>2, <2>3, RecordingStep
<1> QED
  BY <1>1, <1>2 DEF Next

\* Every response passed on to its end is recorded once, and nothing else is.
THEOREM ResponsesRecorded == Spec => []RecordedOnce
<1>1. Init => RecordedOnce
  <2> SUFFICES ASSUME Init PROVE RecordedOnce
    OBVIOUS
  <2>1. Recording = {} /\ delivered = 0 /\ Len(records) = 0
    BY DEF Init, Recording
  <2> QED
    BY <2>1, FS_EmptySet, GatewayAssumption DEF RecordedOnce
<1>2. IInv => TypeOK
  BY DEF IInv
<1>3. TypeOK /\ RecordedOnce /\ [Next]_vars => RecordedOnce'
  BY RecordedOnceStep
<1> QED
  BY <1>1, <1>2, <1>3, GatewayInvariant, PTL DEF Spec
=============================================================================
