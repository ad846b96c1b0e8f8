------------------------------- MODULE Gateway -------------------------------
(***************************************************************************)
(* InferenceGateway (gateway.py): a loopback server with one handler       *)
(* thread per client connection.  Each request is authenticated, routed,   *)
(* given a credential leased from the broker, sent to the provider once,   *)
(* and answered by streaming the provider's response; a request that       *)
(* cannot be forwarded is refused with a status of the gateway's own.  A   *)
(* connection is kept open for its next request (HTTP/1.1) unless the      *)
(* handler closed it.                                                      *)
(*                                                                         *)
(* The broker appears by the ways a lease can end: a credential, a         *)
(* CredentialError, or another exception - ProfileError, for a profile     *)
(* that is unknown or was removed meanwhile, is not a CredentialError.     *)
(* The provider and http.client appear likewise by the ways they can       *)
(* answer, fail and break off.  A status line written to a client that is  *)
(* gone counts as written.                                                 *)
(***************************************************************************)
EXTENDS Integers, Sequences, FiniteSets

CONSTANTS
  Connections,
  History,      \* how many records the gateway keeps
  MaxRequests,  \* bound: requests per connection
  MaxChunks     \* bound: chunks of a response

ASSUME GatewayAssumption ==
  /\ IsFiniteSet(Connections)
  /\ History \in Nat
  /\ MaxRequests \in Nat
  /\ MaxChunks \in Nat

\* What the client sent: the right token or not, a declared route or not, and a
\* body: absent, of declared length, chunked, of a length that is no number, or
\* "misframed" - chunked, but not to _forward, which looks for "chunked" only
\* without a Content-Length and only in lower case ("Chunked" is the same coding).
Bodies == {"none", "sized", "chunked", "malformed", "misframed"}

Requests == [token : BOOLEAN, route : BOOLEAN, body : Bodies]

VARIABLES
  at,        \* where each connection's handler stands
  request,   \* the request it handles, or handled last
  count,     \* requests it has read
  unread,    \* whether the socket stands elsewhere than at that request's end
  misframed, \* history: whether the connection has carried a misframed body
  leased,    \* whether a credential was leased for it
  egress,    \* whether the headers of the provider request hold the credential
  sent,      \* requests sent to the provider for it
  heads,     \* status lines written for it
  chunks,    \* chunks of the provider's response written
  ended,     \* whether the client can tell that the response is over
  short,     \* history: whether the provider sent less of it than it declared
  records,   \* GatewayRecords kept: the number of chunks of each
  delivered  \* history: responses passed on to their end

requestVars == <<request, count, unread, misframed, leased, egress, sent>>
responseVars == <<heads, chunks, ended, short>>
vars == <<at, requestVars, responseVars, records, delivered>>

Stages == {"read", "route", "lease", "send", "head", "stream", "record"}

TypeOK ==
  /\ at \in [Connections -> Stages \cup {"wait", "refuse", "escape", "closed"}]
  /\ request \in [Connections -> Requests]
  /\ count \in [Connections -> 0..MaxRequests]
  /\ unread \in [Connections -> BOOLEAN]
  /\ misframed \in [Connections -> BOOLEAN]
  /\ leased \in [Connections -> BOOLEAN]
  /\ egress \in [Connections -> BOOLEAN]
  /\ sent \in [Connections -> Nat]
  /\ heads \in [Connections -> Nat]
  /\ chunks \in [Connections -> 0..MaxChunks]
  /\ ended \in [Connections -> BOOLEAN]
  /\ short \in [Connections -> BOOLEAN]
  /\ records \in Seq(0..MaxChunks)
  /\ Len(records) <= History
  /\ delivered \in Nat

Init ==
  /\ at = [c \in Connections |-> "wait"]
  /\ request = [c \in Connections |-> [token |-> FALSE, route |-> FALSE, body |-> "none"]]
  /\ count = [c \in Connections |-> 0]
  /\ unread = [c \in Connections |-> FALSE]
  /\ misframed = [c \in Connections |-> FALSE]
  /\ leased = [c \in Connections |-> FALSE]
  /\ egress = [c \in Connections |-> FALSE]
  /\ sent = [c \in Connections |-> 0]
  /\ heads = [c \in Connections |-> 0]
  /\ chunks = [c \in Connections |-> 0]
  /\ ended = [c \in Connections |-> TRUE]
  /\ short = [c \in Connections |-> FALSE]
  /\ records = <<>>
  /\ delivered = 0

Goto(c, stage) == at' = [at EXCEPT ![c] = stage]

-----------------------------------------------------------------------------
(* From the request to the provider.                                       *)

\* The server reads a request line and headers, the body still to come.  On a
\* connection out of step, what it reads may be anything.
Receive(c, r) ==
  /\ at[c] = "wait"
  /\ count[c] < MaxRequests
  /\ count' = [count EXCEPT ![c] = @ + 1]
  /\ request' = [request EXCEPT ![c] = r]
  /\ unread' = [unread EXCEPT ![c] = @ \/ r.body # "none"]
  /\ misframed' = [misframed EXCEPT ![c] = @ \/ r.body = "misframed"]
  /\ leased' = [leased EXCEPT ![c] = FALSE]
  /\ sent' = [sent EXCEPT ![c] = 0]
  /\ heads' = [heads EXCEPT ![c] = 0]
  /\ chunks' = [chunks EXCEPT ![c] = 0]
  /\ ended' = [ended EXCEPT ![c] = FALSE]
  /\ short' = [short EXCEPT ![c] = FALSE]
  /\ Goto(c, "read")
  /\ UNCHANGED <<egress, records, delivered>>

\* Mutant: the token is compared only once a route has been found.
MutantAuthorize(c) ==
  /\ at[c] = "read"
  /\ request[c].body \in {"none", "sized", "misframed"}
  /\ Goto(c, "route")
  /\ UNCHANGED <<requestVars, responseVars, records, delivered>>

\* forward looks at the token first.
Authorize(c) ==
  /\ at[c] = "read"
  /\ request[c].body \in {"none", "sized", "misframed"}
  /\ Goto(c, IF request[c].token THEN "route" ELSE "refuse")
  /\ UNCHANGED <<requestVars, responseVars, records, delivered>>

\* _forward refuses a body it knows for chunked; int() raises on a malformed length.
UndeclaredBody(c) ==
  /\ at[c] = "read"
  /\ request[c].body \in {"chunked", "malformed"}
  /\ Goto(c, IF request[c].body = "chunked" THEN "refuse" ELSE "escape")
  /\ UNCHANGED <<requestVars, responseVars, records, delivered>>

Route(c) ==
  /\ at[c] = "route"
  /\ Goto(c, IF request[c].route THEN "lease" ELSE "refuse")
  /\ UNCHANGED <<requestVars, responseVars, records, delivered>>

\* broker.lease, and the egress headers built while the lease is open.
Lease(c) ==
  /\ at[c] = "lease"
  /\ leased' = [leased EXCEPT ![c] = TRUE]
  /\ egress' = [egress EXCEPT ![c] = TRUE]
  /\ Goto(c, "send")
  /\ UNCHANGED <<request, count, unread, misframed, sent, responseVars, records, delivered>>

\* No credential: a CredentialError is refused, any other exception escapes.
NoCredential(c) ==
  /\ at[c] = "lease"
  /\ \/ Goto(c, "refuse")
     \/ Goto(c, "escape")
  /\ UNCHANGED <<requestVars, responseVars, records, delivered>>

\* The one request to the provider.  It passes on as many bytes as Content-Length
\* says, none without one, before the response is read: that is the body's end
\* unless it was misframed.  An OSError becomes UpstreamUnavailable, an
\* HTTPException escapes.  Whichever way, the credential leaves the headers.
Transport(c) ==
  /\ at[c] = "send"
  /\ sent' = [sent EXCEPT ![c] = @ + 1]
  /\ egress' = [egress EXCEPT ![c] = FALSE]
  /\ \/ /\ \E off \in BOOLEAN : (off => misframed[c]) /\ unread' = [unread EXCEPT ![c] = off]
        /\ Goto(c, "head")
     \/ unread' = unread /\ \/ Goto(c, "refuse") \/ Goto(c, "escape")
  /\ UNCHANGED <<request, count, misframed, leased, responseVars, records, delivered>>

-----------------------------------------------------------------------------
(* From the provider back to the client.                                   *)

\* sink.begin: the provider's own status and headers.
BeginResponse(c) ==
  /\ at[c] = "head"
  /\ heads' = [heads EXCEPT ![c] = @ + 1]
  /\ Goto(c, "stream")
  /\ UNCHANGED <<requestVars, chunks, ended, short, records, delivered>>

StreamChunk(c) ==
  /\ at[c] = "stream"
  /\ chunks[c] < MaxChunks
  /\ chunks' = [chunks EXCEPT ![c] = @ + 1]
  /\ UNCHANGED <<at, requestVars, heads, ended, short, records, delivered>>

\* The provider's response is over, and sink.finish ends the client's.  read1 of
\* http.client says nothing if the provider closed before its declared length;
\* then finish has nothing to write and the client still waits for the rest.
EndOfStream(c) ==
  /\ at[c] = "stream"
  /\ \E complete \in BOOLEAN :
       /\ ended' = [ended EXCEPT ![c] = complete]
       /\ short' = [short EXCEPT ![c] = ~complete]
  /\ delivered' = delivered + 1
  /\ Goto(c, "record")
  /\ UNCHANGED <<requestVars, heads, chunks, records>>

\* Mutant: a stream that broke is recorded like any other.
MutantBreakOff(c) ==
  /\ at[c] \in {"head", "stream"}
  /\ Goto(c, "record")
  /\ UNCHANGED <<requestVars, responseVars, records, delivered>>

\* The provider's connection or the client's fails on the way: an OSError is
\* handled, an HTTPException escapes.
BreakOff(c) ==
  /\ at[c] \in {"head", "stream"}
  /\ \/ Goto(c, "refuse")
     \/ Goto(c, "escape")
  /\ UNCHANGED <<requestVars, responseVars, records, delivered>>

\* Mutant: the oldest record goes one append too late.
MutantKept(log, record) ==
  LET all == Append(log, record) IN
  IF Len(all) > History + 1 THEN Tail(all) ELSE all

\* deque(maxlen=history).append
Kept(log, record) ==
  LET all == Append(log, record) IN
  IF Len(all) > History THEN Tail(all) ELSE all

\* The record, and the connection waits for its next request.
Record(c) ==
  /\ at[c] = "record"
  /\ records' = Kept(records, chunks[c])
  /\ Goto(c, "wait")
  /\ UNCHANGED <<requestVars, responseVars, delivered>>

-----------------------------------------------------------------------------
(* Everything that goes wrong ends the connection.                         *)

\* _refuse: a status of the gateway's own, unless the provider's has been written.
Refuse(c) ==
  /\ at[c] = "refuse"
  /\ heads' = [heads EXCEPT ![c] = IF heads[c] = 0 THEN 1 ELSE @]
  /\ ended' = [ended EXCEPT ![c] = TRUE]
  /\ Goto(c, "closed")
  /\ UNCHANGED <<requestVars, chunks, short, records, delivered>>

\* Mutant: the connection survives an exception of its handler.
MutantEscape(c) ==
  /\ at[c] = "escape"
  /\ Goto(c, "wait")
  /\ UNCHANGED <<requestVars, responseVars, records, delivered>>

\* The exception ends the handler thread; the server closes the connection.
Escape(c) ==
  /\ at[c] = "escape"
  /\ ended' = [ended EXCEPT ![c] = TRUE]
  /\ Goto(c, "closed")
  /\ UNCHANGED <<requestVars, heads, chunks, short, records, delivered>>

\* The client closes a connection it does not need any more.
HangUp(c) ==
  /\ at[c] = "wait"
  /\ Goto(c, "closed")
  /\ UNCHANGED <<requestVars, responseVars, records, delivered>>

-----------------------------------------------------------------------------

Handle(c) ==
  \/ \E r \in Requests : Receive(c, r)
  \/ UndeclaredBody(c) \/ Authorize(c) \/ Route(c)
  \/ Lease(c) \/ NoCredential(c) \/ Transport(c)
  \/ BeginResponse(c) \/ StreamChunk(c) \/ EndOfStream(c) \/ BreakOff(c) \/ Record(c)
  \/ Refuse(c) \/ Escape(c) \/ HangUp(c)

Next == \E c \in Connections : Handle(c)

Spec == Init /\ [][Next]_vars

-----------------------------------------------------------------------------
(* What the gateway promises.                                              *)

\* The client never sees two status lines for one request: a refusal after the
\* provider's status has been written only closes the connection.
OneStatusLine == \A c \in Connections : heads[c] <= 1

\* "Never two": a client request becomes at most one request to the provider, and
\* none, with no secret read, unless it carried the token and named a route.
OneAuthorizedRequest ==
  \A c \in Connections :
    /\ sent[c] <= 1
    /\ leased[c] \/ sent[c] > 0 => request[c].token /\ request[c].route

\* A connection that waits for another request is in step with its client: the
\* last request's body has been read to its end, unless the client has misframed
\* one, and its response was ended, unless the provider cut it short.  Otherwise
\* the rest of one message would be read as the start of the next.
KeptInStep ==
  \A c \in Connections :
    at[c] = "wait" => (unread[c] => misframed[c]) /\ (ended[c] \/ short[c])

\* The handlers between the end of a response and its record.
Recording == {c \in Connections : at[c] = "record"}

\* Every response passed on to its end is recorded, once and for good until the
\* history is full, and nothing else is: not a refusal, not a broken stream.
RecordedOnce ==
  LET recorded == delivered - Cardinality(Recording)
  IN  /\ recorded >= 0
      /\ Len(records) = IF recorded < History THEN recorded ELSE History

-----------------------------------------------------------------------------
(* The inductive invariant behind the promises on single connections.      *)

\* Nothing has been asked of the provider, or told the client, before its turn.
NothingAhead ==
  \A c \in Connections :
    /\ at[c] \in {"read", "route", "lease", "send"} => sent[c] = 0 /\ heads[c] = 0
    /\ at[c] \in {"read", "route", "lease"} => ~leased[c]
    /\ at[c] = "head" => heads[c] = 0

\* Who is past a check has passed it.
ChecksPassed ==
  \A c \in Connections :
    /\ at[c] = "route" => request[c].token
    /\ at[c] \in {"lease", "send"} => request[c].token /\ request[c].route

\* The body has been passed on before the response begins, as far as its framing
\* was understood.
BodyPassedOn ==
  \A c \in Connections :
    at[c] \in {"head", "stream", "record"} => (unread[c] => misframed[c])

\* What is about to be recorded has been ended, as far as the provider did.
RecordedEnded == \A c \in Connections : at[c] = "record" => ended[c] \/ short[c]

IInv ==
  /\ TypeOK
  /\ OneStatusLine
  /\ OneAuthorizedRequest
  /\ NothingAhead
  /\ ChecksPassed
  /\ BodyPassedOn
  /\ RecordedEnded
  /\ KeptInStep
=============================================================================
