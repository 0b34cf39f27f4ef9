----------------------------- MODULE RpcServer -----------------------------
(***************************************************************************)
(* zrpc/server: JSON-RPC over TCP.  A message is a line with the length of *)
(* its body and the body, a request or an array of requests (a batch).     *)
(* onMessage runs on the connection's IO loop; setThreadNums(3) gives each *)
(* of up to three connections a loop of its own.  A procedure is called on *)
(* that loop and calls done from any thread, at once or later.  The answer *)
(* of a batch is sent by the destructor of data that the loop's frame and  *)
(* every call still to be answered own together (ThreadSafeBatchResponse). *)
(*                                                                         *)
(* The stream is cut into tokens, lengths and bodies, which arrive in any  *)
(* portions.  onMessage catches only const char*: a base/Exception leaves  *)
(* the loop, and unwinding it fails the assertion of ~EventLoop, which     *)
(* stops the process (aborted).                                            *)
(***************************************************************************)
EXTENDS Integers, Sequences, FiniteSets

CONSTANTS
  Clients,              \* the connections
  Menu,                 \* the messages clients may send
  MaxMessages,          \* bound on the messages of a client
  MaxBatch              \* bound on the requests of a message

\* What the server tells apart in a request: whether it has an id, is an object
\* with the right members, names a service and a procedure that exist, and has
\* the parameters of the procedure.
Request == [id: BOOLEAN, wellFormed: BOOLEAN,
            service: BOOLEAN, method: BOOLEAN, params: BOOLEAN]

\* A "blank" is an empty line, "badLength" a length line that is not a number
\* in range; the rest are bodies: "garbage" is no JSON object or array.
Form == {"object", "array", "garbage", "blank", "badLength"}

ASSUME MaxAssumption == MaxMessages \in Nat /\ MaxBatch \in Nat \ {0}
ASSUME MenuAssumption ==
  \A m \in Menu : /\ m.form \in Form
                  /\ m.requests \in Seq(Request)
                  /\ Len(m.requests) <= MaxBatch
                  /\ m.form = "object" => Len(m.requests) = 1

Number == 1 .. MaxMessages
Call == Clients \X Number \X (1 .. MaxBatch)

VARIABLES
  log,                  \* ghost: the messages a client has sent
  hasty,                \* ghost: clients that sent before the last was taken
  wire,                 \* tokens on their way to the server
  inbuf,                \* inputBuffer_ of the connection
  open,                 \* connections not closed
  pc,                   \* where the loop is: idle, parse, batch
  cur,                  \* the message being handled
  elem,                 \* handleBatchRequests' i, from 1
  call,                 \* how far the call of a procedure is
  responses,            \* ThreadSafeData::responses, the ids in it
  sent,                 \* the answers written to a connection
  aborted               \* an exception left a loop

clientVars == <<log, hasty, wire>>
loopVars == <<inbuf, pc, cur, elem>>
answerVars == <<call, responses, sent>>
vars == <<clientVars, loopVars, answerVars, open, aborted>>

Token == [kind: {"head", "body", "blank", "bad"}, n: Number]
Answer == [n: Number, ids: SUBSET (1 .. MaxBatch)]

Types ==
  /\ log \in [Clients -> Seq(Menu)]
  /\ hasty \in SUBSET Clients
  /\ wire \in [Clients -> Seq(Token)]
  /\ inbuf \in [Clients -> Seq(Token)]
  /\ open \in SUBSET Clients
  /\ pc \in [Clients -> {"idle", "parse", "batch"}]
  /\ cur \in [Clients -> 0 .. MaxMessages]
  /\ elem \in [Clients -> 1 .. MaxBatch + 1]
  /\ call \in [Call -> {"none", "running", "added", "released"}]
  /\ responses \in [Clients \X Number -> SUBSET (1 .. MaxBatch)]
  /\ sent \in [Clients -> Seq(Answer)]
  /\ aborted \in BOOLEAN

\* The types; the loop is inside handleBatchRequests only with a batch, and only
\* batches collect responses.
TypeOK ==
  /\ Types
  /\ \A c \in Clients :
       pc[c] = "batch" => cur[c] # 0 /\ log[c][cur[c]].form = "array"
  /\ \A c \in Clients, n \in Number :
       responses[<<c, n>>] # {} => log[c][n].form = "array"

Init ==
  /\ log = [c \in Clients |-> <<>>]
  /\ hasty = {}
  /\ wire = [c \in Clients |-> <<>>]
  /\ inbuf = [c \in Clients |-> <<>>]
  /\ open = Clients
  /\ pc = [c \in Clients |-> "idle"]
  /\ cur = [c \in Clients |-> 0]
  /\ elem = [c \in Clients |-> 1]
  /\ call = [k \in Call |-> "none"]
  /\ responses = [p \in Clients \X Number |-> {}]
  /\ sent = [c \in Clients |-> <<>>]
  /\ aborted = FALSE

-----------------------------------------------------------------------------
(* The client's side and the network. *)

\* RpcClient::sendRequest puts the length before the body.
Frame(m, n) ==
  LET token(kind) == [kind |-> kind, n |-> n]
  IN  IF m.form = "blank" THEN <<token("blank")>>
      ELSE <<token(IF m.form = "badLength" THEN "bad" ELSE "head"), token("body")>>

Send(c, m) ==
  /\ ~aborted /\ c \in open
  /\ Len(log[c]) < MaxMessages
  /\ log' = [log EXCEPT ![c] = Append(@, m)]
  /\ wire' = [wire EXCEPT ![c] = @ \o Frame(m, Len(log[c]) + 1)]
  /\ hasty' = IF wire[c] = <<>> /\ inbuf[c] = <<>> THEN hasty ELSE hasty \cup {c}
  /\ UNCHANGED <<loopVars, answerVars, open, aborted>>

\* handleRead: some of what is on the way is read into inputBuffer_, and the
\* message callback entered.
Read(c) ==
  /\ ~aborted /\ c \in open
  /\ pc[c] = "idle"
  /\ \E k \in 1 .. Len(wire[c]) :
       /\ inbuf' = [inbuf EXCEPT ![c] = @ \o SubSeq(wire[c], 1, k)]
       /\ wire' = [wire EXCEPT ![c] = SubSeq(@, k + 1, Len(@))]
  /\ pc' = [pc EXCEPT ![c] = "parse"]
  /\ UNCHANGED <<log, hasty, cur, elem, answerVars, open, aborted>>

\* The peer closes; what is answered later is not sent.
Close(c) ==
  /\ ~aborted /\ c \in open
  /\ pc[c] = "idle"
  /\ open' = open \ {c}
  /\ UNCHANGED <<clientVars, loopVars, answerVars, aborted>>

-----------------------------------------------------------------------------
(* What is done with one request. *)

isNotify(r) == ~r.id
validateRequest(r) == r.id /\ r.wellFormed
\* It looks for an id too, although it is called for requests without one.
validateNotify(r) == r.id /\ r.wellFormed

\* callProcedureReturn and callProcedureNotify find the procedure, which checks
\* the number and the types (and names) of its parameters.
findProcedure(r) == r.method
validateGeneric(r) == r.params

\* handleSingleRequest and handleSingleNotify: "throws" is an Exception,
\* "refused" a const char*.
Dispatch(r) ==
  LET valid == IF isNotify(r) THEN validateNotify(r) ELSE validateRequest(r)
  IN  IF ~valid \/ ~r.service THEN "throws"
      ELSE IF ~findProcedure(r) \/ ~validateGeneric(r) THEN "refused"
      ELSE "called"

BatchElement(c) == log[c][cur[c]].requests[elem[c]]

\* A mistake: the frame's share of the data does not count.
FrameOwns_Not(c, n) == FALSE

\* The owners of a batch's data: the frame of handleBatchRequests and the
\* callbacks of the calls not yet finished.
FrameOwns(c, n) == pc[c] = "batch" /\ cur[c] = n
CallsOwning(c, n) ==
  {i \in 1 .. MaxBatch : call[<<c, n, i>>] \in {"running", "added"}}

\* sendResponse; TcpConnection::send does nothing on a closed connection.
SendResponse(c, answer) ==
  sent' = IF c \in open THEN [sent EXCEPT ![c] = Append(@, answer)] ELSE sent

\* ~ThreadSafeData
SendBatch(c, n) == SendResponse(c, [n |-> n, ids |-> responses[<<c, n>>]])

-----------------------------------------------------------------------------
(* The loop: onMessage, handleMessage, handleRequest. *)

AtParse(c) == ~aborted /\ pc[c] = "parse"

FrontIs(c, kind) == inbuf[c] # <<>> /\ Head(inbuf[c]).kind = kind

\* A mistake: the length line is enough.
HasMessage_LengthOnly(c) == FrontIs(c, "head")

\* readableBytes() covers the length line and the body after it.
HasMessage(c) == FrontIs(c, "head") /\ Len(inbuf[c]) >= 2

ReturnTo(c, where) == pc' = [pc EXCEPT ![c] = where]

\* No length line, or not the whole body yet.
NeedMore(c) ==
  /\ AtParse(c)
  /\ inbuf[c] = <<>> \/ (FrontIs(c, "head") /\ ~HasMessage(c))
  /\ ReturnTo(c, "idle")
  /\ UNCHANGED <<clientVars, inbuf, cur, elem, answerVars, open, aborted>>

\* An empty line is dropped, but what follows it waits for the next read.
SkipBlank(c) ==
  /\ AtParse(c)
  /\ FrontIs(c, "blank")
  /\ inbuf' = [inbuf EXCEPT ![c] = Tail(@)]
  /\ ReturnTo(c, "idle")
  /\ UNCHANGED <<clientVars, cur, elem, answerVars, open, aborted>>

\* An invalid length throws a const char*; nothing is retrieved.
BadLength(c) ==
  /\ AtParse(c)
  /\ FrontIs(c, "bad") \/ FrontIs(c, "body")
  /\ ReturnTo(c, "idle")
  /\ UNCHANGED <<clientVars, inbuf, cur, elem, answerVars, open, aborted>>

\* retrieve(headerLen) and retrieveAsString() take all there is; the parser
\* accepts one JSON value and white space.
Taken(c) == Tail(inbuf[c])
Parses(c) ==
  /\ Taken(c) # <<>>
  /\ log[c][Head(Taken(c)).n].form # "garbage"
  /\ \A i \in 2 .. Len(Taken(c)) : Taken(c)[i].kind = "blank"

Take(c) ==
  /\ AtParse(c)
  /\ HasMessage(c)
  /\ inbuf' = [inbuf EXCEPT ![c] = <<>>]
  /\ cur' = [cur EXCEPT ![c] = Head(inbuf[c]).n]

NextMessage(c) == log[c][Head(inbuf[c]).n]

\* A body that is not one JSON object or non-empty array: an Exception.
RejectBody(c) ==
  /\ Take(c)
  /\ ~Parses(c) \/ NextMessage(c).requests = <<>>
  /\ aborted' = TRUE
  /\ UNCHANGED <<clientVars, pc, elem, answerVars, open>>

StartCall(k) == call' = [call EXCEPT ![k] = "running"]

\* A single request: its procedure is called, or one of the exceptions leaves
\* handleMessage.
HandleSingle(c) ==
  /\ Take(c)
  /\ Parses(c) /\ NextMessage(c).form = "object"
  /\ LET r == NextMessage(c).requests[1]
         result == Dispatch(r)
     IN  /\ IF result = "called" /\ ~isNotify(r)
              THEN StartCall(<<c, Head(inbuf[c]).n, 1>>) ELSE UNCHANGED call
         /\ ReturnTo(c, IF result = "refused" THEN "idle" ELSE "parse")
         /\ aborted' = (result = "throws")
  /\ UNCHANGED <<clientVars, elem, responses, sent, open>>

\* handleBatchRequests creates the shared data.
EnterBatch(c) ==
  /\ Take(c)
  /\ Parses(c) /\ NextMessage(c).form = "array" /\ NextMessage(c).requests # <<>>
  /\ elem' = [elem EXCEPT ![c] = 1]
  /\ ReturnTo(c, "batch")
  /\ UNCHANGED <<clientVars, answerVars, open, aborted>>

InBatch(c) == ~aborted /\ pc[c] = "batch"
BatchLeft(c) == elem[c] <= Len(log[c][cur[c]].requests)

\* The next request of the batch is dispatched and accepted.
HandleElement(c) ==
  /\ InBatch(c) /\ BatchLeft(c)
  /\ Dispatch(BatchElement(c)) = "called"
  /\ IF isNotify(BatchElement(c))
       THEN UNCHANGED call ELSE StartCall(<<c, cur[c], elem[c]>>)
  /\ elem' = [elem EXCEPT ![c] = @ + 1]
  /\ UNCHANGED <<clientVars, inbuf, pc, cur, responses, sent, open, aborted>>

\* A mistake: the frame is never the last owner.
ReleaseFrame_NeverLast(c) == UNCHANGED sent

\* The frame gives up its share of the data; the last owner sends the answer.
ReleaseFrame(c) ==
  IF CallsOwning(c, cur[c]) = {} THEN SendBatch(c, cur[c]) ELSE UNCHANGED sent

LeaveBatch(c, where) ==
  /\ ReleaseFrame(c)
  /\ ReturnTo(c, where)
  /\ UNCHANGED <<clientVars, inbuf, cur, elem, call, responses, open>>

BatchDone(c) ==
  /\ InBatch(c) /\ ~BatchLeft(c)
  /\ LeaveBatch(c, "parse")
  /\ UNCHANGED aborted

\* An exception in the middle of a batch: the calls already made go on, and
\* the rest of the batch is not looked at.
BatchRefused(c) ==
  /\ InBatch(c) /\ BatchLeft(c)
  /\ Dispatch(BatchElement(c)) = "refused"
  /\ LeaveBatch(c, "idle")
  /\ UNCHANGED aborted

BatchThrows(c) ==
  /\ InBatch(c) /\ BatchLeft(c)
  /\ Dispatch(BatchElement(c)) = "throws"
  /\ LeaveBatch(c, "idle")
  /\ aborted' = TRUE

Loop(c) ==
  \/ NeedMore(c)
  \/ SkipBlank(c)
  \/ BadLength(c)
  \/ RejectBody(c)
  \/ HandleSingle(c)
  \/ EnterBatch(c)
  \/ HandleElement(c)
  \/ BatchDone(c)
  \/ BatchRefused(c)
  \/ BatchThrows(c)

-----------------------------------------------------------------------------
(* The procedures, each on whatever thread it chose. *)

IsBatch(k) == log[k[1]][k[2]].form = "array"
SetCall(k, state) == call' = [call EXCEPT ![k] = state]

\* A single request's done sends the answer.
AnswerSingle(k) ==
  /\ ~aborted
  /\ call[k] = "running" /\ ~IsBatch(k)
  /\ SetCall(k, "released")
  /\ SendResponse(k[1], [n |-> k[2], ids |-> {k[3]}])
  /\ UNCHANGED <<clientVars, loopVars, responses, open, aborted>>

\* A batch's done adds the response under the data's mutex ...
AddResponse(k) ==
  /\ ~aborted
  /\ call[k] = "running" /\ IsBatch(k)
  /\ SetCall(k, "added")
  /\ responses' = [responses EXCEPT ![<<k[1], k[2]>>] = @ \cup {k[3]}]
  /\ UNCHANGED <<clientVars, loopVars, sent, open, aborted>>

\* A mistake: every call sends when the frame has gone.
LastOwner_Every(k) == ~FrameOwns(k[1], k[2])

\* ... and later the callback, with its share of the data, is destroyed.
LastOwner(k) ==
  ~FrameOwns(k[1], k[2]) /\ CallsOwning(k[1], k[2]) = {k[3]}

ReleaseCall(k) ==
  /\ ~aborted
  /\ call[k] = "added"
  /\ SetCall(k, "released")
  /\ IF LastOwner(k) THEN SendBatch(k[1], k[2]) ELSE UNCHANGED sent
  /\ UNCHANGED <<clientVars, loopVars, responses, open, aborted>>

Procedure(k) == AnswerSingle(k) \/ AddResponse(k) \/ ReleaseCall(k)

-----------------------------------------------------------------------------
Next ==
  \/ \E c \in Clients, m \in Menu : Send(c, m)
  \/ \E c \in Clients : Read(c)
  \/ \E c \in Clients : Close(c)
  \/ \E c \in Clients : Loop(c)
  \/ \E k \in Call : Procedure(k)

Spec == Init /\ [][Next]_vars

\* Loops and the network go on, and a procedure calls done in the end.
Fairness ==
  /\ \A c \in Clients : WF_vars(Read(c)) /\ WF_vars(Loop(c))
  /\ \A k \in Call : WF_vars(Procedure(k))

FairSpec == Spec /\ Fairness

-----------------------------------------------------------------------------
(* Properties. *)

\* The calls of a message that were made.
Made(c, n) == {i \in 1 .. MaxBatch : call[<<c, n, i>>] # "none"}

\* An answer holds a response for every call the message led to, whichever
\* threads they were answered on and even if a later request of the batch made
\* handleBatchRequests throw: nobody sends while a call is open.
AnswersComplete ==
  \A c \in Clients : \A j \in 1 .. Len(sent[c]) :
    sent[c][j].ids = Made(c, sent[c][j].n)

\* No message is answered twice: only one owner is the last one.
AnsweredOnce ==
  \A c \in Clients : \A i, j \in 1 .. Len(sent[c]) :
    sent[c][i].n = sent[c][j].n => i = j

\* Every request is one the server can serve, with or without an id.
Legal(m) ==
  /\ m.form \in {"object", "array"} /\ m.requests # <<>>
  /\ \A i \in 1 .. Len(m.requests) :
       LET r == m.requests[i]
       IN  r.wellFormed /\ r.service /\ r.method /\ r.params
AllCalls(m) == \A i \in 1 .. Len(m.requests) : m.requests[i].id

\* A client that sends legal calls, one message at a time.
Orderly(c) ==
  /\ c \notin hasty
  /\ \A n \in 1 .. Len(log[c]) : Legal(log[c][n]) /\ AllCalls(log[c][n])

\* Orderly clients do not bring the server down, however their bytes arrive:
\* handleMessage takes a message only when it is there as a whole and alone.
OrderlyStaysUp == aborted => \E c \in Clients : ~Orderly(c)

\* An orderly client gets an answer to each of its messages, unless the
\* connection is closed or somebody else brings the server down.
OrderlyAnswered ==
  \A c \in Clients, n \in Number :
    (Len(log[c]) >= n /\ Orderly(c)) ~>
      \/ \E j \in 1 .. Len(sent[c]) : sent[c][j].n = n
      \/ ~Orderly(c) \/ c \notin open \/ aborted
=============================================================================
