--------------------------- MODULE RpcCallProofs ----------------------------
(***************************************************************************)
(* The way of a call.  For any number of connections, failures and calls:  *)
(* a TcpClient whose user calls connect once and neither stop nor          *)
(* forceClose has one attempt, one timer or one connection at a time and   *)
(* fails no assertion; and whatever the peer answers, an RpcClient calls   *)
(* each callback at most once and keeps it until then.                     *)
(*                                                                         *)
(* For values of any depth and size, for any text, and for any definition  *)
(* and arguments: itoa is the inverse of atoi; Reader gives Document       *)
(* nothing that it asserts against but a key that is there already; what   *)
(* Writer wrote is what Reader gives back, but for the known losses; and a *)
(* call that a generated stub makes reaches the user's method with its     *)
(* arguments.                                                              *)
(***************************************************************************)
EXTENDS RpcClient, Stub, FiniteSetTheorems, SequenceTheorems, TLAPS

-----------------------------------------------------------------------------
(* Queues of functors.                                                     *)

Has(q, op) == \E i \in 1 .. Len(q) : q[i].op = op

\* At most one functor of the queue does op.
Single(q, op) ==
  \A i, j \in 1 .. Len(q) : q[i].op = op /\ q[j].op = op => i = j

\* Without stop and forceClose nothing queues these; a connection that is to be
\* destroyed has been closed.  c are the states of the connections.
Gone(c, k) == k \in Conns /\ c[k] \in {"closed", "down"}
Expected(q, c) ==
  \A i \in 1 .. Len(q) :
    /\ q[i].op # "stopInLoop" /\ q[i].op # "handleClose"
    /\ q[i].op = "connectDestroyed" => Gone(c, q[i].k)

\* What queueing a functor does to the queue.
LEMMA Appended ==
  ASSUME NEW S, NEW q \in Seq(S), NEW f \in S
  PROVE  /\ Append(q, f) \in Seq(S)
         /\ \A op : Has(Append(q, f), op) <=> Has(q, op) \/ f.op = op
         /\ \A op : Single(q, op) /\ (~Has(q, op) \/ f.op # op)
                      => Single(Append(q, f), op)
         /\ \A c : (/\ Expected(q, c)
                    /\ f.op # "stopInLoop" /\ f.op # "handleClose"
                    /\ f.op = "connectDestroyed" => Gone(c, f.k))
                     => Expected(Append(q, f), c)
<1>1. PICK n \in Nat : n = Len(q)
  BY LenProperties
<1>2. PICK a : a = Append(q, f)
  OBVIOUS
<1>3. /\ a \in Seq(S) /\ Len(a) = n + 1 /\ a[n + 1] = f
      /\ \A i \in 1 .. n : a[i] = q[i]
  BY <1>1, <1>2, AppendProperties
<1>4. \A i \in 1 .. n + 1 : i \in 1 .. n \/ i = n + 1
  BY <1>1
<1>5. n + 1 \in 1 .. n + 1 /\ \A i \in 1 .. n : i \in 1 .. n + 1
  BY <1>1
<1>6. ASSUME NEW op
      PROVE  Has(a, op) <=> Has(q, op) \/ f.op = op
  BY <1>1, <1>3, <1>4, <1>5 DEF Has
<1>7. ASSUME NEW op, Single(q, op), ~Has(q, op) \/ f.op # op
      PROVE  Single(a, op)
  BY <1>1, <1>3, <1>4, <1>7 DEF Has, Single
<1>8. ASSUME NEW c, Expected(q, c), f.op # "stopInLoop", f.op # "handleClose",
             f.op = "connectDestroyed" => Gone(c, f.k)
      PROVE  Expected(a, c)
  BY <1>1, <1>3, <1>4, <1>8 DEF Expected
<1>9. QED
  BY <1>2, <1>3, <1>6, <1>7, <1>8

\* What running the first functor does to the queue.
LEMMA Shortened ==
  ASSUME NEW S, NEW q \in Seq(S), q # <<>>
  PROVE  /\ Tail(q) \in Seq(S) /\ Head(q) \in S
         /\ \A op : Has(q, op) <=> Head(q).op = op \/ Has(Tail(q), op)
         /\ \A op : Single(q, op) =>
                      /\ Single(Tail(q), op)
                      /\ Head(q).op = op => ~Has(Tail(q), op)
         /\ \A c : Expected(q, c) =>
                     /\ Expected(Tail(q), c)
                     /\ Head(q).op # "stopInLoop" /\ Head(q).op # "handleClose"
                     /\ Head(q).op = "connectDestroyed" => Gone(c, Head(q).k)
<1>1. PICK n \in Nat : n = Len(q) /\ n > 0
  BY LenProperties, EmptySeq
<1>2. PICK t, h : t = Tail(q) /\ h = Head(q)
  OBVIOUS
<1>3. /\ t \in Seq(S) /\ h \in S /\ Len(t) = n - 1 /\ h = q[1]
      /\ \A i \in 1 .. n - 1 : t[i] = q[i + 1]
  BY <1>1, <1>2, HeadTailProperties
<1>4. /\ 1 \in 1 .. n
      /\ \A i \in 1 .. n : i = 1 \/ i - 1 \in 1 .. n - 1
      /\ \A i \in 1 .. n - 1 : i + 1 \in 1 .. n /\ i + 1 # 1
  BY <1>1
<1>5. \A i \in 1 .. n : i # 1 => t[i - 1] = q[i]
  BY <1>1, <1>3
<1>6. ASSUME NEW op
      PROVE  Has(q, op) <=> h.op = op \/ Has(t, op)
  BY <1>1, <1>3, <1>4, <1>5 DEF Has
<1>7. ASSUME NEW op, Single(q, op)
      PROVE  Single(t, op) /\ (h.op = op => ~Has(t, op))
  <2>1. ASSUME NEW i \in 1 .. n - 1, NEW j \in 1 .. n - 1, t[i].op = op, t[j].op = op
        PROVE  i = j
    BY <1>1, <1>3, <1>4, <1>7, <2>1 DEF Single
  <2>2. ASSUME NEW i \in 1 .. n - 1, t[i].op = op, h.op = op
        PROVE  FALSE
    BY <1>1, <1>3, <1>4, <1>7, <2>2 DEF Single
  <2>3. QED
    BY <1>1, <1>3, <2>1, <2>2 DEF Has, Single
<1>8. ASSUME NEW c, Expected(q, c)
      PROVE  /\ Expected(t, c)
             /\ h.op # "stopInLoop" /\ h.op # "handleClose"
             /\ h.op = "connectDestroyed" => Gone(c, h.k)
  BY <1>1, <1>3, <1>4, <1>8 DEF Expected
<1>9. QED
  BY <1>2, <1>3, <1>6, <1>7, <1>8

\* An empty queue holds nothing.
LEMMA NothingQueued ==
  /\ \A op : ~Has(<<>>, op) /\ Single(<<>>, op)
  /\ \A c : Expected(<<>>, c)
BY DEF Has, Single, Expected

-----------------------------------------------------------------------------
(* Types.                                                                  *)

Ops == {"startInLoop", "stopInLoop", "resetChannel", "handleClose", "connectDestroyed"}
Functors == [op: Ops, k: 0 .. MaxConns]

\* A timer that was reported is still there when it is handled.
ClientTypes ==
  /\ TcpTypeOK
  /\ pending \in Seq(Functors) /\ batch \in Seq(Functors)
  /\ Event("timer", 0) \in todo => timers > 0

\* Queueing keeps the queue's type.
LEMMA QueueType ==
  ASSUME pending \in Seq(Functors), NEW op \in Ops, NEW k \in 0 .. MaxConns, Queue(op, k)
  PROVE  pending' \in Seq(Functors)
<1>1. Functor(op, k) \in Functors
  BY DEF Functor, Functors
<1>2. QED
  BY <1>1, AppendProperties DEF Queue

\* Removing the channel keeps the types.
LEMMA RemoveType ==
  ASSUME pending \in Seq(Functors), RemoveChannel
  PROVE  pending' \in Seq(Functors) /\ channel' = "removed"
<1>1. "resetChannel" \in Ops /\ 0 \in 0 .. MaxConns
  BY BoundAssumption DEF Ops
<1>2. QED
  BY <1>1, QueueType DEF RemoveChannel

\* A retry arms a timer and keeps the delay within its bounds.
LEMMA RetryType ==
  ASSUME TcpTypeOK, Retry
  PROVE  /\ timers' \in Nat /\ delay' \in InitDelay .. MaxDelay
         /\ timers' >= timers
BY DelayAssumption DEF TcpTypeOK, Retry, RetryTimers

\* Closing a connection keeps the types.
LEMMA CloseType ==
  ASSUME ClientTypes, NEW k \in 0 .. MaxConns, CloseConnection(k)
  PROVE  /\ connection' \in 0 .. MaxConns
         /\ conn' \in [Conns -> {"none", "up", "closed", "down"}]
         /\ pending' \in Seq(Functors)
         /\ connect' \in BOOLEAN /\ channel' \in {"null", "registered", "removed"}
         /\ delay' \in InitDelay .. MaxDelay /\ timers' = timers
         /\ aborted' \in BOOLEAN
<1>1. CASE conn[k] \notin {"up", "closed"}
  BY <1>1 DEF CloseConnection, ClientTypes, TcpTypeOK, connectorVars
<1>2. CASE conn[k] \in {"up", "closed"}
  <2>1. /\ connection' = 0 /\ conn' = [conn EXCEPT ![k] = "closed"]
        /\ Queue("connectDestroyed", k)
        /\ IF retry /\ wanted THEN Restart /\ UNCHANGED timers
           ELSE UNCHANGED <<connectorVars, aborted>>
    BY <1>2 DEF CloseConnection
  <2>2. pending' \in Seq(Functors)
    <3>1. "connectDestroyed" \in Ops
      BY DEF Ops
    <3>2. QED
      BY <2>1, <3>1, QueueType DEF ClientTypes
  <2>3. /\ connect' \in BOOLEAN /\ channel' \in {"null", "registered", "removed"}
        /\ aborted' \in BOOLEAN
    BY <2>1 DEF Restart, ConnectNow, connectorVars, ClientTypes, TcpTypeOK
  <2>4. delay' \in InitDelay .. MaxDelay /\ timers' = timers
    BY <2>1, DelayAssumption DEF Restart, connectorVars, ClientTypes, TcpTypeOK
  <2>5. connection' \in 0 .. MaxConns
    BY <2>1, BoundAssumption
  <2>6. conn' \in [Conns -> {"none", "up", "closed", "down"}]
    BY <2>1 DEF ClientTypes, TcpTypeOK
  <2>7. QED
    BY <2>2, <2>3, <2>4, <2>5, <2>6
<1>3. QED
  BY <1>1, <1>2

\* What the loop handled is gone from todo.
LEMMA Handled ==
  ASSUME NEW what, NEW k, Handle(what, k)
  PROVE  /\ pc = "events" /\ ~aborted /\ UNCHANGED <<pc, batch>>
         /\ Event(what, k) \in todo
         /\ \A e : e \in todo' <=> e \in todo /\ e # Event(what, k)
BY DEF Handle

\* What the steps of an RpcClient do to its TcpClient.
Reads(k) ==
  /\ Handle("conn", k)
  /\ UNCHANGED <<clientVars, connectorVars, conn, peerClosed, pending, boundVars,
                 aborted>>
Reportable == Ready \cup {Event("conn", k) : k \in Readable}
ClientStep ==
  \/ LoopStep
  \/ Poll(Reportable)
  \/ \E k \in Conns : HandleClose(k) \/ Reads(k) \/ PeerClose(k)
  \/ Connect \/ ForceClose \/ Stop \/ Disconnect
  \/ UNCHANGED tcpVars

\* Every step of the RPC client is a step of the client below it.
LEMMA StepsOfTheClient == [Next]_vars => ClientStep
<1> SUFFICES ASSUME [Next]_vars
             PROVE  ClientStep
  OBVIOUS
<1>1. ASSUME NEW k \in Conns, HandleRead(k)
      PROVE  ClientStep
  BY <1>1 DEF HandleRead, Reads, ClientStep
<1>2. CASE Loop
  BY <1>1, <1>2 DEF Loop, ClientStep, Reportable
<1>3. ASSUME NEW k \in Conns, SendCall(k) \/ Misbehave(k)
      PROVE  ClientStep
  BY <1>3 DEF SendCall, Misbehave, ClientStep
<1>4. ASSUME NEW i \in Ids, Respond(i)
      PROVE  ClientStep
  BY <1>4 DEF Respond, ClientStep
<1>5. CASE UNCHANGED vars
  BY <1>5 DEF vars, ClientStep
<1>6. QED
  BY <1>2, <1>3, <1>4, <1>5 DEF Next, ClientStep

\* Every step keeps the types.
LEMMA TypeStep == ClientTypes /\ [Next]_vars => ClientTypes'
<1> SUFFICES ASSUME ClientTypes, ClientStep
             PROVE  ClientTypes'
  BY StepsOfTheClient
<1> USE DEF clientVars, connectorVars, loopVars, boundVars
<1>1. CASE HandleWriteError
  <2>1. Handle("connector", 0) /\ RemoveChannel /\ Retry
        /\ UNCHANGED <<clientVars, connect, conn, peerClosed, calls, careful, aborted>>
    BY <1>1 DEF HandleWriteError
  <2>2. /\ pending' \in Seq(Functors) /\ channel' = "removed"
        /\ timers' \in Nat /\ delay' \in InitDelay .. MaxDelay /\ timers' >= timers
    BY <2>1, RemoveType, RetryType DEF ClientTypes
  <2>3. UNCHANGED <<pc, batch>> /\ (Event("timer", 0) \in todo' => timers' > 0)
    BY <2>1, <2>2, Handled DEF ClientTypes, TcpTypeOK
  <2>4. QED
    BY <2>1, <2>2, <2>3 DEF ClientTypes, TcpTypeOK
<1>2. CASE HandleWrite
  <2>1. /\ Handle("connector", 0) /\ RemoveChannel
        /\ UNCHANGED <<retry, wanted, connect, delay, timers, peerClosed, boundVars,
                       aborted>>
    BY <1>2 DEF HandleWrite
  <2>2. pending' \in Seq(Functors) /\ channel' = "removed"
    BY <2>1, RemoveType DEF ClientTypes
  <2>3. UNCHANGED <<pc, batch>> /\ (Event("timer", 0) \in todo' => timers' > 0)
    BY <2>1, Handled DEF ClientTypes
  <2>4. /\ nextConnId' \in 1 .. MaxConns + 1 /\ connection' \in 0 .. MaxConns
        /\ conn' \in [Conns -> {"none", "up", "closed", "down"}]
    BY <1>2, BoundAssumption DEF HandleWrite, ClientTypes, TcpTypeOK, Conns
  <2>5. QED
    BY <2>1, <2>2, <2>3, <2>4 DEF ClientTypes, TcpTypeOK
<1>3. CASE TimerFires
  <2>1. /\ Handle("timer", 0) /\ timers' = timers - 1 /\ StartInLoop
        /\ UNCHANGED <<clientVars, connect, delay, conn, peerClosed, pending, boundVars>>
    BY <1>3 DEF TimerFires
  <2>2. /\ UNCHANGED <<pc, batch>> /\ timers > 0 /\ Event("timer", 0) \notin todo'
    BY <2>1, Handled DEF ClientTypes
  <2>3. timers' \in Nat
    BY <2>1, <2>2 DEF ClientTypes, TcpTypeOK
  <2>4. channel' \in {"null", "registered", "removed"} /\ aborted' \in BOOLEAN
    BY <2>1 DEF StartInLoop, ConnectNow, ClientTypes, TcpTypeOK
  <2>5. QED
    BY <2>1, <2>2, <2>3, <2>4 DEF ClientTypes, TcpTypeOK
<1>4. CASE StartFunctors
  BY <1>4 DEF StartFunctors, ClientTypes, TcpTypeOK
<1>5. CASE RunFunctor
  <2>1. PICK f : f = Head(batch)
    OBVIOUS
  <2>2. f \in Functors /\ batch' \in Seq(Functors)
    BY <1>5, <2>1, Shortened DEF RunFunctor, ClientTypes
  <2>3. f.k \in 0 .. MaxConns
    BY <2>2 DEF Functors
  <2>4. UNCHANGED <<retry, wanted, nextConnId, peerClosed, pc, todo, boundVars>>
    BY <1>5 DEF RunFunctor
  <2>5. CASE /\ f.op = "startInLoop" /\ StartInLoop
             /\ UNCHANGED <<connect, delay, timers, connection, conn, pending>>
    <3>1. channel' \in {"null", "registered", "removed"} /\ aborted' \in BOOLEAN
      BY <2>5 DEF StartInLoop, ConnectNow, ClientTypes, TcpTypeOK
    <3>2. QED
      BY <2>2, <2>4, <2>5, <3>1 DEF ClientTypes, TcpTypeOK
  <2>6. CASE f.op = "stopInLoop" /\ StopInLoop /\ UNCHANGED <<connect, connection, conn>>
    <3>1. CASE channel = "null"
      BY <2>2, <2>4, <2>6, <3>1 DEF StopInLoop, ClientTypes, TcpTypeOK
    <3>2. CASE channel # "null"
      <4>1. RemoveChannel /\ Retry /\ UNCHANGED aborted
        BY <2>6, <3>2 DEF StopInLoop
      <4>2. /\ pending' \in Seq(Functors) /\ channel' = "removed"
            /\ timers' \in Nat /\ delay' \in InitDelay .. MaxDelay /\ timers' >= timers
        BY <4>1, RemoveType, RetryType DEF ClientTypes
      <4>3. timers > 0 => timers' > 0
        BY <4>2 DEF ClientTypes, TcpTypeOK
      <4>4. QED
        BY <2>2, <2>4, <2>6, <4>1, <4>2, <4>3 DEF ClientTypes, TcpTypeOK
    <3>3. QED
      BY <3>1, <3>2
  <2>7. CASE /\ f.op = "resetChannel" /\ channel' = "null"
             /\ UNCHANGED <<connect, delay, timers, connection, conn, pending, aborted>>
    BY <2>2, <2>4, <2>7 DEF ClientTypes, TcpTypeOK
  <2>8. CASE f.op = "handleClose" /\ CloseConnection(f.k)
    BY <2>2, <2>3, <2>4, <2>8, CloseType DEF ClientTypes, TcpTypeOK
  <2>9. CASE /\ f.op = "connectDestroyed" /\ conn' = [conn EXCEPT ![f.k] = "down"]
             /\ UNCHANGED <<connectorVars, connection, pending, aborted>>
    BY <2>2, <2>4, <2>9 DEF ClientTypes, TcpTypeOK
  <2>10. QED
    BY <1>5, <2>1, <2>5, <2>6, <2>7, <2>8, <2>9 DEF RunFunctor
<1>6. CASE FinishFunctors
  BY <1>6 DEF FinishFunctors, ClientTypes, TcpTypeOK
<1>7. CASE Poll(Reportable)
  <2>1. Event("timer", 0) \in todo' => timers > 0
    <3>1. Event("timer", 0) \in todo' => Event("timer", 0) \in Reportable
      BY <1>7 DEF Poll
    <3>2. Event("timer", 0) \in Reportable => timers > 0
      BY DEF Reportable, Ready, Event
    <3>3. QED
      BY <3>1, <3>2
  <2>2. QED
    BY <1>7, <2>1 DEF Poll, ClientTypes, TcpTypeOK
<1>8. ASSUME NEW k \in Conns, HandleClose(k)
      PROVE  ClientTypes'
  <2>1. /\ Handle("conn", k) /\ CloseConnection(k)
        /\ UNCHANGED <<retry, wanted, nextConnId, peerClosed, boundVars>>
    BY <1>8 DEF HandleClose
  <2>2. UNCHANGED <<pc, batch>> /\ (Event("timer", 0) \in todo' => timers > 0)
    BY <2>1, Handled DEF ClientTypes
  <2>3. k \in 0 .. MaxConns
    BY BoundAssumption DEF Conns
  <2>4. QED
    BY <2>1, <2>2, <2>3, CloseType DEF ClientTypes, TcpTypeOK
<1>9. ASSUME NEW k \in Conns, Reads(k)
      PROVE  ClientTypes'
  <2>1. UNCHANGED <<pc, batch>> /\ (Event("timer", 0) \in todo' => timers > 0)
    BY <1>9, Handled DEF Reads, ClientTypes
  <2>2. QED
    BY <1>9, <2>1 DEF Reads, ClientTypes, TcpTypeOK
<1>10. ASSUME NEW k \in Conns, PeerClose(k)
       PROVE  ClientTypes'
  BY <1>10 DEF PeerClose, ClientTypes, TcpTypeOK
<1>11. ASSUME Connect \/ Stop \/ ForceClose
       PROVE  ClientTypes'
  <2>1. pending' \in Seq(Functors)
    <3>1. /\ "startInLoop" \in Ops /\ "stopInLoop" \in Ops /\ "handleClose" \in Ops
          /\ 0 \in 0 .. MaxConns /\ connection \in 0 .. MaxConns
      BY BoundAssumption DEF Ops, ClientTypes, TcpTypeOK
    <3>2. QED
      BY <1>11, <3>1, QueueType DEF Connect, Stop, ForceClose, ClientTypes
  <2>2. wanted' \in BOOLEAN /\ connect' \in BOOLEAN /\ careful' \in BOOLEAN
    BY <1>11 DEF Connect, Stop, ForceClose, ClientTypes, TcpTypeOK
  <2>3. UNCHANGED <<retry, connection, nextConnId, channel, delay, timers, conn,
                    peerClosed, loopVars, aborted>>
    BY <1>11 DEF Connect, Stop, ForceClose
  <2>4. QED
    BY <2>1, <2>2, <2>3 DEF ClientTypes, TcpTypeOK
<1>12. CASE Disconnect
  <2>1. peerClosed' \subseteq Conns
    BY <1>12, BoundAssumption DEF Disconnect, ClientTypes, TcpTypeOK, Conns
  <2>2. QED
    BY <1>12, <2>1 DEF Disconnect, ClientTypes, TcpTypeOK
<1>13. CASE UNCHANGED tcpVars
  BY <1>13 DEF tcpVars, ClientTypes, TcpTypeOK
<1>14. QED
  BY <1>1, <1>2, <1>3, <1>4, <1>5, <1>6, <1>7, <1>8, <1>9, <1>10, <1>11, <1>12, <1>13
     DEF ClientStep, LoopStep

\* The types hold at the start.
LEMMA InitTypes ==
  ASSUME Init
  PROVE  ClientTypes
<1>1. retry \in BOOLEAN /\ wanted = TRUE /\ connect = FALSE /\ careful = TRUE
      /\ aborted = FALSE
  BY DEF Init, TcpInit
<1>2. /\ connection = 0 /\ nextConnId = 1 /\ channel = "null" /\ delay = InitDelay
      /\ timers = 0 /\ conn = [k \in Conns |-> "none"] /\ peerClosed = {}
      /\ pc = "poll" /\ todo = {} /\ pending = <<>> /\ batch = <<>>
  BY DEF Init, TcpInit
<1>3. 0 \in 0 .. MaxConns /\ 1 \in 1 .. MaxConns + 1 /\ InitDelay \in InitDelay .. MaxDelay
  BY BoundAssumption, DelayAssumption
<1>4. conn \in [Conns -> {"none", "up", "closed", "down"}]
  BY <1>2
<1>5. pending \in Seq(Functors) /\ batch \in Seq(Functors)
  BY <1>2
<1>6. QED
  BY <1>1, <1>2, <1>3, <1>4, <1>5 DEF ClientTypes, TcpTypeOK

\* The client's variables keep their types, and no timer fires that is not there.
THEOREM TypeCorrect == Spec => []TcpTypeOK
<1>1. ClientTypes => TcpTypeOK
  BY DEF ClientTypes
<1>2. QED
  BY <1>1, InitTypes, TypeStep, PTL DEF Spec

-----------------------------------------------------------------------------
(* The connector and its client.                                           *)

Queued(op) == Has(pending, op) \/ Has(batch, op)

\* connection_ is the connection that is up, and those to come are unused.
Connections ==
  /\ connection # 0 => conn[connection] = "up"
  /\ \A k \in Conns : k >= nextConnId => conn[k] = "none"

\* The attempt that connect asked for is the first thing the connector does.
NotStarted ==
  /\ channel = "null" /\ timers = 0 /\ connection = 0
  /\ ~Queued("resetChannel")
Starting ==
  /\ connect \/ (NotStarted /\ ~Queued("startInLoop"))
  /\ Queued("startInLoop") => NotStarted
  /\ Single(pending, "startInLoop") /\ Single(batch, "startInLoop")
  /\ ~(Has(pending, "startInLoop") /\ Has(batch, "startInLoop"))

\* A channel is reset in the turn of the loop that removed it.
Resetting ==
  /\ pc # "functors" => batch = <<>>
  /\ pc # "events" => todo = {}
  /\ Has(pending, "resetChannel") => pc = "events" /\ channel = "removed"
  /\ Has(batch, "resetChannel") => channel # "registered"
  /\ channel = "removed" => \/ pc = "events" /\ Has(pending, "resetChannel")
                            \/ pc = "functors" /\ Has(batch, "resetChannel")

\* What was reported is of one kind, and still so when it is handled.
StillSo(e) ==
  \/ e = Event("connector", 0) /\ channel = "registered"
  \/ e = Event("timer", 0) /\ timers > 0 /\ channel = "null"
  \/ \E k \in Conns : e = Event("conn", k) /\ conn[k] = "up" /\ channel = "null"
Reported == \A e \in todo : StillSo(e)

Orderly ==
  /\ OneAtATime
  /\ Expected(pending, conn) /\ Expected(batch, conn)
  /\ Connections /\ Starting /\ Resetting /\ Reported
ConnectorInv == careful => Orderly

\* The three kinds of event.
LEMMA Kinds ==
  ASSUME ClientTypes, careful, Orderly
  PROVE  /\ Event("connector", 0) \in todo =>
              channel = "registered" /\ todo = {Event("connector", 0)}
         /\ Event("timer", 0) \in todo =>
              timers = 1 /\ channel = "null" /\ todo = {Event("timer", 0)}
         /\ \A k \in Conns : Event("conn", k) \in todo =>
              /\ conn[k] = "up" /\ connection = k /\ timers = 0 /\ channel = "null"
              /\ todo = {Event("conn", k)}
<1>1. timers \in Nat /\ connection \in 0 .. MaxConns
  BY DEF ClientTypes, TcpTypeOK
<1>2. /\ \A k, n : Event("connector", k) # Event("timer", n)
      /\ \A k, n : Event("connector", k) # Event("conn", n)
      /\ \A k, n : Event("timer", k) # Event("conn", n)
      /\ \A k, n : Event("conn", k) = Event("conn", n) => k = n
  BY DEF Event
<1>3. /\ timers <= 1
      /\ (channel = "registered") => timers = 0 /\ connection = 0
      /\ timers > 0 => connection = 0
      /\ \A k \in Conns : conn[k] = "up" => connection = k
  BY DEF Orderly, OneAtATime
<1>4. \A k \in Conns : k # 0
  BY DEF Conns
<1>5. ASSUME Event("connector", 0) \in todo
      PROVE  channel = "registered" /\ todo = {Event("connector", 0)}
  <2>1. channel = "registered"
    BY <1>2, <1>5 DEF Orderly, Reported, StillSo
  <2>2. \A e \in todo : e = Event("connector", 0)
    BY <2>1 DEF Orderly, Reported, StillSo
  <2>3. QED
    BY <1>5, <2>1, <2>2
<1>6. ASSUME Event("timer", 0) \in todo
      PROVE  timers = 1 /\ channel = "null" /\ todo = {Event("timer", 0)}
  <2>1. timers > 0 /\ channel = "null"
    BY <1>2, <1>6 DEF Orderly, Reported, StillSo
  <2>2. \A k \in Conns : conn[k] # "up"
    BY <1>3, <1>4, <2>1
  <2>3. \A e \in todo : e = Event("timer", 0)
    BY <2>1, <2>2 DEF Orderly, Reported, StillSo
  <2>4. timers = 1
    BY <1>1, <1>3, <2>1
  <2>5. QED
    BY <1>6, <2>1, <2>3, <2>4
<1>7. ASSUME NEW k \in Conns, Event("conn", k) \in todo
      PROVE  /\ conn[k] = "up" /\ connection = k /\ timers = 0 /\ channel = "null"
             /\ todo = {Event("conn", k)}
  <2>1. conn[k] = "up" /\ channel = "null"
    BY <1>2, <1>7 DEF Orderly, Reported, StillSo
  <2>2. connection = k /\ \A n \in Conns : conn[n] = "up" => n = k
    BY <1>3, <2>1
  <2>3. timers = 0
    BY <1>1, <1>3, <1>4, <2>2
  <2>4. ~(timers > 0)
    BY <2>3
  <2>5. \A e \in todo : e = Event("conn", k)
    BY <2>1, <2>2, <2>4 DEF Orderly, Reported, StillSo
  <2>6. QED
    BY <1>7, <2>1, <2>2, <2>3, <2>5
<1>8. QED
  BY <1>5, <1>6, <1>7

\* removeAndResetChannel leaves the reset to the functors of this turn.
LEMMA RemoveStep ==
  ASSUME ClientTypes, careful, Orderly, pc = "events", pc' = "events", RemoveChannel,
         ~Queued("startInLoop"), UNCHANGED batch, todo' = {}
  PROVE  /\ channel' = "removed" /\ Resetting' /\ Reported'
         /\ ~Queued("startInLoop")'
         /\ Single(pending', "startInLoop") /\ Single(batch', "startInLoop")
         /\ \A c : /\ Expected(pending, c) => Expected(pending', c)
                   /\ Expected(batch, c) => Expected(batch', c)
<1>1. PICK f : f = Functor("resetChannel", 0)
  OBVIOUS
<1>2. f \in Functors /\ f.op = "resetChannel"
  BY <1>1, BoundAssumption DEF Functor, Functors, Ops
<1>3. channel' = "removed" /\ pending' = Append(pending, f)
  BY <1>1 DEF RemoveChannel, Queue
<1>4. pending \in Seq(Functors)
  BY DEF ClientTypes
<1>5. /\ \A op : Has(pending', op) <=> Has(pending, op) \/ op = "resetChannel"
      /\ Single(pending', "startInLoop")
      /\ \A c : Expected(pending, c) => Expected(pending', c)
  BY <1>2, <1>3, <1>4, Appended DEF Orderly, Starting
<1>6. batch = <<>>
  BY DEF Orderly, Resetting
<1>7. \A op : ~Has(batch, op)
  BY <1>6, NothingQueued
<1>8. Resetting'
  BY <1>3, <1>5, <1>6, <1>7 DEF Resetting
<1>9. Reported'
  BY DEF Reported
<1>10. ~Queued("startInLoop")'
  BY <1>5, <1>7 DEF Queued
<1>11. Single(batch', "startInLoop")
  BY DEF Orderly, Starting
<1>12. QED
  BY <1>3, <1>5, <1>8, <1>9, <1>10, <1>11

\* An attempt fails: there is a timer instead of the channel.
LEMMA FailedStep ==
  ASSUME ClientTypes, careful, Orderly, HandleWriteError
  PROVE  Orderly'
<1>1. /\ Handle("connector", 0) /\ RemoveChannel /\ Retry
      /\ UNCHANGED <<clientVars, connect, conn, peerClosed, calls, careful, aborted>>
  BY DEF HandleWriteError
<1>2. channel = "registered" /\ todo = {Event("connector", 0)}
  BY <1>1, Handled, Kinds
<1>3. pc = "events" /\ pc' = "events" /\ UNCHANGED batch /\ todo' = {}
  BY <1>1, <1>2, Handled
<1>4. connect /\ ~Queued("startInLoop") /\ timers = 0 /\ connection = 0
  BY <1>2 DEF Orderly, Starting, NotStarted, OneAtATime
<1>5. timers' = 1
  BY <1>1, <1>4 DEF Retry, RetryTimers
<1>6. /\ channel' = "removed" /\ Resetting' /\ Reported' /\ ~Queued("startInLoop")'
      /\ Single(pending', "startInLoop") /\ Single(batch', "startInLoop")
      /\ \A c : /\ Expected(pending, c) => Expected(pending', c)
                /\ Expected(batch, c) => Expected(batch', c)
  BY <1>1, <1>3, <1>4, RemoveStep
<1>7. UNCHANGED <<connection, nextConnId, conn, aborted, connect>>
  BY <1>1 DEF clientVars
<1>8. OneAtATime'
  BY <1>4, <1>5, <1>6, <1>7 DEF Orderly, OneAtATime
<1>9. Starting'
  BY <1>4, <1>6, <1>7 DEF Starting, Queued
<1>10. Connections' /\ Expected(pending', conn') /\ Expected(batch', conn')
  BY <1>6, <1>7 DEF Orderly, Connections
<1>11. QED
  BY <1>6, <1>8, <1>9, <1>10 DEF Orderly

\* An attempt succeeds: there is a connection instead of the channel.
LEMMA ConnectedStep ==
  ASSUME ClientTypes, careful, Orderly, HandleWrite
  PROVE  Orderly'
<1>1. /\ Handle("connector", 0) /\ RemoveChannel
      /\ UNCHANGED <<retry, wanted, connect, delay, timers, peerClosed, boundVars,
                     aborted>>
  BY DEF HandleWrite
<1>2. channel = "registered" /\ todo = {Event("connector", 0)}
  BY <1>1, Handled, Kinds
<1>3. pc = "events" /\ pc' = "events" /\ UNCHANGED batch /\ todo' = {}
  BY <1>1, <1>2, Handled
<1>4. connect /\ ~Queued("startInLoop") /\ timers = 0 /\ connection = 0
  BY <1>2 DEF Orderly, Starting, NotStarted, OneAtATime
<1>5. PICK n \in Conns : n = nextConnId
  BY <1>4 DEF HandleWrite, Conns, ClientTypes, TcpTypeOK
<1>6. /\ nextConnId' = n + 1 /\ connection' = n /\ n # 0
      /\ conn' = [conn EXCEPT ![n] = "up"]
  BY <1>4, <1>5 DEF HandleWrite, Conns
<1>7. /\ channel' = "removed" /\ Resetting' /\ Reported' /\ ~Queued("startInLoop")'
      /\ Single(pending', "startInLoop") /\ Single(batch', "startInLoop")
      /\ \A c : /\ Expected(pending, c) => Expected(pending', c)
                /\ Expected(batch, c) => Expected(batch', c)
  BY <1>1, <1>3, <1>4, RemoveStep
<1>8. /\ conn'[n] = "up" /\ conn[n] = "none"
      /\ \A k \in Conns : k # n => conn'[k] = conn[k]
  BY <1>5, <1>6 DEF ClientTypes, TcpTypeOK, Orderly, Connections, Conns
<1>9. \A k \in Conns : conn[k] # "up"
  BY <1>4 DEF Orderly, OneAtATime, Conns
<1>10. OneAtATime'
  BY <1>1, <1>4, <1>6, <1>7, <1>8, <1>9 DEF Orderly, OneAtATime
<1>11. Starting'
  BY <1>1, <1>4, <1>7 DEF Starting, Queued
<1>12. Connections'
  BY <1>5, <1>6, <1>8 DEF Orderly, Connections, Conns
<1>13. ASSUME NEW q, Expected(q, conn)
       PROVE  Expected(q, conn')
  BY <1>8, <1>13 DEF Expected, Gone
<1>14. Expected(pending', conn') /\ Expected(batch', conn')
  BY <1>7, <1>13 DEF Orderly
<1>15. QED
  BY <1>7, <1>10, <1>11, <1>12, <1>14 DEF Orderly

\* connecting finds no channel and makes one.
LEMMA TimerStep ==
  ASSUME ClientTypes, careful, Orderly, TimerFires
  PROVE  Orderly'
<1>1. /\ Handle("timer", 0) /\ timers' = timers - 1 /\ StartInLoop
      /\ UNCHANGED <<clientVars, connect, delay, conn, peerClosed, pending, boundVars>>
  BY DEF TimerFires
<1>2. timers = 1 /\ channel = "null" /\ todo = {Event("timer", 0)}
  BY <1>1, Handled, Kinds
<1>3. pc = "events" /\ pc' = "events" /\ UNCHANGED batch /\ todo' = {} /\ timers' = 0
  BY <1>1, <1>2, Handled
<1>4. connect /\ ~Queued("startInLoop") /\ connection = 0
  BY <1>2 DEF Orderly, Starting, NotStarted, OneAtATime
<1>5. channel' = "registered" /\ UNCHANGED aborted
  BY <1>1, <1>2, <1>4 DEF StartInLoop, ConnectNow
<1>6. UNCHANGED <<connection, nextConnId, connect, conn, pending, batch>>
  BY <1>1, <1>3 DEF clientVars
<1>7. OneAtATime'
  BY <1>3, <1>4, <1>5, <1>6 DEF Orderly, OneAtATime
<1>8. Starting'
  BY <1>4, <1>6 DEF Orderly, Starting, Queued
<1>9. Connections' /\ Expected(pending', conn') /\ Expected(batch', conn')
  BY <1>6 DEF Orderly, Connections
<1>10. Resetting'
  BY <1>2, <1>3, <1>5, <1>6, NothingQueued DEF Orderly, Resetting
<1>11. Reported'
  BY <1>3 DEF Reported
<1>12. QED
  BY <1>7, <1>8, <1>9, <1>10, <1>11 DEF Orderly

\* The connection closes: the client lets go of it, and may attempt again.
LEMMA CloseStep ==
  ASSUME ClientTypes, careful, Orderly, NEW k \in Conns, HandleClose(k)
  PROVE  Orderly'
<1>1. /\ Handle("conn", k) /\ CloseConnection(k)
      /\ UNCHANGED <<retry, wanted, nextConnId, peerClosed, boundVars>>
  BY DEF HandleClose
<1>2. /\ conn[k] = "up" /\ connection = k /\ timers = 0 /\ channel = "null"
      /\ todo = {Event("conn", k)}
  BY <1>1, Handled, Kinds
<1>3. pc = "events" /\ pc' = "events" /\ UNCHANGED batch /\ todo' = {}
  BY <1>1, <1>2, Handled
<1>4. k # 0 /\ k \in 0 .. MaxConns
  BY BoundAssumption DEF Conns
<1>5. connect /\ ~Queued("startInLoop")
  BY <1>2, <1>4 DEF Orderly, Starting, NotStarted
<1>6. /\ connection' = 0 /\ conn' = [conn EXCEPT ![k] = "closed"]
      /\ Queue("connectDestroyed", k)
      /\ IF retry /\ wanted THEN Restart /\ UNCHANGED timers
         ELSE UNCHANGED <<connectorVars, aborted>>
  BY <1>1, <1>2 DEF CloseConnection
<1>7. PICK f : f = Functor("connectDestroyed", k)
  OBVIOUS
<1>8. f \in Functors /\ f.op = "connectDestroyed" /\ f.k = k /\ pending' = Append(pending, f)
  BY <1>4, <1>6, <1>7 DEF Functor, Functors, Ops, Queue
<1>9. /\ conn'[k] = "closed"
      /\ \A n \in Conns : n # k => conn'[n] = conn[n]
  BY <1>6 DEF ClientTypes, TcpTypeOK
<1>10. /\ \A op : Has(pending', op) <=> Has(pending, op) \/ op = "connectDestroyed"
       /\ Single(pending', "startInLoop")
       /\ \A c : Expected(pending, c) /\ Gone(c, k) => Expected(pending', c)
  BY <1>8, Appended DEF ClientTypes, Orderly, Starting
<1>11. ASSUME NEW q, Expected(q, conn)
       PROVE  Expected(q, conn')
  BY <1>2, <1>9, <1>11 DEF Expected, Gone
<1>12. Expected(pending', conn') /\ Expected(batch', conn')
  BY <1>3, <1>9, <1>10, <1>11 DEF Orderly, Gone
<1>13. /\ connect' /\ timers' = 0 /\ UNCHANGED aborted
       /\ channel' = "registered" \/ channel' = "null"
  BY <1>2, <1>5, <1>6 DEF Restart, ConnectNow, connectorVars
<1>14. \A n \in Conns : conn'[n] # "up"
  BY <1>2, <1>9 DEF Orderly, OneAtATime
<1>15. OneAtATime'
  BY <1>1, <1>6, <1>13, <1>14 DEF Orderly, OneAtATime
<1>16. Connections'
  <2>1. connection' = 0 /\ UNCHANGED nextConnId
    BY <1>1, <1>6
  <2>2. ~(k >= nextConnId)
    BY <1>2 DEF Orderly, Connections
  <2>3. QED
    BY <1>9, <2>1, <2>2 DEF Orderly, Connections
<1>17. \A op : Has(batch', op) <=> Has(batch, op)
  BY <1>3
<1>18. Starting'
  BY <1>3, <1>5, <1>10, <1>13, <1>17 DEF Orderly, Starting, Queued
<1>19. ~Has(pending', "resetChannel") /\ ~Has(batch', "resetChannel") /\ batch' = <<>>
  BY <1>2, <1>3, <1>10, NothingQueued DEF Orderly, Resetting
<1>20. Resetting'
  BY <1>3, <1>13, <1>19 DEF Resetting
<1>21. Reported'
  BY <1>3 DEF Reported
<1>22. QED
  BY <1>12, <1>15, <1>16, <1>18, <1>20, <1>21 DEF Orderly

\* The functors queued so far are swapped out.
LEMMA SwapStep ==
  ASSUME ClientTypes, careful, Orderly, StartFunctors
  PROVE  Orderly'
<1>1. /\ pc = "events" /\ todo = {} /\ pc' = "functors"
      /\ batch' = pending /\ pending' = <<>>
      /\ UNCHANGED <<clientVars, connectorVars, conn, peerClosed, todo, boundVars, aborted>>
  BY DEF StartFunctors
<1>2. UNCHANGED <<connection, nextConnId, connect, channel, timers, conn, todo, careful, aborted>>
  BY <1>1 DEF clientVars, connectorVars, boundVars
<1>3. batch = <<>> /\ (\A op : ~Has(batch, op))
  BY <1>1, NothingQueued DEF Orderly, Resetting
<1>4. /\ \A op : (Has(batch', op) <=> Has(pending, op)) /\ ~Has(pending', op)
      /\ \A op : Single(pending', op)
  BY <1>1, NothingQueued
<1>5. OneAtATime' /\ Connections'
  BY <1>2 DEF Orderly, OneAtATime, Connections
<1>6. Expected(pending', conn') /\ Expected(batch', conn')
  BY <1>1, <1>2, NothingQueued DEF Orderly
<1>7. Single(batch', "startInLoop")
  BY <1>1 DEF Orderly, Starting
<1>8. Starting'
  BY <1>2, <1>3, <1>4, <1>7 DEF Orderly, Starting, NotStarted, Queued
<1>9. Resetting'
  BY <1>1, <1>2, <1>3, <1>4 DEF Orderly, Resetting
<1>10. Reported'
  BY <1>1, <1>2 DEF Reported
<1>11. QED
  BY <1>5, <1>6, <1>8, <1>9, <1>10 DEF Orderly

\* Only the first attempt, a reset and the end of a connection are queued.
LEMMA FunctorStep ==
  ASSUME ClientTypes, careful, Orderly, RunFunctor
  PROVE  Orderly'
<1>1. /\ pc = "functors" /\ batch # <<>> /\ batch' = Tail(batch)
      /\ UNCHANGED <<retry, wanted, nextConnId, peerClosed, pc, todo, boundVars>>
  BY DEF RunFunctor
<1>2. PICK f : f = Head(batch)
  OBVIOUS
<1>3. /\ \A op : Has(batch, op) <=> f.op = op \/ Has(batch', op)
      /\ Single(batch', "startInLoop")
      /\ f.op = "startInLoop" => ~Has(batch', "startInLoop")
      /\ f.op # "stopInLoop" /\ f.op # "handleClose"
      /\ f.op = "connectDestroyed" => Gone(conn, f.k)
      /\ Expected(batch', conn)
  BY <1>1, <1>2, Shortened DEF ClientTypes, Orderly, Starting
<1>4. todo' = {}
  BY <1>1 DEF Orderly, Resetting
<1>5. Reported'
  BY <1>4 DEF Reported
<1>6. ~Has(pending, "resetChannel")
  BY <1>1 DEF Orderly, Resetting
<1>7. CASE f.op = "startInLoop"
  <2>1. StartInLoop /\ UNCHANGED <<connect, delay, timers, connection, conn, pending>>
    BY <1>2, <1>7 DEF RunFunctor
  <2>2. NotStarted /\ connect /\ ~Has(pending, "startInLoop")
    BY <1>3, <1>7 DEF Orderly, Starting, Queued
  <2>3. channel' = "registered" /\ UNCHANGED aborted
    BY <2>1, <2>2 DEF StartInLoop, ConnectNow, NotStarted
  <2>4. OneAtATime'
    BY <1>1, <2>1, <2>2, <2>3 DEF Orderly, OneAtATime, NotStarted, boundVars
  <2>5. Connections' /\ Expected(pending', conn') /\ Expected(batch', conn')
    BY <1>1, <1>3, <2>1 DEF Orderly, Connections
  <2>6. Starting'
    BY <1>3, <1>7, <2>1, <2>2 DEF Orderly, Starting, Queued
  <2>7. Resetting'
    BY <1>1, <1>3, <1>4, <1>6, <2>1, <2>2, <2>3 DEF Resetting, NotStarted, Queued
  <2>8. QED
    BY <1>5, <2>4, <2>5, <2>6, <2>7 DEF Orderly
<1>8. CASE f.op = "resetChannel"
  <2>1. channel' = "null"
        /\ UNCHANGED <<connect, delay, timers, connection, conn, pending, aborted>>
    BY <1>2, <1>8 DEF RunFunctor
  <2>2. ~Queued("startInLoop") /\ connect
    BY <1>3, <1>8 DEF Orderly, Starting, NotStarted, Queued
  <2>3. OneAtATime'
    BY <1>1, <2>1 DEF Orderly, OneAtATime, boundVars
  <2>4. Connections' /\ Expected(pending', conn') /\ Expected(batch', conn')
    BY <1>1, <1>3, <2>1 DEF Orderly, Connections
  <2>5. Starting'
    BY <1>3, <2>1, <2>2 DEF Orderly, Starting, Queued
  <2>6. Resetting'
    BY <1>1, <1>4, <1>6, <2>1 DEF Resetting
  <2>7. QED
    BY <1>5, <2>3, <2>4, <2>5, <2>6 DEF Orderly
<1>9. CASE f.op = "connectDestroyed"
  <2>1. conn' = [conn EXCEPT ![f.k] = "down"]
        /\ UNCHANGED <<connectorVars, connection, pending, aborted>>
    BY <1>2, <1>9 DEF RunFunctor
  <2>2. PICK k \in Conns : k = f.k /\ conn[k] \in {"closed", "down"}
    BY <1>3, <1>9 DEF Gone
  <2>3. /\ conn'[k] = "down"
        /\ \A n \in Conns : n # k => conn'[n] = conn[n]
    BY <2>1, <2>2 DEF ClientTypes, TcpTypeOK
  <2>4. ASSUME NEW q, Expected(q, conn)
        PROVE  Expected(q, conn')
    BY <2>2, <2>3, <2>4 DEF Expected, Gone
  <2>5. Expected(pending', conn') /\ Expected(batch', conn')
    BY <1>3, <2>1, <2>4 DEF Orderly
  <2>6. UNCHANGED <<connect, channel, timers>>
    BY <2>1 DEF connectorVars
  <2>7. OneAtATime'
    <3>1. \A n \in Conns : conn'[n] = "up" => conn[n] = "up"
      BY <2>2, <2>3
    <3>2. QED
      BY <1>1, <2>1, <2>6, <3>1 DEF Orderly, OneAtATime, boundVars
  <2>8. Connections'
    <3>1. connection # 0 => connection # k /\ connection \in Conns
      BY <2>2 DEF Orderly, Connections, ClientTypes, TcpTypeOK, Conns
    <3>2. ~(k >= nextConnId)
      BY <2>2 DEF Orderly, Connections
    <3>3. QED
      BY <1>1, <2>1, <2>3, <3>1, <3>2 DEF Orderly, Connections
  <2>9. Starting'
    BY <1>3, <1>9, <2>1, <2>6 DEF Orderly, Starting, NotStarted, Queued
  <2>10. Resetting'
    <3>1. Has(batch', "resetChannel") <=> Has(batch, "resetChannel")
      BY <1>3, <1>9
    <3>2. QED
      BY <1>1, <1>4, <2>1, <2>6, <3>1 DEF Orderly, Resetting
  <2>11. QED
    BY <1>5, <2>5, <2>7, <2>8, <2>9, <2>10 DEF Orderly
<1>10. QED
  BY <1>2, <1>3, <1>7, <1>8, <1>9 DEF RunFunctor

\* Of the three kinds of event there is never more than one to report.
LEMMA PollStep ==
  ASSUME ClientTypes, careful, Orderly, Poll(Reportable)
  PROVE  Orderly'
<1>1. /\ pc = "poll" /\ pc' = "events" /\ todo' \subseteq Reportable
      /\ UNCHANGED <<clientVars, connectorVars, conn, peerClosed, pending, batch,
                     boundVars, aborted>>
  BY DEF Poll
<1>2. UNCHANGED <<connection, nextConnId, connect, channel, timers, conn, pending, batch,
                  careful, aborted>>
  BY <1>1 DEF clientVars, connectorVars, boundVars
<1>3. channel # "removed" /\ channel \in {"null", "registered", "removed"}
  BY <1>1 DEF Orderly, Resetting, ClientTypes, TcpTypeOK
<1>4. ASSUME NEW e \in Reportable
      PROVE  StillSo(e)
  <2>1. timers > 0 => channel = "null"
    BY <1>3 DEF Orderly, OneAtATime
  <2>2. ASSUME NEW k \in Conns, conn[k] = "up"
        PROVE  channel = "null"
    BY <1>3, <2>2 DEF Orderly, OneAtATime, Conns
  <2>3. \/ e = Event("connector", 0) /\ channel = "registered"
        \/ e = Event("timer", 0) /\ timers > 0
        \/ \E k \in Conns : e = Event("conn", k) /\ conn[k] = "up"
    BY DEF Reportable, Ready, Readable
  <2>4. QED
    BY <2>1, <2>2, <2>3 DEF StillSo
<1>5. Reported'
  BY <1>1, <1>2, <1>4 DEF Reported, StillSo
<1>6. OneAtATime' /\ Connections' /\ Expected(pending', conn') /\ Expected(batch', conn')
  BY <1>2 DEF Orderly, OneAtATime, Connections
<1>7. Starting' /\ Resetting'
  BY <1>1, <1>2, <1>3 DEF Orderly, Starting, NotStarted, Queued, Resetting
<1>8. QED
  BY <1>5, <1>6, <1>7 DEF Orderly

\* The one call of connect.
LEMMA ConnectStep ==
  ASSUME ClientTypes, careful, Orderly, Connect, careful'
  PROVE  Orderly'
<1>1. /\ connect' = TRUE /\ ~connect /\ ~aborted /\ Queue("startInLoop", 0)
      /\ UNCHANGED <<retry, connection, nextConnId, channel, delay, timers, conn,
                     peerClosed, loopVars, failures, aborted>>
  BY DEF Connect, Call
<1>2. UNCHANGED <<pc, todo, batch>>
  BY <1>1 DEF loopVars
<1>3. NotStarted /\ ~Queued("startInLoop")
  BY <1>1 DEF Orderly, Starting
<1>4. PICK f : f = Functor("startInLoop", 0)
  OBVIOUS
<1>5. f \in Functors /\ f.op = "startInLoop" /\ pending' = Append(pending, f)
  BY <1>1, <1>4, BoundAssumption DEF Functor, Functors, Ops, Queue
<1>6. /\ \A op : Has(pending', op) <=> Has(pending, op) \/ op = "startInLoop"
      /\ Single(pending', "startInLoop")
      /\ \A c : Expected(pending, c) => Expected(pending', c)
  BY <1>3, <1>5, Appended DEF ClientTypes, Orderly, Starting, Queued
<1>7. OneAtATime' /\ Connections' /\ Expected(pending', conn') /\ Expected(batch', conn')
  BY <1>1, <1>2, <1>6 DEF Orderly, OneAtATime, Connections
<1>8. Starting'
  BY <1>1, <1>2, <1>3, <1>6 DEF Orderly, Starting, NotStarted, Queued
<1>9. Resetting'
  BY <1>1, <1>2, <1>6 DEF Orderly, Resetting
<1>10. Reported'
  BY <1>1, <1>2 DEF Orderly, Reported, StillSo
<1>11. QED
  BY <1>7, <1>8, <1>9, <1>10 DEF Orderly

\* What leaves everything alone but what is waiting to be handled.
Idle ==
  /\ UNCHANGED <<connection, nextConnId, connect, channel, timers, conn, pending, batch,
                 careful, aborted>>
  /\ todo' \subseteq todo
  /\ pc' = pc \/ (pc = "functors" /\ pc' = "poll" /\ batch = <<>>)

\* A step that leaves the connector alone keeps its attempts in order.
LEMMA IdleStep ==
  ASSUME ClientTypes, Orderly, Idle
  PROVE  Orderly'
<1>1. OneAtATime' /\ Connections' /\ Expected(pending', conn') /\ Expected(batch', conn')
  BY DEF Idle, Orderly, OneAtATime, Connections
<1>2. Starting'
  BY DEF Idle, Orderly, Starting, NotStarted, Queued
<1>3. Resetting'
  <2>1. CASE pc' = pc
    <3>1. pc # "events" => todo' = {}
      BY DEF Idle, Orderly, Resetting
    <3>2. QED
      BY <2>1, <3>1 DEF Idle, Orderly, Resetting
  <2>2. CASE pc = "functors" /\ pc' = "poll" /\ batch = <<>>
    <3>1. todo' = {} /\ \A op : ~Has(batch, op)
      BY <2>2, NothingQueued DEF Idle, Orderly, Resetting
    <3>2. QED
      BY <2>2, <3>1 DEF Idle, Orderly, Resetting
  <2>3. QED
    BY <2>1, <2>2 DEF Idle
<1>4. Reported'
  BY DEF Idle, Orderly, Reported, StillSo
<1>5. QED
  BY <1>1, <1>2, <1>3, <1>4 DEF Orderly

\* Every step keeps one attempt at a time.
LEMMA ConnectorStep == ClientTypes /\ ConnectorInv /\ [Next]_vars => ConnectorInv'
<1> SUFFICES ASSUME ClientTypes, ConnectorInv, ClientStep, careful'
             PROVE  Orderly'
  BY StepsOfTheClient DEF ConnectorInv
<1> USE DEF clientVars, connectorVars, loopVars, boundVars
<1>1. careful
  BY DEF ClientStep, LoopStep, HandleWriteError, HandleWrite, TimerFires, StartFunctors,
         RunFunctor, FinishFunctors, Poll, HandleClose, Reads, PeerClose, Connect,
         ForceClose, Stop, Disconnect, tcpVars
<1>2. Orderly
  BY <1>1 DEF ConnectorInv
<1>3. CASE LoopStep /\ ~FinishFunctors
  BY <1>1, <1>2, <1>3, FailedStep, ConnectedStep, TimerStep, SwapStep, FunctorStep
     DEF LoopStep
<1>4. CASE FinishFunctors
  BY <1>2, <1>4, IdleStep DEF FinishFunctors, Idle
<1>5. CASE Poll(Reportable)
  BY <1>1, <1>2, <1>5, PollStep
<1>6. ASSUME NEW k \in Conns, HandleClose(k)
      PROVE  Orderly'
  BY <1>1, <1>2, <1>6, CloseStep
<1>7. ASSUME NEW k \in Conns, Reads(k)
      PROVE  Orderly'
  BY <1>2, <1>7, Handled, IdleStep DEF Reads, Idle
<1>8. ASSUME NEW k \in Conns, PeerClose(k)
      PROVE  Orderly'
  BY <1>2, <1>8, IdleStep DEF PeerClose, Idle
<1>9. CASE Connect
  BY <1>1, <1>2, <1>9, ConnectStep
<1>10. CASE ForceClose \/ Stop
  BY <1>10 DEF ForceClose, Stop
<1>11. CASE Disconnect
  BY <1>2, <1>11, IdleStep DEF Disconnect, Idle
<1>12. CASE UNCHANGED tcpVars
  BY <1>2, <1>12, IdleStep DEF tcpVars, Idle
<1>13. QED
  BY <1>3, <1>4, <1>5, <1>6, <1>7, <1>8, <1>9, <1>10, <1>11, <1>12 DEF ClientStep

\* Called once and neither stopped nor force-closed, the client has one attempt, one
\* timer or one connection, and no attempt finds the channel of the one before.
THEOREM AttemptsNeverOverlap == Spec => []OneAtATime
<1>1. ASSUME Init
      PROVE  ClientTypes /\ ConnectorInv
  <2>1. ClientTypes
    BY <1>1, InitTypes
  <2>2. /\ connection = 0 /\ channel = "null" /\ timers = 0 /\ ~aborted
        /\ pending = <<>> /\ batch = <<>> /\ todo = {} /\ pc = "poll"
        /\ conn = [k \in Conns |-> "none"]
    BY <1>1 DEF Init, TcpInit
  <2>3. /\ \A op : ~Has(pending, op) /\ ~Has(batch, op)
        /\ Single(pending, "startInLoop") /\ Single(batch, "startInLoop")
        /\ Expected(pending, conn) /\ Expected(batch, conn)
    BY <2>2, NothingQueued
  <2>4. \A k \in Conns : conn[k] = "none"
    BY <2>2
  <2>5. OneAtATime /\ Connections
    BY <2>2, <2>4 DEF OneAtATime, Connections
  <2>6. Starting /\ Resetting /\ Reported
    BY <2>2, <2>3 DEF Starting, NotStarted, Queued, Resetting, Reported
  <2>7. QED
    BY <2>1, <2>3, <2>5, <2>6 DEF ConnectorInv, Orderly
<1>2. ConnectorInv => OneAtATime
  BY DEF ConnectorInv, Orderly, OneAtATime
<1>3. QED
  BY <1>1, <1>2, TypeStep, ConnectorStep, PTL DEF Spec

-----------------------------------------------------------------------------
(* The calls.                                                              *)

\* A call is kept, or was called back once, or has not been made.
CallInv ==
  /\ id \in Nat \ {0}
  /\ called \in [Ids -> {0, 1}]
  /\ callbacks \subseteq Ids
  /\ \A i \in Ids : IF i < id THEN i \in callbacks <=> called[i] = 0
                              ELSE i \notin callbacks /\ called[i] = 0

\* The callbacks of taken are called, and a call may be made from one of them.
LEMMA CallsStep ==
  ASSUME CallInv, NEW taken \in SUBSET callbacks,
         called' = [i \in Ids |-> called[i] + (IF i \in taken THEN 1 ELSE 0)],
         \/ id' = id /\ callbacks' = callbacks \ taken
         \/ /\ id' = id + 1 /\ id <= MaxIds
            /\ callbacks' = (callbacks \ taken) \cup {id}
  PROVE  CallInv'
<1>1. \A i \in taken : i \in Ids /\ i < id /\ called[i] = 0
  BY DEF CallInv
<1>2. ASSUME NEW i \in Ids
      PROVE  /\ called'[i] = IF i \in taken THEN 1 ELSE called[i]
             /\ called'[i] \in {0, 1}
  BY <1>1 DEF CallInv
<1>3. called' \in [Ids -> {0, 1}]
  <2>1. \A i \in Ids : called[i] + (IF i \in taken THEN 1 ELSE 0) \in {0, 1}
    BY <1>1 DEF CallInv
  <2>2. QED
    BY <2>1
<1>4. PICK n \in Nat \ {0} : n = id
  BY DEF CallInv
<1>5. CASE id' = n /\ callbacks' = callbacks \ taken
  <2>1. ASSUME NEW i \in Ids
        PROVE  IF i < n THEN i \in callbacks' <=> called'[i] = 0
                        ELSE i \notin callbacks' /\ called'[i] = 0
    BY <1>1, <1>2, <1>4, <1>5 DEF CallInv
  <2>2. QED
    BY <1>3, <1>4, <1>5, <2>1 DEF CallInv
<1>6. CASE id' = n + 1 /\ n <= MaxIds /\ callbacks' = (callbacks \ taken) \cup {n}
  <2>1. ASSUME NEW i \in Ids
        PROVE  IF i < n + 1 THEN i \in callbacks' <=> called'[i] = 0
                            ELSE i \notin callbacks' /\ called'[i] = 0
    <3>1. i \in Int /\ n \in Nat
      BY DEF Ids
    <3>2. CASE i = n
      BY <1>1, <1>2, <1>4, <1>6, <3>1, <3>2 DEF CallInv
    <3>3. CASE i < n
      BY <1>1, <1>2, <1>4, <1>6, <3>1, <3>3 DEF CallInv
    <3>4. CASE i > n
      BY <1>1, <1>2, <1>4, <1>6, <3>1, <3>4 DEF CallInv
    <3>5. QED
      BY <3>1, <3>2, <3>3, <3>4
  <2>2. callbacks' \subseteq Ids
    <3>1. n \in Ids
      BY <1>6 DEF Ids
    <3>2. QED
      BY <1>6, <3>1 DEF CallInv
  <2>3. QED
    BY <1>3, <1>4, <1>6, <2>1, <2>2 DEF CallInv
<1>7. QED
  BY <1>4, <1>5, <1>6

\* An answer, in whatever portions it comes, calls back what it names and is kept.
LEMMA AnswerCalls ==
  ASSUME CallInv, NEW k, NEW ids, HandleResponse(k, ids)
  PROVE  CallInv'
<1>1. PICK taken : taken = Taken(ids)
  OBVIOUS
<1>2. taken \in SUBSET callbacks
  BY <1>1 DEF Taken
<1>3. called' = [i \in Ids |-> called[i] + (IF i \in taken THEN 1 ELSE 0)]
  BY <1>1 DEF HandleResponse
<1>4. \/ id' = id /\ callbacks' = callbacks \ taken
      \/ /\ id' = id + 1 /\ id <= MaxIds
         /\ callbacks' = (callbacks \ taken) \cup {id}
  BY <1>1 DEF HandleResponse, Erased, MakeCall
<1>5. QED
  BY <1>2, <1>3, <1>4, CallsStep

\* Every step keeps a call kept, called back once, or not yet made.
LEMMA CallStep == CallInv /\ [Next]_vars => CallInv'
<1> SUFFICES ASSUME CallInv, [Next]_vars
             PROVE  CallInv'
  OBVIOUS
<1>1. ASSUME UNCHANGED <<id, callbacks, called>>
      PROVE  CallInv'
  BY <1>1 DEF CallInv
<1>2. ASSUME NEW k \in Conns, HandleRead(k)
      PROVE  CallInv'
  <2>1. PICK n \in 1 .. Len(wire[k]) : HandleMessage(k, inbuf[k] \o SubSeq(wire[k], 1, n))
    BY <1>2 DEF HandleRead
  <2>2. PICK buf : buf = inbuf[k] \o SubSeq(wire[k], 1, n)
    OBVIOUS
  <2>3. UNCHANGED callVars \/ \E ids : HandleResponse(k, ids)
    BY <2>1, <2>2 DEF HandleMessage
  <2>4. QED
    BY <1>1, <2>3, AnswerCalls DEF callVars
<1>3. ASSUME NEW k \in Conns, SendCall(k)
      PROVE  CallInv'
  <2>1. id' = id + 1 /\ id <= MaxIds /\ callbacks' = (callbacks \ {}) \cup {id}
    BY <1>3 DEF SendCall, MakeCall
  <2>2. called' = [i \in Ids |-> called[i] + (IF i \in {} THEN 1 ELSE 0)]
    <3>1. \A i \in Ids : called[i] = called[i] + 0
      BY DEF CallInv
    <3>2. called \in [Ids -> {0, 1}] /\ called' = called
      BY <1>3 DEF SendCall, CallInv
    <3>3. QED
      BY <3>1, <3>2
  <2>3. {} \in SUBSET callbacks
    OBVIOUS
  <2>4. QED
    BY <2>1, <2>2, <2>3, CallsStep
<1>4. ASSUME NEW k \in Conns, Misbehave(k)
      PROVE  CallInv'
  BY <1>1, <1>4 DEF Misbehave, callVars
<1>5. ASSUME NEW i \in Ids, Respond(i)
      PROVE  CallInv'
  BY <1>1, <1>5 DEF Respond
<1>6. CASE UNCHANGED rpcVars
  BY <1>1, <1>6 DEF rpcVars, callVars
<1>7. QED
  BY <1>2, <1>3, <1>4, <1>5, <1>6 DEF Next, Loop, vars

\* A callback is called at most once, only for a call that was made, and kept until
\* then, whatever the peer sends and however it arrives.
THEOREM CallbacksCalledOnce == Spec => []CalledOnce
<1>1. Init => CallInv
  BY DEF Init, CallInv, Ids
<1>2. CallInv => CalledOnce
  <2> SUFFICES ASSUME CallInv, NEW i \in Ids
               PROVE  /\ called[i] <= 1
                      /\ called[i] = 1 => i < id
                      /\ i < id => (i \in callbacks <=> called[i] = 0)
    BY DEF CalledOnce
  <2>1. called[i] \in {0, 1}
    BY DEF CallInv
  <2>2. QED
    BY <2>1 DEF CallInv
<1>3. QED
  BY <1>1, <1>2, CallStep, PTL DEF Spec

-----------------------------------------------------------------------------
(* Numbers.                                                                *)

\* A set of natural numbers has a least one.
LEMMA Least ==
  ASSUME NEW T, T \subseteq Nat, T # {}
  PROVE  \E x \in T : \A y \in T : x <= y
<1>1. PICK n \in T : TRUE
  OBVIOUS
<1> DEFINE S == 0 .. n
           R == StrictSubsetOrdering(S)
           U == {0 .. x : x \in T \cap S}
<1>2. IsFiniteSet(S) /\ n \in Nat
  BY <1>1, FS_Interval
<1>3. IsWellFoundedOn(R, FiniteSubsetsOf(S))
  BY <1>2, FS_StrictSubsetOrderingWellFounded
<1>4. U \subseteq FiniteSubsetsOf(S) /\ U # {}
  <2>1. U # {}
    BY <1>1
  <2>2. ASSUME NEW x \in T \cap S PROVE 0 .. x \in FiniteSubsetsOf(S)
    BY FS_Interval, FS_Subset, <1>2 DEF FiniteSubsetsOf
  <2> QED BY <2>1, <2>2
<1>5. \E z \in U : \A y \in U : <<y, z>> \notin R
  BY <1>3, <1>4, WFMin
<1>6. PICK x \in T \cap S : \A y \in U : <<y, 0 .. x>> \notin R
  BY <1>5
<1>7. ASSUME NEW y \in T, y < x PROVE FALSE
  <2>1. y \in T \cap S
    BY <1>7, <1>2
  <2>2. 0 .. y \subseteq S /\ 0 .. x \subseteq S /\ 0 .. y \subseteq 0 .. x /\ x \in 0 .. x /\ x \notin 0 .. y
    BY <1>7, <1>2
  <2>3. <<0 .. y, 0 .. x>> \in R
    BY <2>2 DEF StrictSubsetOrdering
  <2> QED BY <1>6, <2>1, <2>3
<1> QED BY <1>6, <1>7

\* The table of the powers of a number, as Twos and Tens define it by itself.
IsTable(w, base, n) == w = [k \in 0 .. n |-> IF k = 0 THEN 1 ELSE base * w[k - 1]]

\* There is such a table.
LEMMA PowersExist ==
  ASSUME NEW base \in Nat, NEW n \in Nat
  PROVE  \E w : IsTable(w, base, n)
<1> DEFINE T == {m \in Nat : ~ \E w : IsTable(w, base, m)}
<1>1. ASSUME T # {} PROVE FALSE
  <2>1. PICK m \in T : \A y \in T : m <= y
    <3> HIDE DEF T
    <3>1. T \subseteq Nat
      BY DEF T
    <3> QED BY <1>1, <3>1, Least
  <2>2. m \in Nat /\ ~ \E w : IsTable(w, base, m)
    OBVIOUS
  <2>3. CASE m = 0
    <3>1. IsTable([k \in 0 .. 0 |-> 1], base, 0)
      BY DEF IsTable
    <3> QED BY <2>3, <3>1, <2>2
  <2>4. CASE m # 0
    <3>1. m - 1 \in Nat /\ ~(m <= m - 1)
      BY <2>2, <2>4
    <3>2. m - 1 \notin T
      <4> HIDE DEF T
      <4> QED BY <3>1, <2>1
    <3>3. PICK w : IsTable(w, base, m - 1)
      BY <3>1, <3>2
    <3>4. IsTable([k \in 0 .. m |-> IF k = m THEN base * w[m - 1] ELSE w[k]], base, m)
      BY <3>1, <3>3, <2>4 DEF IsTable
    <3> QED BY <3>4, <2>2
  <2> QED BY <2>3, <2>4
<1> QED BY <1>1

\* One power follows from the one before.
LEMMA Powers == IsTable(Twos, 2, 64) /\ IsTable(Tens, 10, 20)
<1>1. \E w : IsTable(w, 2, 64)
  BY PowersExist
<1>2. \E w : IsTable(w, 10, 20)
  BY PowersExist
<1>3. Twos = [b \in 0 .. 64 |-> IF b = 0 THEN 1 ELSE 2 * Twos[b - 1]]
  BY <1>1, Zenon DEF Twos, IsTable
<1>4. Tens = [t \in 0 .. 20 |-> IF t = 0 THEN 1 ELSE 10 * Tens[t - 1]]
  BY <1>2, Zenon DEF Tens, IsTable
<1> QED BY <1>3, <1>4 DEF IsTable

\* The powers are numbers, from 1 on.
LEMMA PowersType ==
  /\ Twos \in [0 .. 64 -> Nat \ {0}]
  /\ Tens \in [0 .. 20 -> Nat \ {0}]
<1>1. ASSUME NEW base \in {2, 10}, NEW n \in Nat, NEW w, IsTable(w, base, n)
      PROVE  w \in [0 .. n -> Nat \ {0}]
  <2> DEFINE T == {k \in 0 .. n : w[k] \notin Nat \ {0}}
  <2>1. T \subseteq Nat /\ (w = [k \in DOMAIN w |-> w[k]]) /\ DOMAIN w = 0 .. n
    BY <1>1 DEF IsTable
  <2>2. ASSUME T # {} PROVE FALSE
    <3>1. PICK k \in T : \A y \in T : k <= y
      <4> HIDE DEF T
      <4> QED BY <2>1, <2>2, Least
    <3>2. k \in 0 .. n /\ w[k] \notin Nat \ {0}
      OBVIOUS
    <3>3. k # 0 => k - 1 \in 0 .. n /\ ~(k <= k - 1)
      BY <3>2
    <3>4. k # 0 => w[k - 1] \in Nat \ {0}
      BY <3>1, <3>3
    <3>5. w[k] = IF k = 0 THEN 1 ELSE base * w[k - 1]
      BY <1>1, <3>2 DEF IsTable
    <3> QED BY <3>2, <3>4, <3>5
  <2> QED BY <2>1, <2>2
<1> QED BY <1>1, Powers

\* The bits of a number bound its digits; 1233 / 4096 is a little more than the
\* logarithm of 2.
Bounded(b, t) ==
  /\ t \in 0 .. 19
  /\ Twos[b] <= Tens[t + 1]
  /\ t > 0 => Tens[t - 1] < Twos[b - 1]

\* The powers of two where another digit may begin.
LEMMA SomeTwos ==
  /\ Twos[3] = 8
  /\ Twos[6] = 64
  /\ Twos[9] = 512
  /\ Twos[13] = 8192
  /\ Twos[16] = 65536
  /\ Twos[19] = 524288
  /\ Twos[23] = 8388608
  /\ Twos[26] = 67108864
  /\ Twos[29] = 536870912
  /\ Twos[33] = 8589934592
  /\ Twos[36] = 68719476736
  /\ Twos[39] = 549755813888
  /\ Twos[43] = 8796093022208
  /\ Twos[46] = 70368744177664
  /\ Twos[49] = 562949953421312
  /\ Twos[53] = 9007199254740992
  /\ Twos[56] = 72057594037927936
  /\ Twos[59] = 576460752303423488
  /\ Twos[63] = 9223372036854775808
  /\ Twos[64] = 18446744073709551616
<1>0. \A b \in 1 .. 64 : Twos[b] = 2 * Twos[b - 1] /\ Twos[b - 1] \in Nat
  BY Powers, PowersType, SMT DEF IsTable
<1>1. Twos[0] = 1
  BY Powers, SMT DEF IsTable
<1>2. Twos[3] = 8  BY ONLY <1>0, <1>1, SMT
<1>3. Twos[6] = 64  BY ONLY <1>0, <1>2, SMT
<1>4. Twos[9] = 512  BY ONLY <1>0, <1>3, SMT
<1>5. Twos[13] = 8192  BY ONLY <1>0, <1>4, SMT
<1>6. Twos[16] = 65536  BY ONLY <1>0, <1>5, SMT
<1>7. Twos[19] = 524288  BY ONLY <1>0, <1>6, SMT
<1>8. Twos[23] = 8388608  BY ONLY <1>0, <1>7, SMT
<1>9. Twos[26] = 67108864  BY ONLY <1>0, <1>8, SMT
<1>10. Twos[29] = 536870912  BY ONLY <1>0, <1>9, SMT
<1>11. Twos[33] = 8589934592  BY ONLY <1>0, <1>10, SMT
<1>12. Twos[36] = 68719476736  BY ONLY <1>0, <1>11, SMT
<1>13. Twos[39] = 549755813888  BY ONLY <1>0, <1>12, SMT
<1>14. Twos[43] = 8796093022208  BY ONLY <1>0, <1>13, SMT
<1>15. Twos[46] = 70368744177664  BY ONLY <1>0, <1>14, SMT
<1>16. Twos[49] = 562949953421312  BY ONLY <1>0, <1>15, SMT
<1>17. Twos[53] = 9007199254740992  BY ONLY <1>0, <1>16, SMT
<1>18. Twos[56] = 72057594037927936  BY ONLY <1>0, <1>17, SMT
<1>19. Twos[59] = 576460752303423488  BY ONLY <1>0, <1>18, SMT
<1>20. Twos[63] = 9223372036854775808  BY ONLY <1>0, <1>19, SMT
<1>21. Twos[64] = 18446744073709551616  BY ONLY <1>0, <1>20, SMT
<1> QED BY <1>2, <1>3, <1>4, <1>5, <1>6, <1>7, <1>8, <1>9, <1>10, <1>11, <1>12, <1>13, <1>14,
           <1>15, <1>16, <1>17, <1>18, <1>19, <1>20, <1>21

\* The powers of ten.
LEMMA AllTens ==
  /\ Tens[0] = 1
  /\ Tens[1] = 10
  /\ Tens[2] = 100
  /\ Tens[3] = 1000
  /\ Tens[4] = 10000
  /\ Tens[5] = 100000
  /\ Tens[6] = 1000000
  /\ Tens[7] = 10000000
  /\ Tens[8] = 100000000
  /\ Tens[9] = 1000000000
  /\ Tens[10] = 10000000000
  /\ Tens[11] = 100000000000
  /\ Tens[12] = 1000000000000
  /\ Tens[13] = 10000000000000
  /\ Tens[14] = 100000000000000
  /\ Tens[15] = 1000000000000000
  /\ Tens[16] = 10000000000000000
  /\ Tens[17] = 100000000000000000
  /\ Tens[18] = 1000000000000000000
  /\ Tens[19] = 10000000000000000000
  /\ Tens[20] = 100000000000000000000
<1>0. \A t \in 1 .. 20 : Tens[t] = 10 * Tens[t - 1] /\ Tens[t - 1] \in Nat
  BY Powers, PowersType, SMT DEF IsTable
<1>1. Tens[0] = 1
  BY Powers, SMT DEF IsTable
<1>2. Tens[1] = 10  BY ONLY <1>0, <1>1, SMT
<1>3. Tens[2] = 100  BY ONLY <1>0, <1>2, SMT
<1>4. Tens[3] = 1000  BY ONLY <1>0, <1>3, SMT
<1>5. Tens[4] = 10000  BY ONLY <1>0, <1>4, SMT
<1>6. Tens[5] = 100000  BY ONLY <1>0, <1>5, SMT
<1>7. Tens[6] = 1000000  BY ONLY <1>0, <1>6, SMT
<1>8. Tens[7] = 10000000  BY ONLY <1>0, <1>7, SMT
<1>9. Tens[8] = 100000000  BY ONLY <1>0, <1>8, SMT
<1>10. Tens[9] = 1000000000  BY ONLY <1>0, <1>9, SMT
<1>11. Tens[10] = 10000000000  BY ONLY <1>0, <1>10, SMT
<1>12. Tens[11] = 100000000000  BY ONLY <1>0, <1>11, SMT
<1>13. Tens[12] = 1000000000000  BY ONLY <1>0, <1>12, SMT
<1>14. Tens[13] = 10000000000000  BY ONLY <1>0, <1>13, SMT
<1>15. Tens[14] = 100000000000000  BY ONLY <1>0, <1>14, SMT
<1>16. Tens[15] = 1000000000000000  BY ONLY <1>0, <1>15, SMT
<1>17. Tens[16] = 10000000000000000  BY ONLY <1>0, <1>16, SMT
<1>18. Tens[17] = 100000000000000000  BY ONLY <1>0, <1>17, SMT
<1>19. Tens[18] = 1000000000000000000  BY ONLY <1>0, <1>18, SMT
<1>20. Tens[19] = 10000000000000000000  BY ONLY <1>0, <1>19, SMT
<1>21. Tens[20] = 100000000000000000000  BY ONLY <1>0, <1>20, SMT
<1> QED
  BY <1>1, <1>2, <1>3, <1>4, <1>5, <1>6, <1>7, <1>8, <1>9, <1>10, <1>11, <1>12, <1>13, <1>14,
     <1>15, <1>16, <1>17, <1>18, <1>19, <1>20, <1>21

\* By cases on the number of digits.
LEMMA BitsAndDigits ==
  ASSUME NEW b \in 1 .. 64
  PROVE  Bounded(b, (b * 1233) \div 4096)
<1> DEFINE t == (b * 1233) \div 4096
<1>0. \A c \in 1 .. 64 : Twos[c] = 2 * Twos[c - 1] /\ Twos[c - 1] \in Nat \ {0}
  BY Powers, PowersType, SMT DEF IsTable
<1>1. ASSUME b \in 1 .. 3 PROVE Bounded(b, 0) /\ t = 0
  <2>1. Twos[0] <= Twos[b - 1] /\ Twos[b] <= Twos[3]
    BY ONLY <1>1, <1>0, SMT
  <2>2. t = 0
    BY ONLY <1>1, SMT
  <2>3. Twos[b] \in Nat /\ Twos[b - 1] \in Nat
    BY ONLY <1>1, <1>0, SMT
  <2> QED BY ONLY <2>1, <2>2, <2>3, SomeTwos, AllTens, SMT DEF Bounded
<1>2. ASSUME b \in 4 .. 6 PROVE Bounded(b, 1) /\ t = 1
  <2>1. Twos[3] <= Twos[b - 1] /\ Twos[b] <= Twos[6]
    BY ONLY <1>2, <1>0, SMT
  <2>2. t = 1
    BY ONLY <1>2, SMT
  <2>3. Twos[b] \in Nat /\ Twos[b - 1] \in Nat
    BY ONLY <1>2, <1>0, SMT
  <2> QED BY ONLY <2>1, <2>2, <2>3, SomeTwos, AllTens, SMT DEF Bounded
<1>3. ASSUME b \in 7 .. 9 PROVE Bounded(b, 2) /\ t = 2
  <2>1. Twos[6] <= Twos[b - 1] /\ Twos[b] <= Twos[9]
    BY ONLY <1>3, <1>0, SMT
  <2>2. t = 2
    BY ONLY <1>3, SMT
  <2>3. Twos[b] \in Nat /\ Twos[b - 1] \in Nat
    BY ONLY <1>3, <1>0, SMT
  <2> QED BY ONLY <2>1, <2>2, <2>3, SomeTwos, AllTens, SMT DEF Bounded
<1>4. ASSUME b \in 10 .. 13 PROVE Bounded(b, 3) /\ t = 3
  <2>1. Twos[9] <= Twos[b - 1] /\ Twos[b] <= Twos[13]
    BY ONLY <1>4, <1>0, SMT
  <2>2. t = 3
    BY ONLY <1>4, SMT
  <2>3. Twos[b] \in Nat /\ Twos[b - 1] \in Nat
    BY ONLY <1>4, <1>0, SMT
  <2> QED BY ONLY <2>1, <2>2, <2>3, SomeTwos, AllTens, SMT DEF Bounded
<1>5. ASSUME b \in 14 .. 16 PROVE Bounded(b, 4) /\ t = 4
  <2>1. Twos[13] <= Twos[b - 1] /\ Twos[b] <= Twos[16]
    BY ONLY <1>5, <1>0, SMT
  <2>2. t = 4
    BY ONLY <1>5, SMT
  <2>3. Twos[b] \in Nat /\ Twos[b - 1] \in Nat
    BY ONLY <1>5, <1>0, SMT
  <2> QED BY ONLY <2>1, <2>2, <2>3, SomeTwos, AllTens, SMT DEF Bounded
<1>6. ASSUME b \in 17 .. 19 PROVE Bounded(b, 5) /\ t = 5
  <2>1. Twos[16] <= Twos[b - 1] /\ Twos[b] <= Twos[19]
    BY ONLY <1>6, <1>0, SMT
  <2>2. t = 5
    BY ONLY <1>6, SMT
  <2>3. Twos[b] \in Nat /\ Twos[b - 1] \in Nat
    BY ONLY <1>6, <1>0, SMT
  <2> QED BY ONLY <2>1, <2>2, <2>3, SomeTwos, AllTens, SMT DEF Bounded
<1>7. ASSUME b \in 20 .. 23 PROVE Bounded(b, 6) /\ t = 6
  <2>1. Twos[19] <= Twos[b - 1] /\ Twos[b] <= Twos[23]
    BY ONLY <1>7, <1>0, SMT
  <2>2. t = 6
    BY ONLY <1>7, SMT
  <2>3. Twos[b] \in Nat /\ Twos[b - 1] \in Nat
    BY ONLY <1>7, <1>0, SMT
  <2> QED BY ONLY <2>1, <2>2, <2>3, SomeTwos, AllTens, SMT DEF Bounded
<1>8. ASSUME b \in 24 .. 26 PROVE Bounded(b, 7) /\ t = 7
  <2>1. Twos[23] <= Twos[b - 1] /\ Twos[b] <= Twos[26]
    BY ONLY <1>8, <1>0, SMT
  <2>2. t = 7
    BY ONLY <1>8, SMT
  <2>3. Twos[b] \in Nat /\ Twos[b - 1] \in Nat
    BY ONLY <1>8, <1>0, SMT
  <2> QED BY ONLY <2>1, <2>2, <2>3, SomeTwos, AllTens, SMT DEF Bounded
<1>9. ASSUME b \in 27 .. 29 PROVE Bounded(b, 8) /\ t = 8
  <2>1. Twos[26] <= Twos[b - 1] /\ Twos[b] <= Twos[29]
    BY ONLY <1>9, <1>0, SMT
  <2>2. t = 8
    BY ONLY <1>9, SMT
  <2>3. Twos[b] \in Nat /\ Twos[b - 1] \in Nat
    BY ONLY <1>9, <1>0, SMT
  <2> QED BY ONLY <2>1, <2>2, <2>3, SomeTwos, AllTens, SMT DEF Bounded
<1>10. ASSUME b \in 30 .. 33 PROVE Bounded(b, 9) /\ t = 9
  <2>1. Twos[29] <= Twos[b - 1] /\ Twos[b] <= Twos[33]
    BY ONLY <1>10, <1>0, SMT
  <2>2. t = 9
    BY ONLY <1>10, SMT
  <2>3. Twos[b] \in Nat /\ Twos[b - 1] \in Nat
    BY ONLY <1>10, <1>0, SMT
  <2> QED BY ONLY <2>1, <2>2, <2>3, SomeTwos, AllTens, SMT DEF Bounded
<1>11. ASSUME b \in 34 .. 36 PROVE Bounded(b, 10) /\ t = 10
  <2>1. Twos[33] <= Twos[b - 1] /\ Twos[b] <= Twos[36]
    BY ONLY <1>11, <1>0, SMT
  <2>2. t = 10
    BY ONLY <1>11, SMT
  <2>3. Twos[b] \in Nat /\ Twos[b - 1] \in Nat
    BY ONLY <1>11, <1>0, SMT
  <2> QED BY ONLY <2>1, <2>2, <2>3, SomeTwos, AllTens, SMT DEF Bounded
<1>12. ASSUME b \in 37 .. 39 PROVE Bounded(b, 11) /\ t = 11
  <2>1. Twos[36] <= Twos[b - 1] /\ Twos[b] <= Twos[39]
    BY ONLY <1>12, <1>0, SMT
  <2>2. t = 11
    BY ONLY <1>12, SMT
  <2>3. Twos[b] \in Nat /\ Twos[b - 1] \in Nat
    BY ONLY <1>12, <1>0, SMT
  <2> QED BY ONLY <2>1, <2>2, <2>3, SomeTwos, AllTens, SMT DEF Bounded
<1>13. ASSUME b \in 40 .. 43 PROVE Bounded(b, 12) /\ t = 12
  <2>1. Twos[39] <= Twos[b - 1] /\ Twos[b] <= Twos[43]
    BY ONLY <1>13, <1>0, SMT
  <2>2. t = 12
    BY ONLY <1>13, SMT
  <2>3. Twos[b] \in Nat /\ Twos[b - 1] \in Nat
    BY ONLY <1>13, <1>0, SMT
  <2> QED BY ONLY <2>1, <2>2, <2>3, SomeTwos, AllTens, SMT DEF Bounded
<1>14. ASSUME b \in 44 .. 46 PROVE Bounded(b, 13) /\ t = 13
  <2>1. Twos[43] <= Twos[b - 1] /\ Twos[b] <= Twos[46]
    BY ONLY <1>14, <1>0, SMT
  <2>2. t = 13
    BY ONLY <1>14, SMT
  <2>3. Twos[b] \in Nat /\ Twos[b - 1] \in Nat
    BY ONLY <1>14, <1>0, SMT
  <2> QED BY ONLY <2>1, <2>2, <2>3, SomeTwos, AllTens, SMT DEF Bounded
<1>15. ASSUME b \in 47 .. 49 PROVE Bounded(b, 14) /\ t = 14
  <2>1. Twos[46] <= Twos[b - 1] /\ Twos[b] <= Twos[49]
    BY ONLY <1>15, <1>0, SMT
  <2>2. t = 14
    BY ONLY <1>15, SMT
  <2>3. Twos[b] \in Nat /\ Twos[b - 1] \in Nat
    BY ONLY <1>15, <1>0, SMT
  <2> QED BY ONLY <2>1, <2>2, <2>3, SomeTwos, AllTens, SMT DEF Bounded
<1>16. ASSUME b \in 50 .. 53 PROVE Bounded(b, 15) /\ t = 15
  <2>1. Twos[49] <= Twos[b - 1] /\ Twos[b] <= Twos[53]
    BY ONLY <1>16, <1>0, SMT
  <2>2. t = 15
    BY ONLY <1>16, SMT
  <2>3. Twos[b] \in Nat /\ Twos[b - 1] \in Nat
    BY ONLY <1>16, <1>0, SMT
  <2> QED BY ONLY <2>1, <2>2, <2>3, SomeTwos, AllTens, SMT DEF Bounded
<1>17. ASSUME b \in 54 .. 56 PROVE Bounded(b, 16) /\ t = 16
  <2>1. Twos[53] <= Twos[b - 1] /\ Twos[b] <= Twos[56]
    BY ONLY <1>17, <1>0, SMT
  <2>2. t = 16
    BY ONLY <1>17, SMT
  <2>3. Twos[b] \in Nat /\ Twos[b - 1] \in Nat
    BY ONLY <1>17, <1>0, SMT
  <2> QED BY ONLY <2>1, <2>2, <2>3, SomeTwos, AllTens, SMT DEF Bounded
<1>18. ASSUME b \in 57 .. 59 PROVE Bounded(b, 17) /\ t = 17
  <2>1. Twos[56] <= Twos[b - 1] /\ Twos[b] <= Twos[59]
    BY ONLY <1>18, <1>0, SMT
  <2>2. t = 17
    BY ONLY <1>18, SMT
  <2>3. Twos[b] \in Nat /\ Twos[b - 1] \in Nat
    BY ONLY <1>18, <1>0, SMT
  <2> QED BY ONLY <2>1, <2>2, <2>3, SomeTwos, AllTens, SMT DEF Bounded
<1>19. ASSUME b \in 60 .. 63 PROVE Bounded(b, 18) /\ t = 18
  <2>1. Twos[59] <= Twos[b - 1] /\ Twos[b] <= Twos[63]
    BY ONLY <1>19, <1>0, SMT
  <2>2. t = 18
    BY ONLY <1>19, SMT
  <2>3. Twos[b] \in Nat /\ Twos[b - 1] \in Nat
    BY ONLY <1>19, <1>0, SMT
  <2> QED BY ONLY <2>1, <2>2, <2>3, SomeTwos, AllTens, SMT DEF Bounded
<1>20. ASSUME b \in 64 .. 64 PROVE Bounded(b, 19) /\ t = 19
  <2>1. Twos[63] <= Twos[b - 1] /\ Twos[b] <= Twos[64]
    BY ONLY <1>20, <1>0, SMT
  <2>2. t = 19
    BY ONLY <1>20, SMT
  <2>3. Twos[b] \in Nat /\ Twos[b - 1] \in Nat
    BY ONLY <1>20, <1>0, SMT
  <2> QED BY ONLY <2>1, <2>2, <2>3, SomeTwos, AllTens, SMT DEF Bounded
<1> QED
  BY <1>1, <1>2, <1>3, <1>4, <1>5, <1>6, <1>7, <1>8, <1>9, <1>10, <1>11, <1>12, <1>13, <1>14,
     <1>15, <1>16, <1>17, <1>18, <1>19, <1>20
\* The bits of a number of at most 64 bits.
LEMMA BitLengthExact ==
  ASSUME NEW m \in Nat, m > 0, m < Twos[64]
  PROVE  /\ BitLength(m) \in 1 .. 64
         /\ Twos[BitLength(m) - 1] <= m /\ m < Twos[BitLength(m)]
<1>1. \A b \in 1 .. 64 : Twos[b] = 2 * Twos[b - 1] /\ Twos[b - 1] \in Nat \ {0}
  BY Powers, PowersType, SMT DEF IsTable
<1>2. ASSUME NEW p \in Nat \ {0} PROVE m \div p = 1 <=> p <= m /\ m < 2 * p
  BY <1>2, SMT
<1>3. \A b \in 1 .. 64 : m \div Twos[b - 1] = 1 <=> Twos[b - 1] <= m /\ m < Twos[b]
  BY <1>1, <1>2
<1>4. \E b \in 1 .. 64 : Twos[b - 1] <= m /\ m < Twos[b]
  <2> DEFINE T == {b \in 1 .. 64 : m < Twos[b]}
  <2>1. T \subseteq Nat /\ 64 \in T
    OBVIOUS
  <2>2. PICK b \in T : \A c \in T : b <= c
    <3> HIDE DEF T
    <3> QED BY <2>1, Least
  <2>3. b \in 1 .. 64 /\ m < Twos[b]
    OBVIOUS
  <2>4. b # 1 => ~(m < Twos[b - 1])
    <3>1. b # 1 => b - 1 \in 1 .. 64 /\ ~(b <= b - 1)
      BY <2>3
    <3> QED BY <2>2, <3>1
  <2>5. Twos[0] = 1
    BY Powers, SMT DEF IsTable
  <2>6. Twos[b - 1] \in Nat
    BY <1>1, <2>3
  <2>7. b = 1 => Twos[b - 1] <= m
    BY <2>5
  <2> QED BY <2>3, <2>4, <2>6, <2>7
<1>5. BitLength(m) \in 1 .. 64 /\ m \div Twos[BitLength(m) - 1] = 1
  BY <1>3, <1>4 DEF BitLength
<1> QED BY <1>3, <1>5

\* countDigits is exact for every number of at most 64 bits.
THEOREM CountDigitsExact ==
  ASSUME NEW n \in Nat, n < Twos[64]
  PROVE  /\ CountDigits(n) \in 1 .. 20
         /\ n < Tens[CountDigits(n)]
         /\ n # 0 => Tens[CountDigits(n) - 1] <= n
<1> DEFINE m == IF n % 2 = 0 THEN n + 1 ELSE n
           b == BitLength(m)
           t == (b * 1233) \div 4096
<1>1. m \in Nat /\ m > 0 /\ n <= m /\ m - 1 <= n
  BY SMT
<1>2. m < Twos[64]
  <2>1. Twos[64] = 2 * Twos[63] /\ Twos[63] \in Nat
    BY Powers, PowersType, SMT DEF IsTable
  <2> QED BY <2>1, SMT
<1>3. b \in 1 .. 64 /\ Twos[b - 1] <= m /\ m < Twos[b]
  <2> HIDE DEF m
  <2> QED BY <1>1, <1>2, BitLengthExact
<1>4. Bounded(b, t)
  <2> HIDE DEF b
  <2> QED BY <1>3, BitsAndDigits
<1>5. CountDigits(n) = t - (IF n < PowersOf10(t) THEN 1 ELSE 0) + 1
  BY DEF CountDigits
<1> HIDE DEF b, t, m
<1>6. t \in 0 .. 19 /\ Twos[b] \in Nat /\ Twos[b - 1] \in Nat
      /\ Tens[t] \in Nat /\ Tens[t + 1] \in Nat /\ (t > 0 => Tens[t - 1] \in Nat)
  BY <1>3, <1>4, PowersType, SMT DEF Bounded
<1>7. Tens[0] = 1 /\ Tens[1] = 10
  BY AllTens
<1>8. CASE t = 0
  BY <1>1, <1>3, <1>4, <1>5, <1>6, <1>7, <1>8, SMT DEF Bounded, PowersOf10
<1>9. CASE t # 0 /\ n < Tens[t]
  <2>1. CountDigits(n) = t
    BY <1>5, <1>6, <1>9 DEF PowersOf10
  <2> QED BY <1>1, <1>3, <1>4, <1>6, <1>9, <2>1, SMT DEF Bounded
<1>10. CASE t # 0 /\ ~(n < Tens[t])
  <2>1. CountDigits(n) = t + 1 /\ CountDigits(n) - 1 = t
    BY <1>5, <1>6, <1>10 DEF PowersOf10
  <2> QED BY <1>1, <1>3, <1>4, <1>6, <1>10, <2>1, SMT DEF Bounded
<1> QED BY <1>8, <1>9, <1>10

\* The numbers that the first digits make, as Atoi defines them.
Accumulates(f, ds) ==
  f = [i \in 0 .. Len(ds) |-> IF i = 0 THEN 0 ELSE 10 * f[i - 1] + ds[i]]

\* The prefixes of digits make one sequence of numbers.
LEMMA PrefixesUnique ==
  ASSUME NEW ds, Len(ds) \in Nat, NEW f, NEW g, Accumulates(f, ds), Accumulates(g, ds)
  PROVE  f = g
<1> DEFINE T == {i \in 0 .. Len(ds) : f[i] # g[i]}
<1>1. T \subseteq Nat
  OBVIOUS
<1>2. ASSUME T # {} PROVE FALSE
  <2>1. PICK i \in T : \A y \in T : i <= y
    <3> HIDE DEF T
    <3> QED BY <1>1, <1>2, Least
  <2>2. i \in 0 .. Len(ds) /\ f[i] # g[i]
    OBVIOUS
  <2>3. i # 0
    BY <2>2 DEF Accumulates
  <2>4. i - 1 \in 0 .. Len(ds) /\ ~(i <= i - 1)
    BY <2>2, <2>3
  <2>5. f[i - 1] = g[i - 1]
    BY <2>1, <2>4
  <2> QED BY <2>2, <2>3, <2>5 DEF Accumulates
<1> QED BY <1>2 DEF Accumulates

\* Atoi is the last of the prefixes.
LEMMA AtoiLast ==
  ASSUME NEW token, Len(token.ds) \in Nat, NEW w, Accumulates(w, token.ds)
  PROVE  Atoi(token) = IF token.neg THEN -w[Len(token.ds)] ELSE w[Len(token.ds)]
<1> DEFINE f == CHOOSE g : g = [i \in 0 .. Len(token.ds) |->
                                  IF i = 0 THEN 0 ELSE 10 * g[i - 1] + token.ds[i]]
<1>1. f = [i \in 0 .. Len(token.ds) |->
             IF i = 0 THEN 0 ELSE 10 * f[i - 1] + token.ds[i]]
  BY DEF Accumulates
<1>2. Atoi(token) = IF token.neg THEN -f[Len(token.ds)] ELSE f[Len(token.ds)]
  BY DEF Atoi
<1> HIDE DEF f
<1>3. Accumulates(f, token.ds)
  BY <1>1 DEF Accumulates
<1>4. f = w
  BY <1>3, PrefixesUnique
<1> QED BY <1>2, <1>4

\* A digit more is a tenth less.
LEMMA DivideTwice ==
  ASSUME NEW u \in Nat, NEW a \in Nat \ {0}
  PROVE  u \div a = 10 * (u \div (10 * a)) + ((u \div a) % 10)
<1>1. (u \div a) \div 10 = u \div (10 * a)
  OBVIOUS
<1>2. u \div a \in Nat
  OBVIOUS
<1>3. \A v \in Nat : v = 10 * (v \div 10) + (v % 10)
  OBVIOUS
<1> QED BY <1>1, <1>2, <1>3

\* What itoa writes of a number of at most 64 bits is what parseNumber reads; digits
\* that have a minus in front are the opposite number, as in a negative whole double.
THEOREM ItoaAtoi ==
  ASSUME NEW n \in Int, Magnitude(n) < Twos[64]
  PROVE  /\ Atoi(Itoa(n)) = n /\ Itoa(n).t = "digits" /\ Itoa(n).suffix = ""
         /\ \A t : t.neg = TRUE /\ t.ds = Itoa(n).ds => Atoi(t) = -Magnitude(n)
<1> DEFINE u == Magnitude(n)
           count == CountDigits(u)
           ds == [i \in 1 .. count |-> (u \div Tens[count - i]) % 10]
           w == [i \in 0 .. count |-> u \div Tens[count - i]]
<1>1. u \in Nat /\ u < Twos[64]
  BY DEF Magnitude
<1>2. count \in 1 .. 20 /\ u < Tens[count]
  <2> HIDE DEF u
  <2> QED BY <1>1, CountDigitsExact
<1>3. Itoa(n).ds = ds /\ Itoa(n).t = "digits" /\ Itoa(n).suffix = ""
  BY DEF Itoa
<1>4. ds \in Seq(Int) /\ Len(ds) = count
  <2> HIDE DEF u, count
  <2>1. ds \in [1 .. count -> Int]
    BY <1>1, <1>2, PowersType
  <2> QED BY <1>2, <2>1
<1>5. Accumulates(w, ds)
  <2> HIDE DEF u, count
  <2>1. ASSUME NEW i \in 0 .. count
        PROVE  w[i] = IF i = 0 THEN 0 ELSE 10 * w[i - 1] + ds[i]
    <3>1. CASE i = 0
      <4>1. w[i] = u \div Tens[count] /\ Tens[count] \in Nat \ {0}
        BY <1>2, <3>1, PowersType
      <4> QED BY <1>1, <1>2, <3>1, <4>1
    <3>2. CASE i # 0
      <4> DEFINE a == Tens[count - i]
      <4>1. a \in Nat \ {0} /\ Tens[count - (i - 1)] = 10 * a
        BY <1>2, <3>2, Powers, PowersType, SMT DEF IsTable
      <4>2. w[i - 1] = u \div Tens[count - (i - 1)]
        BY <1>2, <3>2
      <4>3. w[i] = u \div a /\ w[i - 1] = u \div (10 * a) /\ ds[i] = (u \div a) % 10
        BY <1>2, <3>2, <4>1, <4>2
      <4> HIDE DEF a, w, ds
      <4>4. w[i] = 10 * w[i - 1] + ds[i]
        BY <1>1, <4>1, <4>3, DivideTwice
      <4> QED BY <3>2, <4>4
    <3> QED BY <3>1, <3>2
  <2>2. w = [i \in 0 .. count |-> w[i]]
    OBVIOUS
  <2> HIDE DEF w, ds
  <2> QED BY <1>4, <2>1, <2>2 DEF Accumulates
<1>6. w[count] = u
  <2>1. Tens[0] = 1
    BY AllTens
  <2> HIDE DEF u, count
  <2> QED BY <1>1, <1>2, <2>1
<1> HIDE DEF w, ds, count
<1>7. ASSUME NEW token, token = Itoa(n)
      PROVE  Atoi(token) = IF n < 0 THEN -u ELSE u
  <2>1. token.neg <=> n < 0
    BY <1>7, Zenon DEF Itoa
  <2>2. token.ds = ds
    BY <1>3, <1>7
  <2>3. Accumulates(w, token.ds) /\ Len(token.ds) \in Nat /\ Len(token.ds) = count
    BY <1>2, <1>4, <1>5, <2>2
  <2>4. Atoi(token) = IF token.neg THEN -w[Len(token.ds)] ELSE w[Len(token.ds)]
    BY <2>3, AtoiLast
  <2> HIDE DEF u
  <2>5. Atoi(token) = IF token.neg THEN -u ELSE u
    BY <1>6, <2>3, <2>4
  <2> QED BY <2>1, <2>5
<1>8. (IF n < 0 THEN -u ELSE u) = n
  BY DEF Magnitude
<1>8a. ASSUME NEW t, t.neg = TRUE, t.ds = Itoa(n).ds
       PROVE  Atoi(t) = -u
  <2>1. t.ds = ds
    BY <1>3, <1>8a
  <2>2. Accumulates(w, t.ds) /\ Len(t.ds) \in Nat /\ Len(t.ds) = count
    BY <1>2, <1>4, <1>5, <2>1
  <2>3. Atoi(t) = IF t.neg THEN -w[Len(t.ds)] ELSE w[Len(t.ds)]
    BY <2>2, AtoiLast
  <2> HIDE DEF u
  <2> QED BY <1>6, <1>8a, <2>2, <2>3
<1> HIDE DEF u
<1>9. Atoi(Itoa(n)) = n
  BY <1>7, <1>8
<1>10. \A t : t.neg = TRUE /\ t.ds = Itoa(n).ds => Atoi(t) = -Magnitude(n)
  BY <1>8a DEF u
<1> QED BY <1>3, <1>9, <1>10, Zenon


\* What a negative whole double is written as.
Minus(n) == [Itoa(n) EXCEPT !.neg = TRUE]

\* It is read as the negative integer, or as 0.
LEMMA MinusAtoi ==
  ASSUME NEW n \in Nat, Magnitude(n) < Twos[64]
  PROVE  Atoi(Minus(n)) = -n /\ Minus(n).t = "digits" /\ Minus(n).suffix = ""
<1>1. PICK t : t = Minus(n)
  OBVIOUS
<1>2. t.neg = TRUE /\ t.ds = Itoa(n).ds /\ t.t = "digits" /\ t.suffix = ""
  BY <1>1 DEF Minus, Itoa
<1>3. n \in Int /\ Magnitude(n) = n
  BY DEF Magnitude
<1>4. Atoi(t) = -n
  BY <1>2, <1>3, ItoaAtoi, Zenon
<1> QED BY <1>1, <1>2, <1>4

-----------------------------------------------------------------------------
(* Texts and documents.                                                    *)

\* The strings of the model, with those of the stubs.
Strings ==
  STRING \cup {"a", "2.0", "Test.Do", "Hello.Goodbye", "jsonrpc", "method", "params",
              "id"}

\* Every token that a text can have.
TokenSet ==
  {Mark(m) : m \in Marks} \cup ForeignTokens
  \cup {[t |-> "string", s |-> s] : s \in Strings \cup Keys}
  \cup {[t |-> o] : o \in {"junk", "huge", "null", "true", "false", "NaN", "Infinity"}}
  \cup {[t |-> "real", d |-> d] : d \in STRING}
  \cup {Itoa(n) : n \in {i \in Int : Magnitude(i) < Twos[64]}}
  \cup {Minus(n) : n \in {i \in Nat : Magnitude(i) < Twos[64]}}

\* What Reader makes of them.
KeySet == {StringEvent("Key", t) : t \in TokenSet} \cup {Plain("none")}
DocumentEvents ==
  KeySet \cup {StringEvent("String", t) : t \in TokenSet}
  \cup {ReadScalar(t) : t \in TokenSet}
  \cup {Plain(op) : op \in {"StartArray", "EndArray", "StartObject", "EndObject"}}
Containers == {"array", "object"}
Level == [type : Containers, count : Nat, keys : SUBSET KeySet]

\* The type of what Reader and Document keep.
ReaderTypes ==
  /\ text \in Seq(TokenSet) /\ pos \in 0 .. Len(text)
  /\ frames \in Seq(Containers) /\ dstack \in Seq(Level)
  /\ doc \in Seq(DocumentEvents) /\ key \in KeySet

\* Document has a level for every call of Reader, and the object of each but
\* the innermost has the value of its last key.
Nested(fs, ds) ==
  /\ Len(ds) = Len(fs)
  /\ \A i \in 1 .. Len(fs) : ds[i].type = fs[i]
  /\ \A i \in 1 .. Len(fs) : i < Len(fs) /\ fs[i] = "object" => ds[i].count % 2 = 0

\* What Reader expects agrees with what Document expects.
Fits(fs, ds, w, d) ==
  /\ fs = <<>> => w \in {"value", "after"} /\ (w = "value" <=> d = <<>>)
  /\ fs # <<>> => d # <<>>
  /\ fs # <<>> /\ fs[Len(fs)] = "array" => w \in {"firstElement", "value", "after"}
  /\ fs # <<>> /\ fs[Len(fs)] = "object" =>
       \/ w \in {"firstKey", "key", "after"} /\ ds[Len(fs)].count % 2 = 0
       \/ w \in {"colon", "value"} /\ ds[Len(fs)].count % 2 = 1

\* The inductive invariant of OnlyDuplicatesAbort.
ReaderInv ==
  /\ ReaderTypes
  /\ status \in {"writing", "reading"} =>
       Nested(frames, dstack) /\ Fits(frames, dstack, want, doc)
  /\ status = "writing" => pos = 0 /\ frames = <<>> /\ want = "value" /\ doc = <<>>
  /\ OnlyDuplicatesAbort

\* A sequence without its last element, and with another one instead.
LEMMA LastOfSequence ==
  ASSUME NEW S, NEW s \in Seq(S), s # <<>>
  PROVE  /\ Len(s) \in Nat \ {0} /\ Last(s) = s[Len(s)] /\ Last(s) \in S
         /\ Front(s) \in Seq(S) /\ Len(Front(s)) = Len(s) - 1
         /\ \A i \in 1 .. Len(s) - 1 : Front(s)[i] = s[i]
         /\ \A x \in S : LET r == Front(s) \o <<x>> IN
              /\ r \in Seq(S) /\ Len(r) = Len(s) /\ r[Len(s)] = x
              /\ \A i \in 1 .. Len(s) - 1 : r[i] = s[i]
<1>1. Len(s) \in Nat \ {0} /\ Last(s) = s[Len(s)] /\ Last(s) \in S
  BY DEF Last
<1>2. /\ Front(s) \in Seq(S) /\ Len(Front(s)) = Len(s) - 1
      /\ \A i \in 1 .. Len(s) - 1 : Front(s)[i] = s[i]
  <2>1. PICK n \in Nat \ {0} : n = Len(s)
    BY <1>1
  <2>2. \A i \in 1 .. n - 1 : s[i] \in S
    BY <2>1
  <2>3. PICK f : f = SubSeq(s, 1, n - 1)
    OBVIOUS
  <2>4. /\ f \in Seq(S) /\ Len(f) = IF 1 <= n - 1 THEN n - 1 - 1 + 1 ELSE 0
        /\ \A i \in 1 .. n - 1 - 1 + 1 : f[i] = s[1 + i - 1]
    BY <2>2, <2>3, SubSeqProperties
  <2>5. Len(f) = n - 1 /\ \A i \in 1 .. n - 1 : f[i] = s[i]
    BY <2>4
  <2> QED BY <2>1, <2>3, <2>4, <2>5 DEF Front
<1>3. ASSUME NEW x \in S
      PROVE  LET r == Front(s) \o <<x>> IN
              /\ r \in Seq(S) /\ Len(r) = Len(s) /\ r[Len(s)] = x
              /\ \A i \in 1 .. Len(s) - 1 : r[i] = s[i]
  <2> DEFINE f == Front(s)
  <2>1. f \in Seq(S) /\ Len(f) = Len(s) - 1 /\ \A i \in 1 .. Len(s) - 1 : f[i] = s[i]
    BY <1>2
  <2> HIDE DEF f
  <2>2. <<x>> \in Seq(S) /\ Len(<<x>>) = 1 /\ <<x>>[1] = x
    OBVIOUS
  <2>3. f \o <<x>> \in Seq(S) /\ Len(f \o <<x>>) = Len(s)
    BY <1>1, <2>1
  <2>4. \A i \in 1 .. Len(s) : (f \o <<x>>)[i] = IF i < Len(s) THEN f[i] ELSE x
    BY <1>1, <2>1, <2>2, <2>3
  <2>5. (f \o <<x>>)[Len(s)] = x
    <3>1. Len(s) \in 1 .. Len(s) /\ ~(Len(s) < Len(s))
      BY <1>1
    <3> QED BY ONLY <2>4, <3>1, Zenon
  <2>6. \A i \in 1 .. Len(s) - 1 : (f \o <<x>>)[i] = s[i]
    BY <1>1, <2>1, <2>4
  <2> QED BY <2>3, <2>5, <2>6 DEF f
<1> QED BY <1>1, <1>2, <1>3

\* No token of a text is its end, and a broken one has an error of parseString.
LEMMA TokenFacts ==
  ASSUME NEW token \in TokenSet
  PROVE  /\ token # EndOfText
         /\ token.t = "broken" => token.error \in StringErrors
<1>1. CASE token \in {Mark(m) : m \in Marks}
  <2>1. token.t \in Marks
    BY <1>1 DEF Mark
  <2> QED BY <2>1, EndOfText.t = "end" DEF EndOfText, Marks
<1>2. CASE token \in ForeignTokens
  BY <1>2, TokensAssumption
<1>3. CASE token \in {[t |-> "string", s |-> s] : s \in Strings \cup Keys}
  <2>1. token.t = "string"
    BY <1>3
  <2> QED BY <2>1, EndOfText.t = "end" DEF EndOfText
<1>4. CASE token \in {[t |-> o] : o \in {"junk", "huge", "null", "true", "false", "NaN", "Infinity"}}
  BY <1>4 DEF EndOfText
<1>5. CASE token \in {[t |-> "real", d |-> d] : d \in STRING}
  <2>1. token.t = "real"
    BY <1>5
  <2> QED BY <2>1, EndOfText.t = "end" DEF EndOfText
<1>6. CASE token \in {Itoa(n) : n \in {i \in Int : Magnitude(i) < Twos[64]}}
  <2>1. token.t = "digits"
    BY <1>6, ItoaAtoi
  <2> QED BY <2>1, EndOfText.t = "end" DEF EndOfText
<1>7. CASE token \in {Minus(n) : n \in {i \in Nat : Magnitude(i) < Twos[64]}}
  <2>1. token.t = "digits"
    BY <1>7, MinusAtoi
  <2> QED BY <2>1, EndOfText.t = "end" DEF EndOfText
<1> QED BY <1>1, <1>2, <1>3, <1>4, <1>5, <1>6, <1>7 DEF TokenSet

\* A level that counts one more.
LEMMA CountOneMore ==
  ASSUME NEW a, NEW n \in Nat, NEW b, NEW ks, NEW x,
         x = [[type |-> a, count |-> n, keys |-> b] EXCEPT !.count = @ + 1, !.keys = ks]
  PROVE  x = [type |-> a, count |-> n + 1, keys |-> ks]
OBVIOUS

\* It is a level still.
LEMMA LevelCounts ==
  ASSUME NEW l \in Level, NEW ks \in SUBSET KeySet
  PROVE  LET x == [l EXCEPT !.count = @ + 1, !.keys = ks]
         IN x \in Level /\ x.type = l.type /\ x.count = l.count + 1 /\ x.keys = ks
<1>1. PICK a \in Containers, n \in Nat, b \in SUBSET KeySet :
        l = [type |-> a, count |-> n, keys |-> b]
  BY DEF Level
<1>2. PICK x : x = [l EXCEPT !.count = @ + 1, !.keys = ks]
  OBVIOUS
<1>3. x = [type |-> a, count |-> n + 1, keys |-> ks]
  BY <1>1, <1>2, CountOneMore, Zenon
<1>4. x \in Level /\ x.type = l.type /\ x.count = l.count + 1 /\ x.keys = ks
  BY <1>1, <1>3 DEF Level
<1> QED BY <1>2, <1>4

\* Counting a value in the innermost level of Document.
LEMMA AddedStep ==
  ASSUME ReaderTypes
  PROVE  /\ AddedTo \in Seq(Level)
         /\ dstack = <<>> => AddedTo = <<>>
         /\ dstack # <<>> =>
              /\ Len(AddedTo) = Len(dstack)
              /\ AddedTo[Len(dstack)].type = dstack[Len(dstack)].type
              /\ AddedTo[Len(dstack)].count = dstack[Len(dstack)].count + 1
              /\ AddedTo[Len(dstack)].keys =
                   IF InObject /\ ~KeyExpected THEN Top.keys \cup {key} ELSE Top.keys
              /\ \A i \in 1 .. Len(dstack) - 1 : AddedTo[i] = dstack[i]
<1>1. CASE dstack = <<>>
  BY <1>1 DEF AddedTo
<1>2. CASE dstack # <<>>
  <2> DEFINE ks == IF InObject /\ ~KeyExpected THEN Top.keys \cup {key} ELSE Top.keys
             x == [Top EXCEPT !.count = @ + 1, !.keys = ks]
  <2>1. AddedTo = Front(dstack) \o <<x>>
    BY <1>2 DEF AddedTo
  <2>2. dstack \in Seq(Level) /\ Top \in Level /\ Top = dstack[Len(dstack)]
    BY <1>2, LastOfSequence DEF ReaderTypes, Top
  <2>3. ks \in SUBSET KeySet
    BY <2>2 DEF Level, ReaderTypes
  <2> HIDE DEF ks
  <2>4. x \in Level /\ x.type = Top.type /\ x.count = Top.count + 1 /\ x.keys = ks
    BY <2>2, <2>3, LevelCounts
  <2> HIDE DEF x
  <2>5. /\ AddedTo \in Seq(Level) /\ Len(AddedTo) = Len(dstack)
        /\ AddedTo[Len(dstack)] = x
        /\ \A i \in 1 .. Len(dstack) - 1 : AddedTo[i] = dstack[i]
    <3>1. PICK s : s = dstack /\ s \in Seq(Level) /\ s # <<>>
      BY <1>2, <2>2
    <3>2. LET r == Front(s) \o <<x>> IN
              /\ r \in Seq(Level) /\ Len(r) = Len(s) /\ r[Len(s)] = x
              /\ \A i \in 1 .. Len(s) - 1 : r[i] = s[i]
      <4>1. x \in Level
        BY <2>4
      <4> QED BY <3>1, <4>1, LastOfSequence
    <3> QED BY <2>1, <3>1, <3>2
  <2> QED BY <1>2, <2>2, <2>4, <2>5 DEF ks
<1> QED BY <1>1, <1>2

\* The levels agree after a value or a key has been counted.
LEMMA NestedAdded ==
  ASSUME ReaderTypes, Nested(frames, dstack)
  PROVE  Nested(frames, AddedTo)
<1>1. CASE dstack = <<>>
  BY <1>1, AddedStep DEF Nested, ReaderTypes
<1>2. CASE dstack # <<>>
  <2>1. PICK n \in Nat \ {0} : n = Len(dstack) /\ n = Len(frames)
    BY <1>2 DEF Nested, ReaderTypes
  <2>2. PICK a : a = AddedTo
    OBVIOUS
  <2>3. /\ Len(a) = n /\ a[n].type = dstack[n].type
        /\ \A i \in 1 .. n - 1 : a[i] = dstack[i]
    BY <1>2, <2>1, <2>2, AddedStep
  <2> QED BY <2>1, <2>2, <2>3 DEF Nested
<1> QED BY <1>1, <1>2

\* They agree after an array or an object has been opened where a value may be,
LEMMA NestedOpened ==
  ASSUME NEW fs \in Seq(Containers), NEW ds \in Seq(Level), Nested(fs, ds),
         fs # <<>> /\ fs[Len(fs)] = "object" => ds[Len(fs)].count % 2 = 0,
         NEW type \in Containers, NEW l \in Level, l.type = type
  PROVE  /\ Append(fs, type) \in Seq(Containers) /\ ds \o <<l>> \in Seq(Level)
         /\ Nested(Append(fs, type), ds \o <<l>>)
         /\ Append(fs, type)[Len(fs) + 1] = type /\ (ds \o <<l>>)[Len(fs) + 1] = l
         /\ Len(Append(fs, type)) = Len(fs) + 1 /\ Append(fs, type) # <<>>
<1>1. PICK n \in Nat : n = Len(fs) /\ n = Len(ds)
  BY DEF Nested
<1>2. PICK f : f = Append(fs, type)
  OBVIOUS
<1>3. PICK d : d = ds \o <<l>>
  OBVIOUS
<1>4. f \in Seq(Containers) /\ Len(f) = n + 1 /\ f[n + 1] = type
      /\ \A i \in 1 .. n : f[i] = fs[i]
  <2>1. f \in Seq(Containers)
    BY <1>2
  <2>2. /\ Len(Append(fs, type)) = Len(fs) + 1
        /\ \A i \in 1 .. Len(fs) : Append(fs, type)[i] = fs[i]
        /\ Append(fs, type)[Len(fs) + 1] = type
    <3>1. Len(Append(fs, type)) = Len(fs) + 1
      BY AppendProperties
    <3>2. \A i \in 1 .. Len(fs) : Append(fs, type)[i] = fs[i]
      BY AppendProperties
    <3>3. Append(fs, type)[Len(fs) + 1] = type
      BY AppendProperties
    <3> QED BY <3>1, <3>2, <3>3
  <2> QED BY <1>1, <1>2, <2>1, <2>2
<1>5. d \in Seq(Level) /\ Len(d) = n + 1 /\ d[n + 1] = l
      /\ \A i \in 1 .. n : d[i] = ds[i]
  BY <1>1, <1>3
<1>6. \A i \in 1 .. n + 1 : i \in 1 .. n \/ i = n + 1
  OBVIOUS
<1>7. n # 0 /\ fs[n] = "object" => ds[n].count % 2 = 0
  BY <1>1
<1>8. \A i \in 1 .. n : fs[i] = "object" => ds[i].count % 2 = 0
  BY <1>1, <1>7 DEF Nested
<1>9. Nested(f, d)
  BY <1>1, <1>4, <1>5, <1>6, <1>8 DEF Nested
<1> QED BY <1>1, <1>2, <1>3, <1>4, <1>5, <1>9

\* and after it has been closed, when the one around it has a value for each key.
LEMMA NestedClosed ==
  ASSUME NEW fs \in Seq(Containers), NEW ds \in Seq(Level), Nested(fs, ds),
         fs # <<>>
  PROVE  /\ Front(fs) \in Seq(Containers) /\ Front(ds) \in Seq(Level)
         /\ Nested(Front(fs), Front(ds))
         /\ Front(fs) # <<>> /\ Front(fs)[Len(Front(fs))] = "object" =>
              Front(ds)[Len(Front(fs))].count % 2 = 0
<1>1. PICK n \in Nat \ {0} : n = Len(fs) /\ n = Len(ds)
  BY DEF Nested
<1>2. ds # <<>>
  BY <1>1
<1>3. PICK f : f = Front(fs)
  OBVIOUS
<1>4. PICK d : d = Front(ds)
  OBVIOUS
<1>5. f \in Seq(Containers) /\ Len(f) = n - 1 /\ \A i \in 1 .. n - 1 : f[i] = fs[i]
  <2>1. /\ Front(fs) \in Seq(Containers) /\ Len(Front(fs)) = Len(fs) - 1
        /\ \A i \in 1 .. Len(fs) - 1 : Front(fs)[i] = fs[i]
    BY LastOfSequence
  <2> QED BY <1>1, <1>3, <2>1
<1>6. d \in Seq(Level) /\ Len(d) = n - 1 /\ \A i \in 1 .. n - 1 : d[i] = ds[i]
  <2>1. /\ Front(ds) \in Seq(Level) /\ Len(Front(ds)) = Len(ds) - 1
        /\ \A i \in 1 .. Len(ds) - 1 : Front(ds)[i] = ds[i]
    BY <1>2, LastOfSequence
  <2> QED BY <1>1, <1>4, <2>1
<1>7. \A i \in 1 .. n - 1 : i < n /\ i \in 1 .. n
  BY <1>1
<1>8. \A i \in 1 .. n - 1 : f[i] = "object" => d[i].count % 2 = 0
  BY <1>1, <1>5, <1>6, <1>7 DEF Nested
<1>9. Nested(f, d)
  BY <1>1, <1>5, <1>6, <1>7, <1>8 DEF Nested
<1>10. f # <<>> => n - 1 \in 1 .. n - 1
  BY <1>5
<1> QED BY <1>3, <1>4, <1>5, <1>6, <1>8, <1>9, <1>10

\* Document takes what Reader gives it, but for a key that it has already.
LEMMA AddValueStep ==
  ASSUME ReaderInv, status = "reading",
         NEW e \in DocumentEvents, NEW isString \in BOOLEAN,
         NEW opened, AddValue(e, isString, opened),
         doc # <<>> => frames # <<>>,
         KeyExpected => isString /\ e \in KeySet
  PROVE  \/ /\ status' = "aborted" /\ UNCHANGED documentVars
            /\ InObject /\ ~KeyExpected /\ key \in Top.keys
         \/ /\ status' = "reading" /\ dstack' = AddedTo \o opened
            /\ doc' \in Seq(DocumentEvents) /\ doc' # <<>> /\ key' \in KeySet
<1>1. ReaderTypes /\ Nested(frames, dstack)
  BY DEF ReaderInv
<1>2. doc # <<>> => dstack # <<>>
  BY <1>1 DEF Nested, ReaderTypes
<1>3. CASE ~Accepts(isString)
  <2>1. Abort
    BY <1>3 DEF AddValue
  <2>2. InObject /\ ~KeyExpected /\ key \in Top.keys
    BY <1>2, <1>3 DEF Accepts
  <2> QED BY <2>1, <2>2 DEF Abort
<1>4. CASE Accepts(isString)
  <2>1. /\ doc' = Append(doc, e) /\ dstack' = AddedTo \o opened
        /\ key' = (IF KeyExpected THEN e ELSE key) /\ status' = status
    BY <1>4 DEF AddValue
  <2>2. Append(doc, e) \in Seq(DocumentEvents) /\ Append(doc, e) # <<>>
    BY <1>1, AppendProperties DEF ReaderTypes
  <2> QED BY <1>1, <2>1, <2>2 DEF ReaderTypes
<1> QED BY <1>3, <1>4

\* The types of the text after the next token, and of the token.
TokenRead(t) ==
  /\ text' \in Seq(TokenSet) /\ Len(text) <= Len(text')
  /\ \/ t \in TokenSet /\ pos + 1 <= Len(text')
     \/ t = EndOfText /\ pos = Len(text')

\* NextToken gives a token that the text has, or its end.
LEMMA NextTokenStep ==
  ASSUME ReaderTypes, NEW t, NextToken(t)
  PROVE  TokenRead(t)
<1>1. CASE pos < Len(text) /\ t = text[pos + 1] /\ UNCHANGED text
  BY <1>1 DEF ReaderTypes, TokenRead
<1>2. CASE pos = Len(text) /\ t = EndOfText /\ UNCHANGED text
  BY <1>2 DEF ReaderTypes, TokenRead
<1>3. CASE /\ pos = Len(text) /\ t \in ForeignTokens \cup {Mark(m) : m \in Marks}
           /\ text' = Append(text, t)
  <2>1. t \in TokenSet
    BY <1>3 DEF TokenSet
  <2>2. text' \in Seq(TokenSet) /\ Len(text') = Len(text) + 1
    BY <1>3, <2>1, AppendProperties DEF ReaderTypes
  <2> QED BY <1>3, <2>1, <2>2 DEF ReaderTypes, TokenRead
<1> QED BY <1>1, <1>2, <1>3 DEF NextToken

\* What throws ends the parsing with an error.
LEMMA ThrowStep ==
  ASSUME ReaderInv, NEW t, TokenRead(t), NEW error, Throw(error),
         error \notin {"writing", "reading", "aborted", "PARSE_OK"}
  PROVE  ReaderInv'
BY DEF ReaderInv, ReaderTypes, TokenRead, Throw, readerVars, documentVars,
       OnlyDuplicatesAbort

\* What Document refuses as a key that it has already.
LEMMA AbortStep ==
  ASSUME ReaderInv, NEW t \in TokenSet, TokenRead(t), NEW next, Go(next),
         frames' \in Seq(Containers),
         status' = "aborted", UNCHANGED documentVars,
         InObject /\ ~KeyExpected /\ key \in Top.keys
  PROVE  ReaderInv'
<1>1. pos + 1 <= Len(text')
  BY TokenFacts DEF TokenRead
<1>2. ReaderTypes'
  BY <1>1 DEF ReaderInv, ReaderTypes, TokenRead, Go, documentVars
<1>3. (InObject /\ ~KeyExpected /\ key \in Top.keys)'
  BY DEF InObject, KeyExpected, Top, documentVars
<1> QED BY <1>2, <1>3 DEF ReaderInv, OnlyDuplicatesAbort

\* A value in its place.
ValueExpected == want = "value" \/ (want = "firstElement" /\ frames # <<>>)

\* Document accepts a value there.
LEMMA ValuePlace ==
  ASSUME ReaderInv, status = "reading", ValueExpected
  PROVE  /\ doc # <<>> => frames # <<>>
         /\ ~KeyExpected
         /\ frames # <<>> /\ frames[Len(frames)] = "object" =>
              AddedTo[Len(frames)].count % 2 = 0
<1>1. ReaderTypes /\ Nested(frames, dstack) /\ Fits(frames, dstack, want, doc)
  BY DEF ReaderInv
<1>2. doc # <<>> => frames # <<>>
  BY <1>1 DEF ValueExpected, Fits
<1>3. CASE frames = <<>>
  <2>1. dstack = <<>>
    BY <1>1, <1>3 DEF Nested, ReaderTypes
  <2> QED BY <1>2, <1>3, <2>1 DEF KeyExpected, InObject
<1>4. CASE frames # <<>>
  <2>1. PICK n \in Nat \ {0} : n = Len(frames) /\ n = Len(dstack)
    BY <1>1, <1>4 DEF Nested, ReaderTypes
  <2>2. dstack # <<>> /\ Top = dstack[n] /\ Top.type = frames[n] /\ dstack[n].count \in Nat
    <3>1. dstack # <<>> /\ Top = dstack[n]
      BY <2>1 DEF Top, Last
    <3>2. dstack[n] \in Level /\ dstack[n].type = frames[n]
      BY <1>1, <2>1 DEF Nested, ReaderTypes
    <3> QED BY <3>1, <3>2 DEF Level
  <2>3. frames[n] = "object" => dstack[n].count % 2 = 1
    BY <1>1, <1>4, <2>1 DEF Fits, ValueExpected
  <2>4. ~KeyExpected
    BY <2>2, <2>3 DEF KeyExpected, InObject
  <2>5. AddedTo[n].count = dstack[n].count + 1
    BY <1>1, <2>1, <2>2, AddedStep
  <2>6. frames[n] = "object" => AddedTo[n].count % 2 = 0
    BY <2>2, <2>3, <2>5
  <2> QED BY <1>2, <2>1, <2>4, <2>6
<1> QED BY <1>3, <1>4

\* A scalar has been read.
LEMMA ScalarRead ==
  ASSUME ReaderInv, status = "reading", ValueExpected,
         NEW t \in TokenSet, TokenRead(t), NEW e \in DocumentEvents,
         NEW isString \in BOOLEAN, AddValue(e, isString, <<>>),
         Go("after"), UNCHANGED frames
  PROVE  ReaderInv'
<1>1. ReaderTypes /\ Nested(frames, dstack)
  BY DEF ReaderInv
<1>2. /\ doc # <<>> => frames # <<>>
      /\ ~KeyExpected
      /\ frames # <<>> /\ frames[Len(frames)] = "object" =>
           AddedTo[Len(frames)].count % 2 = 0
  BY ValuePlace
<1>3. CASE /\ status' = "aborted" /\ UNCHANGED documentVars
           /\ InObject /\ ~KeyExpected /\ key \in Top.keys
  BY <1>1, <1>3, AbortStep DEF ReaderTypes
<1>4. CASE /\ status' = "reading" /\ dstack' = AddedTo \o <<>>
           /\ doc' \in Seq(DocumentEvents) /\ doc' # <<>> /\ key' \in KeySet
  <2>1. AddedTo \in Seq(Level)
    BY <1>1, AddedStep
  <2>2. dstack' = AddedTo
    <3>1. \A s \in Seq(Level) : s \o <<>> = s
      BY ConcatEmptySeq
    <3> QED BY <1>4, <2>1, <3>1
  <2>3. Nested(frames', dstack')
    BY <1>1, <2>2, NestedAdded
  <2>4. Fits(frames', dstack', want', doc')
    BY <1>2, <1>4, <2>2 DEF Fits, Go
  <2>5. pos' \in 0 .. Len(text')
    BY <1>1, TokenFacts DEF ReaderTypes, TokenRead, Go
  <2>6. ReaderTypes'
    BY <1>1, <1>4, <2>1, <2>2, <2>5 DEF ReaderTypes, TokenRead
  <2> QED BY <1>4, <2>3, <2>4, <2>6 DEF ReaderInv, OnlyDuplicatesAbort
<1> QED BY <1>2, <1>3, <1>4, AddValueStep

\* A key has been read.
KeyPlace == want \in {"firstKey", "key"}

\* Document adds it to the object that it has open.
LEMMA KeyRead ==
  ASSUME ReaderInv, status = "reading", KeyPlace,
         NEW t \in TokenSet, TokenRead(t), NEW e \in KeySet,
         AddValue(e, TRUE, <<>>), Go("colon"), UNCHANGED frames
  PROVE  ReaderInv'
<1>1. ReaderTypes /\ Nested(frames, dstack) /\ Fits(frames, dstack, want, doc)
  BY DEF ReaderInv
<1>2. frames # <<>>
  BY <1>1 DEF Fits, KeyPlace
<1>3. PICK n \in Nat \ {0} : n = Len(frames) /\ n = Len(dstack)
  BY <1>1, <1>2 DEF Nested, ReaderTypes
<1>4. frames[n] = "object" /\ dstack[n].count % 2 = 0 /\ dstack[n].count \in Nat
  <2>0. n \in 1 .. Len(frames) /\ n \in 1 .. Len(dstack)
    BY <1>3
  <2>1. frames[n] \in Containers /\ dstack[n] \in Level
    <3>1. frames[n] \in Containers
      BY <1>1, <2>0, ElementOfSeq DEF ReaderTypes
    <3>2. dstack[n] \in Level
      BY <1>1, <2>0, ElementOfSeq DEF ReaderTypes
    <3> QED BY <3>1, <3>2
  <2>2. frames[n] = "array" \/ frames[n] = "object"
    BY <2>1 DEF Containers
  <2> QED BY <1>1, <1>2, <1>3, <2>1, <2>2 DEF Fits, KeyPlace, Level
<1>5. AddedTo \in Seq(Level) /\ AddedTo[n].count = dstack[n].count + 1
  <2>1. dstack # <<>>
    BY <1>3
  <2> QED BY <1>1, <1>3, <2>1, AddedStep
<1>6. CASE /\ status' = "aborted" /\ UNCHANGED documentVars
           /\ InObject /\ ~KeyExpected /\ key \in Top.keys
  BY <1>1, <1>6, AbortStep DEF ReaderTypes
<1>7. CASE /\ status' = "reading" /\ dstack' = AddedTo \o <<>>
           /\ doc' \in Seq(DocumentEvents) /\ doc' # <<>> /\ key' \in KeySet
  <2>1. dstack' = AddedTo
    <3>1. \A s \in Seq(Level) : s \o <<>> = s
      BY ConcatEmptySeq
    <3> QED BY <1>5, <1>7, <3>1
  <2>2. Nested(frames', dstack')
    BY <1>1, <2>1, NestedAdded
  <2>3. dstack'[n].count % 2 = 1
    BY <1>4, <1>5, <2>1
  <2>4. Fits(frames', dstack', want', doc')
    BY <1>2, <1>3, <1>4, <1>7, <2>3 DEF Fits, Go
  <2>5. pos' \in 0 .. Len(text')
    BY <1>1, TokenFacts DEF ReaderTypes, TokenRead, Go
  <2>6. ReaderTypes'
    BY <1>1, <1>5, <1>7, <2>1, <2>5 DEF ReaderTypes, TokenRead
  <2> QED BY <1>7, <2>2, <2>4, <2>6 DEF ReaderInv, OnlyDuplicatesAbort
<1>8. e \in DocumentEvents
  BY DEF DocumentEvents
<1> QED BY <1>2, <1>6, <1>7, <1>8, AddValueStep

\* An array or an object begins.
LEMMA OpenRead ==
  ASSUME ReaderInv, status = "reading", ValueExpected,
         NEW t \in TokenSet, TokenRead(t), NEW type \in Containers,
         Start(type), Go(IF type = "array" THEN "firstElement" ELSE "firstKey"),
         frames' = Append(frames, type)
  PROVE  ReaderInv'
<1> DEFINE l == [type |-> type, count |-> 0, keys |-> {}]
           e == Plain(IF type = "array" THEN "StartArray" ELSE "StartObject")
<1>1. ReaderTypes /\ Nested(frames, dstack)
  BY DEF ReaderInv
<1>2. /\ doc # <<>> => frames # <<>>
      /\ ~KeyExpected
      /\ frames # <<>> /\ frames[Len(frames)] = "object" =>
           AddedTo[Len(frames)].count % 2 = 0
  BY ValuePlace
<1>3. l \in Level /\ l.type = type /\ l.count = 0 /\ e \in DocumentEvents
  BY DEF Level, DocumentEvents
<1>4. AddValue(e, FALSE, <<l>>)
  BY DEF Start
<1> HIDE DEF l, e
<1>5. AddedTo \in Seq(Level) /\ Nested(frames, AddedTo)
  BY <1>1, AddedStep, NestedAdded
<1>6. /\ frames' \in Seq(Containers) /\ AddedTo \o <<l>> \in Seq(Level)
      /\ Nested(frames', AddedTo \o <<l>>)
      /\ frames'[Len(frames) + 1] = type /\ (AddedTo \o <<l>>)[Len(frames) + 1] = l
      /\ Len(frames') = Len(frames) + 1 /\ frames' # <<>>
  BY <1>1, <1>2, <1>3, <1>5, NestedOpened, ZenonT(60)
  DEF ReaderTypes
<1>7. CASE /\ status' = "aborted" /\ UNCHANGED documentVars
           /\ InObject /\ ~KeyExpected /\ key \in Top.keys
  BY <1>6, <1>7, AbortStep
<1>8. CASE /\ status' = "reading" /\ dstack' = AddedTo \o <<l>>
           /\ doc' \in Seq(DocumentEvents) /\ doc' # <<>> /\ key' \in KeySet
  <2>1. Fits(frames', dstack', want', doc')
    <3>1. /\ frames' # <<>> /\ doc' # <<>>
          /\ frames'[Len(frames')] = type /\ dstack'[Len(frames')].count = 0
      BY <1>3, <1>6, <1>8
    <3>2. want' = IF type = "array" THEN "firstElement" ELSE "firstKey"
      BY DEF Go
    <3> QED BY ONLY <3>1, <3>2, type \in Containers DEF Fits, Containers
  <2>2. pos' \in 0 .. Len(text')
    BY <1>1, TokenFacts DEF ReaderTypes, TokenRead, Go
  <2>3. ReaderTypes'
    BY <1>6, <1>8, <2>2 DEF ReaderTypes, TokenRead
  <2> QED BY <1>6, <1>8, <2>1, <2>3 DEF ReaderInv, OnlyDuplicatesAbort
<1> QED BY <1>2, <1>3, <1>4, <1>7, <1>8, AddValueStep

\* An array or an object ends.
LEMMA CloseRead ==
  ASSUME ReaderInv, status = "reading",
         NEW t \in TokenSet, TokenRead(t), NEW type \in Containers,
         frames # <<>>, frames[Len(frames)] = type, Close(type)
  PROVE  ReaderInv'
<1>1. ReaderTypes /\ Nested(frames, dstack)
  BY DEF ReaderInv
<1>2. PICK n \in Nat \ {0} : n = Len(frames) /\ n = Len(dstack)
  BY <1>1 DEF Nested, ReaderTypes
<1>3. dstack # <<>> /\ Top.type = type
  BY <1>1, <1>2 DEF Top, Last, Nested
<1> DEFINE e == Plain(IF type = "array" THEN "EndArray" ELSE "EndObject")
<1>4. /\ doc' = Append(doc, e) /\ dstack' = Front(dstack) /\ key' = key /\ status' = status
      /\ pos' = pos + 1 /\ want' = "after" /\ frames' = Front(frames)
  BY <1>3 DEF Close, End, Go
<1>5. e \in DocumentEvents
  BY DEF DocumentEvents
<1> HIDE DEF e
<1>6. doc' \in Seq(DocumentEvents) /\ doc' # <<>>
  <2>1. doc \in Seq(DocumentEvents)
    BY <1>1 DEF ReaderTypes
  <2>2. Append(doc, e) \in Seq(DocumentEvents) /\ Append(doc, e) # <<>>
    BY <1>5, <2>1, AppendProperties
  <2> QED BY <1>4, <2>2
<1>7. /\ frames' \in Seq(Containers) /\ dstack' \in Seq(Level)
      /\ Nested(frames', dstack')
      /\ frames' # <<>> /\ frames'[Len(frames')] = "object" =>
           dstack'[Len(frames')].count % 2 = 0
  BY <1>1, <1>4, NestedClosed DEF ReaderTypes
<1>8. Fits(frames', dstack', want', doc')
  BY <1>4, <1>6, <1>7 DEF Fits
<1>9. pos' \in 0 .. Len(text')
  BY <1>1, <1>4, TokenFacts DEF ReaderTypes, TokenRead
<1>10. ReaderTypes'
  BY <1>1, <1>4, <1>6, <1>7, <1>9 DEF ReaderTypes, TokenRead
<1> QED BY <1>4, <1>7, <1>8, <1>10 DEF ReaderInv, OnlyDuplicatesAbort

\* A colon or a comma is skipped.
LEMMA SkipRead ==
  ASSUME ReaderInv, status = "reading",
         NEW t \in TokenSet, TokenRead(t), NEW next, Skip(next),
         Fits(frames, dstack, next, doc)
  PROVE  ReaderInv'
<1>1. ReaderTypes /\ Nested(frames, dstack)
  BY DEF ReaderInv
<1>2. pos' \in 0 .. Len(text')
  BY <1>1, TokenFacts DEF ReaderTypes, TokenRead, Skip, Go
<1>3. ReaderTypes'
  BY <1>1, <1>2 DEF ReaderTypes, TokenRead, Skip, documentVars
<1>4. Nested(frames', dstack') /\ Fits(frames', dstack', want', doc')
  BY <1>1 DEF Skip, Go, documentVars
<1> QED BY <1>3, <1>4 DEF ReaderInv, OnlyDuplicatesAbort, Skip

\* parseValue.
LEMMA ReadValueStep ==
  ASSUME ReaderInv, status = "reading", ValueExpected,
         NEW t, TokenRead(t), ReadValue(t)
  PROVE  ReaderInv'
<1>1. CASE IsScalar(t) /\ ~TooBig(t) /\ AddValue(ReadScalar(t), FALSE, <<>>)
           /\ Go("after") /\ UNCHANGED frames
  <2>1. t \in TokenSet
    BY <1>1 DEF TokenRead, IsScalar, EndOfText
  <2>2. ReadScalar(t) \in DocumentEvents
    BY <2>1 DEF DocumentEvents
  <2> QED BY <1>1, <2>1, <2>2, ScalarRead
<1>2. CASE IsString(t) /\ StringError(t) = {} /\ AddValue(StringEvent("String", t), TRUE, <<>>)
           /\ Go("after") /\ UNCHANGED frames
  <2>1. t \in TokenSet
    BY <1>2 DEF TokenRead, IsString, EndOfText
  <2>2. StringEvent("String", t) \in DocumentEvents
    BY <2>1 DEF DocumentEvents
  <2> QED BY <1>2, <2>1, <2>2, ScalarRead
<1>3. CASE t.t = "[" /\ Start("array") /\ Go("firstElement") /\ frames' = Append(frames, "array")
  <2>1. t \in TokenSet
    BY <1>3 DEF TokenRead, EndOfText
  <2> QED BY <1>3, <2>1, OpenRead DEF Containers
<1>4. CASE t.t = "{" /\ Start("object") /\ Go("firstKey") /\ frames' = Append(frames, "object")
  <2>1. t \in TokenSet
    <3>1. EndOfText.t # t.t
      BY <1>4 DEF EndOfText
    <3> QED BY <3>1 DEF TokenRead
  <2> QED BY <1>4, <2>1, OpenRead DEF Containers
<1>5. CASE \E error \in StringError(t) : Throw(error)
  <2>1. PICK error \in StringError(t) : Throw(error)
    BY <1>5
  <2>2. error \in StringErrors
    BY TokenFacts DEF StringError, StringErrors, TokenRead, EndOfText
  <2> QED BY <2>1, <2>2, ThrowStep DEF StringErrors
<1>6. CASE TooBig(t) /\ Throw("PARSE_NUMBER_TOO_BIG")
  BY <1>6, ThrowStep
<1>7. CASE t = EndOfText /\ Throw("PARSE_EXPECT_VALUE")
  BY <1>7, ThrowStep
<1>8. CASE t.t \in (Marks \ {"[", "{"}) \cup {"junk"} /\ Throw("PARSE_BAD_VALUE")
  BY <1>8, ThrowStep
<1> QED BY <1>1, <1>2, <1>3, <1>4, <1>5, <1>6, <1>7, <1>8 DEF ReadValue

\* The key of a member.
LEMMA ReadKeyStep ==
  ASSUME ReaderInv, status = "reading", KeyPlace,
         NEW t, TokenRead(t), ReadKey(t)
  PROVE  ReaderInv'
<1>1. CASE ~IsString(t)
  BY <1>1, ThrowStep DEF ReadKey
<1>2. CASE IsString(t) /\ \E error \in StringError(t) : Throw(error)
  <2>1. PICK error \in StringError(t) : Throw(error)
    BY <1>2
  <2>2. error \in StringErrors
    BY TokenFacts DEF StringError, StringErrors, TokenRead, EndOfText
  <2> QED BY <2>1, <2>2, ThrowStep DEF StringErrors
<1>3. CASE IsString(t) /\ AddValue(StringEvent("Key", t), TRUE, <<>>)
           /\ Go("colon") /\ UNCHANGED frames
  <2>1. t \in TokenSet
    BY <1>3 DEF TokenRead, IsString, EndOfText
  <2>2. StringEvent("Key", t) \in KeySet
    BY <2>1 DEF KeySet
  <2> QED BY <1>3, <2>1, <2>2, KeyRead
<1> QED BY <1>1, <1>2, <1>3 DEF ReadKey

\* What follows a value.
LEMMA AfterValueStep ==
  ASSUME ReaderInv, status = "reading", want = "after",
         NEW t, TokenRead(t), AfterValue(t)
  PROVE  ReaderInv'
<1>1. ReaderTypes /\ Nested(frames, dstack) /\ Fits(frames, dstack, want, doc)
  BY DEF ReaderInv
<1>2. CASE frames = <<>> /\ t # EndOfText /\ Throw("PARSE_ROOT_NOT_SINGULAR")
  BY <1>2, ThrowStep
<1>3. CASE frames = <<>> /\ t = EndOfText /\ Throw("PARSE_OK")
  <2>1. pos = Len(text') /\ text' \in Seq(TokenSet)
    BY <1>3, TokenFacts DEF TokenRead
  <2>2. doc # <<>> /\ dstack = <<>>
    BY <1>1, <1>3 DEF Fits, Nested, ReaderTypes
  <2> QED BY <1>1, <1>3, <2>1, <2>2
          DEF Throw, ReaderInv, ReaderTypes, OnlyDuplicatesAbort, readerVars, documentVars
<1>4. ASSUME frames # <<>>
      PROVE  /\ Last(frames) = frames[Len(frames)]
             /\ InArray <=> frames[Len(frames)] = "array"
             /\ ~InArray <=> frames[Len(frames)] = "object"
  <2>1. frames[Len(frames)] \in Containers
    BY <1>1, <1>4, LastOfSequence DEF ReaderTypes
  <2> QED BY <1>4, <2>1 DEF InArray, Last, Containers
<1>5. CASE t.t = "," /\ InArray /\ Skip("value")
  <2>1. t \in TokenSet
    <3>1. EndOfText.t # t.t
      BY <1>5 DEF EndOfText
    <3> QED BY <3>1 DEF TokenRead
  <2>2. Fits(frames, dstack, "value", doc)
    BY <1>1, <1>4, <1>5 DEF Fits, InArray
  <2> QED BY <1>5, <2>1, <2>2, SkipRead
<1>6. CASE t.t = "]" /\ InArray /\ Close("array")
  <2>1. t \in TokenSet
    <3>1. EndOfText.t # t.t
      BY <1>6 DEF EndOfText
    <3> QED BY <3>1 DEF TokenRead
  <2>2. frames # <<>> /\ frames[Len(frames)] = "array" /\ "array" \in Containers
    BY <1>4, <1>6 DEF InArray, Containers
  <2> QED BY <1>6, <2>1, <2>2, CloseRead
<1>7. CASE t.t = "," /\ frames # <<>> /\ ~InArray /\ Skip("key")
  <2>1. t \in TokenSet
    <3>1. EndOfText.t # t.t
      BY <1>7 DEF EndOfText
    <3> QED BY <3>1 DEF TokenRead
  <2>2. Fits(frames, dstack, "key", doc)
    BY <1>1, <1>4, <1>7 DEF Fits
  <2> QED BY <1>7, <2>1, <2>2, SkipRead
<1>8. CASE t.t = "}" /\ frames # <<>> /\ ~InArray /\ Close("object")
  <2>1. t \in TokenSet
    <3>1. EndOfText.t # t.t
      BY <1>8 DEF EndOfText
    <3> QED BY <3>1 DEF TokenRead
  <2>2. frames[Len(frames)] = "object" /\ "object" \in Containers
    BY <1>4, <1>8 DEF Containers
  <2> QED BY <1>8, <2>1, <2>2, CloseRead
<1>9. CASE Throw("PARSE_MISS_COMMA_OR_SQUARE_BRACKET")
           \/ Throw("PARSE_MISS_COMMA_OR_CURLY_BRACKET")
  BY <1>9, ThrowStep
<1> QED BY <1>2, <1>3, <1>5, <1>6, <1>7, <1>8, <1>9 DEF AfterValue, InArray

\* A step of Reader.
LEMMA ReadStep ==
  ASSUME ReaderInv, Read
  PROVE  ReaderInv'
<1>1. status = "reading"
  BY DEF Read
<1>2. ReaderTypes /\ Nested(frames, dstack) /\ Fits(frames, dstack, want, doc)
  BY <1>1 DEF ReaderInv
<1>3. PICK t :
        /\ NextToken(t)
        /\ \/ want = "value" /\ ReadValue(t)
           \/ want = "firstElement" /\ IF t.t = "]" THEN Close("array") ELSE ReadValue(t)
           \/ want = "firstKey" /\ IF t.t = "}" THEN Close("object") ELSE ReadKey(t)
           \/ want = "key" /\ ReadKey(t)
           \/ want = "colon" /\ IF t.t = ":" THEN Skip("value") ELSE Throw("PARSE_MISS_COLON")
           \/ want = "after" /\ AfterValue(t)
  BY DEF Read
<1>4. TokenRead(t)
  BY <1>2, <1>3, NextTokenStep
<1>5. ASSUME want # "value", want # "after"
      PROVE  frames # <<>> /\ frames[Len(frames)] \in Containers
  <2>1. frames # <<>>
    BY <1>2, <1>5 DEF Fits
  <2> QED BY <1>2, <2>1, LastOfSequence DEF ReaderTypes
<1>6. CASE want = "value" /\ ReadValue(t)
  BY <1>1, <1>4, <1>6, ReadValueStep DEF ValueExpected
<1>7. CASE want = "firstElement" /\ t.t = "]" /\ Close("array")
  <2>1. t \in TokenSet
    <3>1. EndOfText.t # t.t
      BY <1>7 DEF EndOfText
    <3> QED BY <1>4, <3>1 DEF TokenRead
  <2>2. frames # <<>> /\ frames[Len(frames)] = "array" /\ "array" \in Containers
    BY <1>2, <1>5, <1>7 DEF Fits, Containers
  <2> QED BY <1>1, <1>4, <1>7, <2>1, <2>2, CloseRead
<1>8. CASE want = "firstElement" /\ ReadValue(t)
  BY <1>1, <1>4, <1>5, <1>8, ReadValueStep DEF ValueExpected
<1>9. CASE want = "firstKey" /\ t.t = "}" /\ Close("object")
  <2>1. t \in TokenSet
    <3>1. EndOfText.t # t.t
      BY <1>9 DEF EndOfText
    <3> QED BY <1>4, <3>1 DEF TokenRead
  <2>2. frames # <<>> /\ frames[Len(frames)] = "object" /\ "object" \in Containers
    BY <1>2, <1>5, <1>9 DEF Fits, Containers
  <2> QED BY <1>1, <1>4, <1>9, <2>1, <2>2, CloseRead
<1>10. CASE want \in {"firstKey", "key"} /\ ReadKey(t)
  BY <1>1, <1>4, <1>10, ReadKeyStep DEF KeyPlace
<1>11. CASE want = "colon" /\ t.t = ":" /\ Skip("value")
  <2>1. t \in TokenSet
    <3>1. EndOfText.t # t.t
      BY <1>11 DEF EndOfText
    <3> QED BY <1>4, <3>1 DEF TokenRead
  <2>2. frames # <<>> /\ frames[Len(frames)] = "object"
    BY <1>2, <1>5, <1>11 DEF Fits, Containers
  <2>3. Fits(frames, dstack, "value", doc)
    BY <1>2, <1>11, <2>2 DEF Fits
  <2> QED BY <1>1, <1>4, <1>11, <2>1, <2>3, SkipRead
<1>12. CASE want = "colon" /\ Throw("PARSE_MISS_COLON")
  BY <1>4, <1>12, ThrowStep
<1>13. CASE want = "after" /\ AfterValue(t)
  BY <1>1, <1>4, <1>13, AfterValueStep
<1> QED BY <1>3, <1>6, <1>7, <1>8, <1>9, <1>10, <1>11, <1>12, <1>13

-----------------------------------------------------------------------------
(* What is written.                                                        *)

\* The scalars of Value.
ScalarEvents ==
  {[op |-> op] : op \in {"null", "true", "false"}}
  \cup [op : {"Double"}, class : {"denormal", "other"}, d : STRING]
  \cup {[op |-> "Double", class |-> "negative whole", n |-> n] :
          n \in {i \in Nat : Magnitude(i) < Twos[64]}}
  \cup [op : {"String"}, s : Strings]
  \cup {[op |-> "Int32", n |-> n] : n \in {i \in Int : IsInt32(i)}}
  \cup {[op |-> "Int64", n |-> n] : n \in {i \in Int : Magnitude(i) < Twos[64]}}
KeyEvents == {KeyEvent(s) : s \in Strings \cup Keys}
Structure == {"StartArray", "EndArray", "StartObject", "EndObject"}
WriterEvents == ScalarEvents \cup KeyEvents \cup {Plain(op) : op \in Structure}

\* What a scalar may be.
LEMMA ScalarKinds ==
  ASSUME NEW e \in ScalarEvents
  PROVE  e.op \in {"null", "true", "false", "Double", "String", "Int32", "Int64"}
<1>1. CASE e \in {[op |-> op] : op \in {"null", "true", "false"}}
  BY <1>1
<1>2. CASE e \in [op : {"Double"}, class : {"denormal", "other"}, d : STRING]
  BY <1>2
<1>3. CASE e \in {[op |-> "Double", class |-> "negative whole", n |-> n] :
                   n \in {i \in Nat : Magnitude(i) < Twos[64]}}
  <2>1. PICK n : e = [op |-> "Double", class |-> "negative whole", n |-> n]
    BY <1>3
  <2> QED BY <2>1
<1>4. CASE e \in [op : {"String"}, s : Strings]
  BY <1>4
<1>5. CASE \/ e \in {[op |-> "Int32", n |-> n] : n \in {i \in Int : IsInt32(i)}}
           \/ e \in {[op |-> "Int64", n |-> n] : n \in {i \in Int : Magnitude(i) < Twos[64]}}
  BY <1>5
<1> QED BY <1>1, <1>2, <1>3, <1>4, <1>5 DEF ScalarEvents

\* The numbers of the model are of at most 64 bits.
LEMMA NumbersFit ==
  ASSUME NEW n \in Int
  PROVE  /\ IsInt32(n) => Magnitude(n) < Twos[64]
         /\ (Magnitude(n) \div 2^30) \div 2^30 < 16 => Magnitude(n) < Twos[64]
         /\ n \in Nat /\ n \div 10^9 < 10^8 => Magnitude(n) < Twos[64]
<1>1. Magnitude(n) \in Nat
  BY DEF Magnitude
<1>2. Twos[64] = 18446744073709551616
  BY SomeTwos
<1>3. IsInt32(n) => Magnitude(n) <= 2147483648
  <2>1. MaxInt32 \in Int /\ MaxInt32 <= 2147483647
    BY JsonAssumption, SMT
  <2> QED BY ONLY <2>1, n \in Int, SMT DEF IsInt32, Magnitude
<1>4. ASSUME NEW m \in Nat, (m \div 1073741824) \div 1073741824 < 16
      PROVE  m < 18446744073709551616
  <2>1. PICK q \in Nat : q = m \div 1073741824
    BY SMT
  <2>2. q \div 1073741824 < 16
    BY <1>4, <2>1, SMT
  <2>3. q < 17179869184
    BY <2>2, SMT
  <2> QED BY <2>1, <2>3, SMT
<1>5. 2^30 = 1073741824
  BY SMT
<1>6. (Magnitude(n) \div 2^30) \div 2^30 < 16 => Magnitude(n) < Twos[64]
  BY <1>1, <1>2, <1>4, <1>5, SMT
<1>7. IsInt32(n) => Magnitude(n) < Twos[64]
  BY <1>1, <1>2, <1>3, SMT
<1>8. ASSUME n \in Nat, n \div 10^9 < 10^8 PROVE Magnitude(n) < Twos[64]
  <2>1. 10^9 = 1000000000 /\ 10^8 = 100000000
    BY SMT
  <2>2. n \div 1000000000 < 100000000
    BY <1>8, <2>1
  <2>3. n < 18446744073709551616
    BY <1>8, <2>2, SMT
  <2> QED BY <1>2, <1>8, <2>3 DEF Magnitude
<1> QED BY <1>6, <1>7, <1>8, Zenon

\* The scalars that the constants give are scalars of Value.
LEMMA ScalarsAreEvents == Scalars \subseteq ScalarEvents
<1>1. ASSUME NEW e \in Scalars, e.op = "Int32" \/ e.op = "Int64",
             e = [op |-> e.op, n |-> e.n], e.n \in Int,
             \/ e.op = "Int32" /\ IsInt32(e.n)
             \/ e.op = "Int64" /\ (Magnitude(e.n) \div 2^30) \div 2^30 < 16
      PROVE  e \in ScalarEvents
  <2>1. PICK n \in Int : n = e.n
    BY <1>1
  <2>2. CASE e.op = "Int32"
    <3>1. IsInt32(n) /\ e = [op |-> "Int32", n |-> n]
      BY <1>1, <2>1, <2>2
    <3> QED BY <3>1 DEF ScalarEvents
  <2>3. CASE e.op = "Int64"
    <3>1. Magnitude(n) < Twos[64] /\ e = [op |-> "Int64", n |-> n]
      BY <1>1, <2>1, <2>3, NumbersFit
    <3> QED BY <3>1 DEF ScalarEvents
  <2> QED BY <1>1, <2>2, <2>3
<1>2. ASSUME NEW e \in Scalars
      PROVE  e \in ScalarEvents
  <2>1. CASE \/ e \in {[op |-> op] : op \in {"null", "true", "false"}}
             \/ e \in [op : {"String"}, s : STRING]
             \/ e \in [op : {"Double"}, class : {"denormal", "other"}, d : STRING]
    BY <2>1 DEF ScalarEvents, Strings
  <2>2. CASE /\ e = [op |-> e.op, n |-> e.n] /\ e.n \in Int
             /\ \/ e.op = "Int32" /\ IsInt32(e.n)
                \/ e.op = "Int64" /\ (Magnitude(e.n) \div 2^30) \div 2^30 < 16
    BY <1>1, <2>2
  <2>3. CASE /\ e = [op |-> "Double", class |-> "negative whole", n |-> e.n]
             /\ e.n \in Nat /\ e.n \div 10^9 < 10^8
    <3>1. PICK n \in Nat : n = e.n
      BY <2>3
    <3>2. n \in Int
      OBVIOUS
    <3>3. Magnitude(n) < Twos[64]
      BY <2>3, <3>1, <3>2, NumbersFit, Zenon
    <3>4. e = [op |-> "Double", class |-> "negative whole", n |-> n]
      BY <2>3, <3>1, Zenon
    <3> QED BY <3>3, <3>4 DEF ScalarEvents
  <2> QED BY <2>1, <2>2, <2>3, ScalarsAssumption
<1> QED BY <1>2

\* What an event is written as is a token, or two for a key.
LEMMA WrittenToken ==
  ASSUME NEW e \in ScalarEvents
  PROVE  Written(e) \in TokenSet
<1>1. CASE e \in {[op |-> op] : op \in {"null", "true", "false"}}
  <2>1. PICK op \in {"null", "true", "false"} : e = [op |-> op]
    BY <1>1
  <2>2. Written(e) = [t |-> op]
    BY <2>1 DEF Written
  <2> QED BY <2>2 DEF TokenSet
<1>2. CASE e \in [op : {"Double"}, class : {"denormal", "other"}, d : STRING]
  <2>1. Written(e) = DoubleText(e) /\ e.d \in STRING /\ e.class \in {"denormal", "other"}
    BY <1>2 DEF Written
  <2>2. Written(e) \in {[t |-> "huge"], [t |-> "Infinity"], [t |-> "NaN"],
                        [t |-> "real", d |-> e.d]}
    BY <2>1 DEF DoubleText
  <2> QED BY <2>1, <2>2 DEF TokenSet
<1>2a. CASE e \in {[op |-> "Double", class |-> "negative whole", n |-> n] :
                     n \in {i \in Nat : Magnitude(i) < Twos[64]}}
  <2>1. PICK n \in Nat : /\ e = [op |-> "Double", class |-> "negative whole", n |-> n]
                         /\ Magnitude(n) < Twos[64]
    BY <1>2a
  <2>2. e.op = "Double" /\ e.class = "negative whole" /\ e.n = n
    BY <2>1
  <2>3. Written(e) = Minus(n)
    BY <2>2 DEF Written, DoubleText, Minus
  <2> QED BY <2>1, <2>3 DEF TokenSet
<1>3. CASE e \in [op : {"String"}, s : Strings]
  <2>1. Written(e) = [t |-> "string", s |-> e.s] /\ e.s \in Strings
    BY <1>3 DEF Written
  <2> QED BY <2>1 DEF TokenSet
<1>4. CASE e \in {[op |-> "Int32", n |-> n] : n \in {i \in Int : IsInt32(i)}}
  <2>1. PICK n \in Int : e = [op |-> "Int32", n |-> n] /\ IsInt32(n)
    BY <1>4
  <2>2. Written(e) = Itoa(n)
    BY <2>1 DEF Written
  <2>3. Magnitude(n) < Twos[64]
    BY <2>1, NumbersFit
  <2> QED BY <2>2, <2>3 DEF TokenSet
<1>5. CASE e \in {[op |-> "Int64", n |-> n] : n \in {i \in Int : Magnitude(i) < Twos[64]}}
  <2>1. PICK n \in Int : e = [op |-> "Int64", n |-> n] /\ Magnitude(n) < Twos[64]
    BY <1>5
  <2>2. Written(e) = Itoa(n)
    BY <2>1 DEF Written
  <2> QED BY <2>1, <2>2 DEF TokenSet
<1> QED BY <1>1, <1>2, <1>2a, <1>3, <1>4, <1>5 DEF ScalarEvents

\* Three parts of a text make a text.
LEMMA Joined ==
  ASSUME NEW S, NEW a \in Seq(S), NEW b \in Seq(S), NEW c \in Seq(S)
  PROVE  a \o b \o c \in Seq(S)
BY ConcatProperties

\* A step of Writer.
LEMMA WriteStep ==
  ASSUME ReaderInv, NEW e \in WriterEvents, Write(e)
  PROVE  ReaderInv'
<1>1. status = "writing" /\ UNCHANGED <<status, readerVars, documentVars>>
  BY DEF Write
<1>2. text \in Seq(TokenSet) /\ pos = 0
  BY <1>1 DEF ReaderInv, ReaderTypes
<1>3. \A m \in Marks : <<Mark(m)>> \in Seq(TokenSet)
  <2>1. \A m \in Marks : Mark(m) \in TokenSet
    BY DEF TokenSet
  <2> QED BY <2>1
<1>4. Prefix \in Seq(TokenSet)
  <2>1. Prefix = <<>> \/ Prefix = <<Mark(":")>> \/ Prefix = <<Mark(",")>>
    BY DEF Prefix
  <2>2. <<Mark(":")>> \in Seq(TokenSet) /\ <<Mark(",")>> \in Seq(TokenSet)
    BY <1>3, ":" \in Marks, "," \in Marks DEF Marks
  <2>3. <<>> \in Seq(TokenSet)
    OBVIOUS
  <2> QED BY <2>1, <2>2, <2>3, Zenon
<1>5. ASSUME text' = text \o Prefix \o <<Mark(IF e.op = "StartArray" THEN "[" ELSE "{")>>
      PROVE  text' \in Seq(TokenSet)
  <2>1. <<Mark(IF e.op = "StartArray" THEN "[" ELSE "{")>> \in Seq(TokenSet)
    BY <1>3 DEF Marks
  <2> QED BY <1>2, <1>4, <1>5, <2>1, Joined, Zenon
<1>6. ASSUME text' = Append(text, Mark(IF e.op = "EndArray" THEN "]" ELSE "}"))
      PROVE  text' \in Seq(TokenSet)
  <2>1. Mark(IF e.op = "EndArray" THEN "]" ELSE "}") \in TokenSet
    BY DEF TokenSet, Marks
  <2>2. \A x \in TokenSet : Append(text, x) \in Seq(TokenSet)
    BY <1>2, AppendProperties
  <2> QED BY <1>6, <2>1, <2>2, Zenon
<1>7. ASSUME e.op = "Key", text' = text \o Prefix \o KeyText(e.s)
      PROVE  text' \in Seq(TokenSet)
  <2>1. e \in KeyEvents
    <3>1. \A op : Plain(op).op = op
      BY DEF Plain
    <3>2. e \notin {Plain(op) : op \in Structure}
      BY <1>7, <3>1 DEF Structure
    <3>3. e \notin ScalarEvents
      BY <1>7, ScalarKinds
    <3> QED BY <3>2, <3>3 DEF WriterEvents
  <2>2. e.s \in Strings \cup Keys
    BY <2>1 DEF KeyEvents, KeyEvent
  <2>3. [t |-> "string", s |-> e.s] \in TokenSet /\ [t |-> "string", s |-> "a"] \in TokenSet
        /\ [t |-> "junk"] \in TokenSet
    <3>1. [t |-> "string", s |-> e.s] \in TokenSet
      BY <2>2 DEF TokenSet
    <3>2. [t |-> "string", s |-> "a"] \in TokenSet
      <4>1. "a" \in Strings \cup Keys
        BY DEF Strings
      <4> QED BY <4>1 DEF TokenSet
    <3>3. [t |-> "junk"] \in TokenSet
      BY DEF TokenSet
    <3> QED BY <3>1, <3>2, <3>3
  <2>4. KeyText(e.s) \in Seq(TokenSet)
    BY <2>3 DEF KeyText
  <2> QED BY <1>2, <1>4, <1>7, <2>4, Joined, Zenon
<1>8. ASSUME e.op \notin {"StartArray", "StartObject", "EndArray", "EndObject", "Key"},
             text' = text \o Prefix \o <<Written(e)>>
      PROVE  text' \in Seq(TokenSet)
  <2>1. e \in ScalarEvents
    <3>1. \A op : Plain(op).op = op
      BY DEF Plain
    <3>2. e \notin {Plain(op) : op \in Structure}
      BY <1>8, <3>1 DEF Structure
    <3>3. e \notin KeyEvents
      BY <1>8 DEF KeyEvents, KeyEvent
    <3> QED BY <3>2, <3>3 DEF WriterEvents
  <2>2. <<Written(e)>> \in Seq(TokenSet)
    BY <2>1, WrittenToken
  <2> QED BY <1>2, <1>4, <1>8, <2>2, Joined, Zenon
<1>9. text' \in Seq(TokenSet)
  <2>1. \/ /\ e.op \in {"StartArray", "StartObject"}
           /\ text' = text \o Prefix \o <<Mark(IF e.op = "StartArray" THEN "[" ELSE "{")>>
        \/ text' = Append(text, Mark(IF e.op = "EndArray" THEN "]" ELSE "}"))
        \/ e.op = "Key" /\ text' = text \o Prefix \o KeyText(e.s)
        \/ /\ e.op \notin {"StartArray", "StartObject", "EndArray", "EndObject", "Key"}
           /\ text' = text \o Prefix \o <<Written(e)>>
    BY Zenon DEF Write
  <2> QED BY <1>5, <1>6, <1>7, <1>8, <2>1, Zenon
<1>10. 0 <= Len(text')
  BY <1>9
<1> QED BY <1>1, <1>2, <1>9, <1>10 DEF ReaderInv, ReaderTypes, OnlyDuplicatesAbort,
          readerVars, documentVars

-----------------------------------------------------------------------------
(* What the stubs write.                                                   *)

\* The name of a parameter.
Name(i) == params_[i].paramName

\* A definition gives the parameters, and a call their arguments.
StubTypes ==
  /\ kind \in {"any", "rpc", "procedure", "notify"}
  /\ kind # "any" => definition \in Definitions /\ ~foreign
  /\ \E n \in Nat :
       /\ params_ = [i \in 1 .. n |-> params_[i]]
       /\ \A i \in 1 .. n : Name(i) \in STRING /\ Name(i) # Quoted
       /\ \A i, j \in 1 .. n : Name(i) = Name(j) => i = j
       /\ call # "none" => /\ args \in [1 .. n -> Arguments]
                           /\ \A i \in 1 .. n : TypeOf(args[i]) = params_[i].paramType
  /\ call # "none" => kind \in {"procedure", "notify"} /\ call \in {"byName", "byPosition"}

\* A sequence of one event.
LEMMA OneEvent ==
  ASSUME NEW S, NEW x \in S
  PROVE  <<x>> \in Seq(S) /\ Len(<<x>>) = 1 /\ <<x>>[1] = x
OBVIOUS

\* Two sequences, one after the other.
LEMMA Concat ==
  ASSUME NEW S, NEW a \in Seq(S), NEW b \in Seq(S)
  PROVE  /\ a \o b \in Seq(S) /\ Len(a \o b) = Len(a) + Len(b)
         /\ \A i \in 1 .. Len(a) : (a \o b)[i] = a[i]
         /\ \A i \in 1 .. Len(b) : (a \o b)[Len(a) + i] = b[i]
<1>1. a \o b \in Seq(S) /\ Len(a \o b) = Len(a) + Len(b)
  BY ConcatProperties
<1>2. \A i \in 1 .. Len(a) + Len(b) :
        (a \o b)[i] = IF i <= Len(a) THEN a[i] ELSE b[i - Len(a)]
  BY ConcatProperties
<1>3. Len(a) \in Nat /\ Len(b) \in Nat
  OBVIOUS
<1>4. ASSUME NEW i \in 1 .. Len(b) PROVE (a \o b)[Len(a) + i] = b[i]
  <2>1. Len(a) + i \in 1 .. Len(a) + Len(b) /\ ~(Len(a) + i <= Len(a))
        /\ Len(a) + i - Len(a) = i
    BY <1>3
  <2> QED BY <1>2, <2>1
<1> QED BY <1>1, <1>2, <1>3, <1>4

\* One event before others.
LEMMA Before ==
  ASSUME NEW S, NEW x \in S, NEW b \in Seq(S)
  PROVE  /\ <<x>> \o b \in Seq(S) /\ Len(<<x>> \o b) = Len(b) + 1
         /\ (<<x>> \o b)[1] = x
         /\ \A i \in 1 .. Len(b) : (<<x>> \o b)[1 + i] = b[i]
<1>1. PICK a \in Seq(S) : a = <<x>> /\ Len(a) = 1 /\ a[1] = x
  BY OneEvent
<1>2. /\ a \o b \in Seq(S) /\ Len(a \o b) = Len(a) + Len(b)
      /\ \A i \in 1 .. Len(a) : (a \o b)[i] = a[i]
      /\ \A i \in 1 .. Len(b) : (a \o b)[Len(a) + i] = b[i]
  BY Concat
<1>3. Len(b) \in Nat
  OBVIOUS
<1>4. Len(a \o b) = Len(b) + 1
  BY <1>1, <1>2, <1>3
<1> QED BY <1>1, <1>2, <1>4

\* One event after others.
LEMMA Behind ==
  ASSUME NEW S, NEW x \in S, NEW a \in Seq(S)
  PROVE  /\ a \o <<x>> \in Seq(S) /\ Len(a \o <<x>>) = Len(a) + 1
         /\ (a \o <<x>>)[Len(a) + 1] = x
         /\ \A i \in 1 .. Len(a) : (a \o <<x>>)[i] = a[i]
<1>1. PICK b \in Seq(S) : b = <<x>> /\ Len(b) = 1 /\ b[1] = x
  BY OneEvent
<1>2. /\ a \o b \in Seq(S) /\ Len(a \o b) = Len(a) + Len(b)
      /\ \A i \in 1 .. Len(a) : (a \o b)[i] = a[i]
      /\ \A i \in 1 .. Len(b) : (a \o b)[Len(a) + i] = b[i]
  BY Concat
<1> QED BY <1>1, <1>2

\* The events that the messages are made of.
LEMMA MessageEvents ==
  /\ \A op \in Structure : Plain(op) \in WriterEvents
  /\ \A s \in Strings \cup Keys : KeyEvent(s) \in WriterEvents
  /\ \A s \in Strings : String(s) \in WriterEvents
  /\ [op |-> "Int64", n |-> 0] \in WriterEvents
  /\ Arguments \subseteq WriterEvents
<1>1. \A op \in Structure : Plain(op) \in WriterEvents
  BY DEF WriterEvents
<1>2. \A s \in Strings \cup Keys : KeyEvent(s) \in WriterEvents
  BY DEF WriterEvents, KeyEvents
<1>3. \A s \in Strings : String(s) \in WriterEvents
  BY DEF WriterEvents, ScalarEvents, String
<1>4. [op |-> "Int64", n |-> 0] \in WriterEvents
  <2>1. 0 \in {i \in Int : Magnitude(i) < Twos[64]}
    BY SomeTwos DEF Magnitude
  <2> QED BY <2>1 DEF WriterEvents, ScalarEvents
<1>5. Arguments \subseteq WriterEvents
  BY StubAssumption, ScalarsAreEvents DEF WriterEvents
<1> QED BY <1>1, <1>2, <1>3, <1>4, <1>5

\* The arguments, and the names before them.
LEMMA ParamsType ==
  ASSUME StubTypes, call # "none"
  PROVE  /\ args \in Seq(WriterEvents) /\ Len(args) \in Nat
         /\ ParamMembers \in Seq(WriterEvents) /\ Len(ParamMembers) = 2 * Len(args)
         /\ \A i \in 1 .. Len(args) :
              /\ ParamMembers[2 * i - 1] = KeyEvent(Name(i))
              /\ ParamMembers[2 * i] = args[i]
<1>1. PICK n \in Nat : /\ args \in [1 .. n -> Arguments]
                     /\ \A i \in 1 .. n : Name(i) \in STRING
  BY DEF StubTypes
<1>2. \A i \in 1 .. n : args[i] \in WriterEvents
  BY <1>1, MessageEvents
<1>3. args \in Seq(WriterEvents) /\ Len(args) = n
  <2>1. args \in [1 .. n -> WriterEvents]
    BY <1>1, <1>2
  <2> QED BY <2>1
<1>4. \A i \in 1 .. n : Name(i) \in Strings
  BY <1>1 DEF Strings
<1>5. PICK p : p = ParamMembers
  OBVIOUS
<1>6. p = [i \in 1 .. 2 * n |-> IF i % 2 = 1 THEN KeyEvent(Name((i + 1) \div 2))
                                            ELSE args[i \div 2]]
  BY <1>3, <1>5 DEF ParamMembers, Name
<1>7. ASSUME NEW i \in 1 .. 2 * n PROVE p[i] \in WriterEvents
  <2>1. CASE i % 2 = 1
    <3>1. (i + 1) \div 2 \in 1 .. n
      BY <1>1, <2>1
    <3>2. p[i] = KeyEvent(Name((i + 1) \div 2))
      BY <1>6, <2>1
    <3> QED BY <1>4, <3>1, <3>2, MessageEvents
  <2>2. CASE i % 2 # 1
    <3>1. i \div 2 \in 1 .. n
      BY <1>1, <2>2
    <3>2. p[i] = args[i \div 2]
      BY <1>6, <2>2
    <3> QED BY <1>2, <3>1, <3>2
  <2> QED BY <2>1, <2>2
<1>8. p \in Seq(WriterEvents) /\ Len(p) = 2 * n
  <2>1. p \in [1 .. 2 * n -> WriterEvents]
    BY <1>6, <1>7
  <2> QED BY <1>1, <2>1
<1>9. ASSUME NEW i \in 1 .. n
      PROVE  p[2 * i - 1] = KeyEvent(Name(i)) /\ p[2 * i] = args[i]
  <2>1. 2 * i - 1 \in 1 .. 2 * n /\ (2 * i - 1) % 2 = 1 /\ (2 * i - 1 + 1) \div 2 = i
    BY <1>1
  <2>2. 2 * i \in 1 .. 2 * n /\ (2 * i) % 2 # 1 /\ (2 * i) \div 2 = i
    BY <1>1
  <2> QED BY <1>6, <2>1, <2>2
<1> QED BY <1>1, <1>3, <1>5, <1>8, <1>9

\* A member whose value is a scalar.
LEMMA ScalarMember ==
  ASSUME NEW s \in Strings, NEW x \in WriterEvents
  PROVE  LET p == Member(s, <<x>>) IN
         p \in Seq(WriterEvents) /\ Len(p) = 2 /\ p[1] = KeyEvent(s) /\ p[2] = x
<1>1. PICK k \in WriterEvents : k = KeyEvent(s)
  BY MessageEvents
<1>2. PICK p : p = Member(s, <<x>>)
  OBVIOUS
<1>3. p = <<k>> \o <<x>>
  BY <1>1, <1>2 DEF Member
<1>4. p \in Seq(WriterEvents) /\ Len(p) = 2 /\ p[1] = k /\ p[2] = x
  BY <1>3
<1> QED BY <1>1, <1>2, <1>4

\* The parameters, as the elements of an array or the members of an object.
Given == IF call = "byPosition" THEN args ELSE ParamMembers
Opening == Plain(IF call = "byPosition" THEN "StartArray" ELSE "StartObject")
Closing == Plain(IF call = "byPosition" THEN "EndArray" ELSE "EndObject")

\* The params member.
LEMMA ParamsMember ==
  ASSUME StubTypes, call # "none"
  PROVE  LET p == Member("params", Params)
             m == Len(Given)
         IN /\ Given \in Seq(WriterEvents) /\ m \in Nat
            /\ p \in Seq(WriterEvents) /\ Len(p) = m + 3
            /\ p[1] = KeyEvent("params") /\ p[2] = Opening /\ p[m + 3] = Closing
            /\ \A i \in 1 .. m : p[2 + i] = Given[i]
<1>1. PICK g \in Seq(WriterEvents) : g = Given
  BY ParamsType DEF Given
<1>2. PICK m \in Nat : m = Len(g)
  BY <1>1
<1>3. PICK k \in WriterEvents : k = KeyEvent("params")
  BY MessageEvents DEF Strings
<1>4. PICK o \in WriterEvents : o = Opening
  BY MessageEvents DEF Opening, Structure
<1>5. PICK c \in WriterEvents : c = Closing
  BY MessageEvents DEF Closing, Structure
<1>6. Params = <<o>> \o g \o <<c>>
  BY <1>1, <1>4, <1>5, Zenon DEF Params, Opening, Closing, Given
<1>7. PICK a : a = <<o>> \o g
  OBVIOUS
<1>7a. /\ a \in Seq(WriterEvents) /\ Len(a) = m + 1 /\ a[1] = o
       /\ \A i \in 1 .. m : a[1 + i] = g[i]
  <2>1. /\ <<o>> \o g \in Seq(WriterEvents) /\ Len(<<o>> \o g) = Len(g) + 1
        /\ (<<o>> \o g)[1] = o /\ \A i \in 1 .. Len(g) : (<<o>> \o g)[1 + i] = g[i]
    BY Before
  <2> QED BY <1>2, <1>7, <2>1, Zenon
<1>8. PICK b : b = a \o <<c>>
  OBVIOUS
<1>8a. /\ b \in Seq(WriterEvents) /\ Len(b) = Len(a) + 1 /\ b[Len(a) + 1] = c
       /\ \A i \in 1 .. Len(a) : b[i] = a[i]
  <2>1. /\ a \o <<c>> \in Seq(WriterEvents) /\ Len(a \o <<c>>) = Len(a) + 1
        /\ (a \o <<c>>)[Len(a) + 1] = c /\ \A i \in 1 .. Len(a) : (a \o <<c>>)[i] = a[i]
    BY <1>7a, Behind
  <2> QED BY <1>8, <2>1, Zenon
<1>9. Len(b) = m + 2 /\ b[m + 2] = c /\ \A i \in 1 .. m + 1 : b[i] = a[i]
  <2>1. Len(a) + 1 = m + 2
    BY <1>2, <1>7a
  <2> QED BY <1>7a, <1>8a, <2>1
<1>11. PICK p : p = <<k>> \o b
  OBVIOUS
<1>11a. /\ p \in Seq(WriterEvents) /\ Len(p) = Len(b) + 1 /\ p[1] = k
        /\ \A i \in 1 .. Len(b) : p[1 + i] = b[i]
  <2>1. /\ <<k>> \o b \in Seq(WriterEvents) /\ Len(<<k>> \o b) = Len(b) + 1
        /\ (<<k>> \o b)[1] = k /\ \A i \in 1 .. Len(b) : (<<k>> \o b)[1 + i] = b[i]
    BY <1>8a, Before
  <2> QED BY <1>11, <2>1, Zenon
<1>12. /\ Len(p) = m + 3 /\ p[1] = k /\ \A i \in 1 .. m + 2 : p[1 + i] = b[i]
  <2>1. Len(b) + 1 = m + 3
    BY <1>2, <1>9
  <2> QED BY <1>9, <1>11a, <2>1
<1>13. p = Member("params", Params)
  BY <1>3, <1>6, <1>7, <1>8, <1>11, Zenon DEF Member
<1>14. p[2] = o /\ p[m + 3] = c
  <2>1. 1 \in 1 .. m + 2 /\ 1 \in 1 .. m + 1 /\ m + 2 \in 1 .. m + 2 /\ 1 + (m + 2) = m + 3
    BY <1>2
  <2>2. p[1 + 1] = b[1] /\ p[1 + (m + 2)] = b[m + 2]
    BY <1>12, <2>1
  <2> QED BY <1>7a, <1>9, <2>1, <2>2
<1>15. ASSUME NEW i \in 1 .. m PROVE p[2 + i] = g[i]
  <2>1. 1 + i \in 1 .. m + 2 /\ 1 + i \in 1 .. m + 1 /\ 1 + (1 + i) = 2 + i
    BY <1>2
  <2>2. p[1 + (1 + i)] = b[1 + i] /\ b[1 + i] = a[1 + i]
    BY <1>9, <1>12, <2>1
  <2> QED BY <1>7a, <2>1, <2>2
<1> QED BY <1>1, <1>2, <1>3, <1>4, <1>5, <1>11a, <1>12, <1>13, <1>14, <1>15, Zenon

\* What a call is, event by event.
IsMessage(w, m) ==
  /\ Len(w) = m + 11
  /\ w[1] = Plain("StartObject")
  /\ w[2] = KeyEvent("jsonrpc") /\ w[3] = String("2.0")
  /\ w[4] = KeyEvent("method") /\ w[5] = String("Test.Do")
  /\ w[6] = KeyEvent("params") /\ w[7] = Opening
  /\ \A i \in 1 .. m : w[7 + i] = Given[i]
  /\ w[m + 8] = Closing
  /\ w[m + 9] = KeyEvent("id") /\ w[m + 10] = [op |-> "Int64", n |-> 0]
  /\ w[m + 11] = Plain("EndObject")

\* The members of a call.
LEMMA CallMembers ==
  ASSUME StubTypes, call # "none",
         NEW m \in Nat, m = Len(Given),
         NEW q, q = CallMessage
  PROVE  /\ q \in Seq(WriterEvents) /\ Len(q) = m + 9
         /\ q[1] = KeyEvent("jsonrpc") /\ q[2] = String("2.0")
         /\ q[3] = KeyEvent("method") /\ q[4] = String("Test.Do")
         /\ q[5] = KeyEvent("params") /\ q[6] = Opening
         /\ \A i \in 1 .. m : q[6 + i] = Given[i]
         /\ q[m + 7] = Closing
         /\ q[m + 8] = KeyEvent("id") /\ q[m + 9] = [op |-> "Int64", n |-> 0]
<1>1. PICK a : a = Member("jsonrpc", <<String("2.0")>>)
  OBVIOUS
<1>2. a \in Seq(WriterEvents) /\ Len(a) = 2 /\ a[1] = KeyEvent("jsonrpc") /\ a[2] = String("2.0")
  <2>1. "jsonrpc" \in Strings /\ String("2.0") \in WriterEvents
    BY MessageEvents DEF Strings
  <2> QED BY <1>1, <2>1, ScalarMember, Zenon
<1>3. PICK b : b = Member("method", <<String("Test.Do")>>)
  OBVIOUS
<1>4. b \in Seq(WriterEvents) /\ Len(b) = 2 /\ b[1] = KeyEvent("method") /\ b[2] = String("Test.Do")
  <2>1. "method" \in Strings /\ String("Test.Do") \in WriterEvents
    BY MessageEvents DEF Strings
  <2> QED BY <1>3, <2>1, ScalarMember, Zenon
<1>5. PICK p : p = Member("params", Params)
  OBVIOUS
<1>6. /\ p \in Seq(WriterEvents) /\ Len(p) = m + 3
      /\ p[1] = KeyEvent("params") /\ p[2] = Opening /\ p[m + 3] = Closing
      /\ \A i \in 1 .. m : p[2 + i] = Given[i]
  BY <1>5, ParamsMember, Zenon
<1>7. PICK x : x = [op |-> "Int64", n |-> 0]
  OBVIOUS
<1>8. PICK d : d = Member("id", <<x>>)
  OBVIOUS
<1>9. d \in Seq(WriterEvents) /\ Len(d) = 2 /\ d[1] = KeyEvent("id") /\ d[2] = x
  <2>1. "id" \in Strings /\ x \in WriterEvents
    BY <1>7, MessageEvents DEF Strings
  <2> QED BY <1>8, <2>1, ScalarMember, Zenon
<1>10. PICK ab : ab = a \o b
  OBVIOUS
<1>11. /\ ab \in Seq(WriterEvents) /\ Len(ab) = Len(a) + Len(b)
       /\ \A i \in 1 .. Len(a) : ab[i] = a[i]
       /\ \A i \in 1 .. Len(b) : ab[Len(a) + i] = b[i]
  <2>1. /\ a \o b \in Seq(WriterEvents) /\ Len(a \o b) = Len(a) + Len(b)
        /\ \A i \in 1 .. Len(a) : (a \o b)[i] = a[i]
        /\ \A i \in 1 .. Len(b) : (a \o b)[Len(a) + i] = b[i]
    <3>1. a \in Seq(WriterEvents) /\ b \in Seq(WriterEvents)
      BY <1>2, <1>4
    <3> QED BY <3>1, Concat
  <2> QED BY <1>10, <2>1, Zenon
<1>12. /\ Len(ab) = 4 /\ ab[1] = a[1] /\ ab[2] = a[2] /\ ab[3] = b[1] /\ ab[4] = b[2]
  BY <1>2, <1>4, <1>11
<1>13. PICK abp : abp = ab \o p
  OBVIOUS
<1>14. /\ abp \in Seq(WriterEvents) /\ Len(abp) = Len(ab) + Len(p)
       /\ \A i \in 1 .. Len(ab) : abp[i] = ab[i]
       /\ \A i \in 1 .. Len(p) : abp[Len(ab) + i] = p[i]
  <2>0. ab \in Seq(WriterEvents) /\ p \in Seq(WriterEvents)
    BY <1>6, <1>11
  <2>1. /\ ab \o p \in Seq(WriterEvents) /\ Len(ab \o p) = Len(ab) + Len(p)
        /\ \A i \in 1 .. Len(ab) : (ab \o p)[i] = ab[i]
        /\ \A i \in 1 .. Len(p) : (ab \o p)[Len(ab) + i] = p[i]
    BY <2>0, Concat
  <2> QED BY <1>13, <2>1, Zenon
<1>15. /\ Len(abp) = m + 7
       /\ \A i \in 1 .. 4 : abp[i] = ab[i]
       /\ \A i \in 1 .. m + 3 : abp[4 + i] = p[i]
  BY <1>6, <1>12, <1>14
<1>16. abp \o d = q
  BY <1>1, <1>3, <1>5, <1>7, <1>8, <1>10, <1>13, Zenon DEF CallMessage
<1>17. /\ q \in Seq(WriterEvents) /\ Len(q) = Len(abp) + Len(d)
       /\ \A i \in 1 .. Len(abp) : q[i] = abp[i]
       /\ \A i \in 1 .. Len(d) : q[Len(abp) + i] = d[i]
  <2>0. abp \in Seq(WriterEvents) /\ d \in Seq(WriterEvents)
    BY <1>9, <1>14
  <2>1. /\ abp \o d \in Seq(WriterEvents) /\ Len(abp \o d) = Len(abp) + Len(d)
        /\ \A i \in 1 .. Len(abp) : (abp \o d)[i] = abp[i]
        /\ \A i \in 1 .. Len(d) : (abp \o d)[Len(abp) + i] = d[i]
    BY <2>0, Concat
  <2> QED BY <1>16, <2>1, Zenon
<1>18. /\ Len(q) = m + 9
       /\ \A i \in 1 .. m + 7 : q[i] = abp[i]
       /\ \A i \in 1 .. 2 : q[m + 7 + i] = d[i]
  BY <1>9, <1>15, <1>17
<1>19. \A i \in 1 .. 4 : q[i] = ab[i]
  BY <1>15, <1>18
<1>20. q[1] = a[1] /\ q[2] = a[2] /\ q[3] = b[1] /\ q[4] = b[2]
  BY <1>12, <1>19
<1>21. ASSUME NEW i \in 1 .. m + 3 PROVE q[4 + i] = p[i]
  <2>1. 4 + i \in 1 .. m + 7
    OBVIOUS
  <2> QED BY <1>15, <1>18, <2>1
<1>22. q[5] = p[1] /\ q[6] = p[2] /\ q[m + 7] = p[m + 3]
  <2>1. /\ 1 \in 1 .. m + 3 /\ 2 \in 1 .. m + 3 /\ m + 3 \in 1 .. m + 3
        /\ 4 + 1 = 5 /\ 4 + 2 = 6 /\ 4 + (m + 3) = m + 7
    OBVIOUS
  <2>2. q[4 + 1] = p[1] /\ q[4 + 2] = p[2] /\ q[4 + (m + 3)] = p[m + 3]
    BY <1>21, <2>1, Zenon
  <2> QED BY <2>1, <2>2, Zenon
<1>23. ASSUME NEW i \in 1 .. m PROVE q[6 + i] = Given[i]
  <2>1. 2 + i \in 1 .. m + 3 /\ 4 + (2 + i) = 6 + i
    OBVIOUS
  <2>2. q[4 + (2 + i)] = p[2 + i]
    BY <1>21, <2>1, Zenon
  <2>3. p[2 + i] = Given[i]
    BY <1>6, <1>23, Zenon
  <2> QED BY <2>1, <2>2, <2>3, Zenon
<1>24. q[m + 8] = d[1] /\ q[m + 9] = d[2]
  <2>1. m + 7 + 1 = m + 8 /\ m + 7 + 2 = m + 9 /\ 1 \in 1 .. 2 /\ 2 \in 1 .. 2
    OBVIOUS
  <2>2. q[m + 7 + 1] = d[1] /\ q[m + 7 + 2] = d[2]
    BY <1>18, <2>1, Zenon
  <2> QED BY <2>1, <2>2, Zenon
<1> QED BY <1>2, <1>4, <1>6, <1>7, <1>9, <1>17, <1>18, <1>20, <1>22, <1>23, <1>24, Zenon

\* The message of a call or of a notification.
LEMMA MessageShape ==
  ASSUME StubTypes, call # "none"
  PROVE  /\ Message \in Seq(WriterEvents)
         /\ Len(Given) \in Nat
         /\ kind # "notify" => IsMessage(Message, Len(Given))
<1>1. PICK s \in WriterEvents : s = Plain("StartObject")
  BY MessageEvents DEF Structure
<1>2. PICK e \in WriterEvents : e = Plain("EndObject")
  BY MessageEvents DEF Structure
<1>3. PICK q : q = IF kind = "notify" THEN NotifyMessage ELSE CallMessage
  OBVIOUS
<1>4. PICK m \in Nat : m = Len(Given)
  BY ParamsMember
<1>5. /\ kind = "notify" => q \in Seq(WriterEvents)
  <2>1. PICK a : a = Member("jsonrpc", <<String("2.0")>>)
    OBVIOUS
  <2>2. a \in Seq(WriterEvents)
    <3>1. "jsonrpc" \in Strings /\ String("2.0") \in WriterEvents
      BY MessageEvents DEF Strings
    <3> QED BY <2>1, <3>1, ScalarMember, Zenon
  <2>3. PICK b : b = Member("method", <<String("Hello.Goodbye")>>)
    OBVIOUS
  <2>4. b \in Seq(WriterEvents)
    <3>1. "method" \in Strings /\ String("Hello.Goodbye") \in WriterEvents
      BY MessageEvents DEF Strings
    <3> QED BY <2>3, <3>1, ScalarMember, Zenon
  <2>5. kind = "notify" => q = a \o b
    BY <1>3, <2>1, <2>3, Zenon DEF NotifyMessage
  <2>6. a \o b \in Seq(WriterEvents)
    BY <2>2, <2>4, Concat
  <2> QED BY <2>5, <2>6, Zenon
<1>6. kind # "notify" =>
         /\ q \in Seq(WriterEvents) /\ Len(q) = m + 9
         /\ q[1] = KeyEvent("jsonrpc") /\ q[2] = String("2.0")
         /\ q[3] = KeyEvent("method") /\ q[4] = String("Test.Do")
         /\ q[5] = KeyEvent("params") /\ q[6] = Opening
         /\ \A i \in 1 .. m : q[6 + i] = Given[i]
         /\ q[m + 7] = Closing
         /\ q[m + 8] = KeyEvent("id") /\ q[m + 9] = [op |-> "Int64", n |-> 0]
  BY <1>3, <1>4, CallMembers, Zenon
<1>7. q \in Seq(WriterEvents)
  BY <1>5, <1>6, Zenon
<1>8. PICK r : r = <<s>> \o q
  OBVIOUS
<1>9. /\ r \in Seq(WriterEvents) /\ Len(r) = Len(q) + 1 /\ r[1] = s
      /\ \A i \in 1 .. Len(q) : r[1 + i] = q[i]
  <2>1. /\ <<s>> \o q \in Seq(WriterEvents) /\ Len(<<s>> \o q) = Len(q) + 1
        /\ (<<s>> \o q)[1] = s /\ \A i \in 1 .. Len(q) : (<<s>> \o q)[1 + i] = q[i]
    BY <1>7, Before
  <2> QED BY <1>8, <2>1, Zenon
<1>10. PICK w : w = r \o <<e>>
  OBVIOUS
<1>11. /\ w \in Seq(WriterEvents) /\ Len(w) = Len(r) + 1 /\ w[Len(r) + 1] = e
       /\ \A i \in 1 .. Len(r) : w[i] = r[i]
  <2>1. /\ r \o <<e>> \in Seq(WriterEvents) /\ Len(r \o <<e>>) = Len(r) + 1
        /\ (r \o <<e>>)[Len(r) + 1] = e /\ \A i \in 1 .. Len(r) : (r \o <<e>>)[i] = r[i]
    BY <1>9, Behind
  <2> QED BY <1>10, <2>1, Zenon
<1>12. w = Message
  BY <1>1, <1>2, <1>3, <1>8, <1>10, Zenon DEF Message
<1>13. ASSUME kind # "notify"
       PROVE  IsMessage(w, m)
  <2>1. Len(q) = m + 9 /\ Len(r) = m + 10 /\ Len(w) = m + 11
    BY <1>4, <1>6, <1>9, <1>11, <1>13
  <2>2. w[1] = s /\ w[m + 11] = e
    <3>1. 1 \in 1 .. m + 10 /\ m + 10 + 1 = m + 11
      BY <1>4
    <3> QED BY <1>9, <1>11, <2>1, <3>1, Zenon
  <2>3. ASSUME NEW i \in 1 .. m + 9 PROVE w[1 + i] = q[i]
    <3>1. 1 + i \in 1 .. m + 10
      BY <1>4
    <3> QED BY <1>9, <1>11, <2>1, <3>1
  <2>4. /\ w[2] = q[1] /\ w[3] = q[2] /\ w[4] = q[3] /\ w[5] = q[4] /\ w[6] = q[5]
        /\ w[7] = q[6]
    <3>1. \A i \in 1 .. 6 : i \in 1 .. m + 9 /\ w[1 + i] = q[i]
      BY <1>4, <2>3
    <3>2. w[1 + 1] = q[1] /\ w[1 + 2] = q[2] /\ w[1 + 3] = q[3] /\ w[1 + 4] = q[4]
          /\ w[1 + 5] = q[5] /\ w[1 + 6] = q[6]
      BY <3>1
    <3> QED BY <3>2
  <2>5. ASSUME NEW i \in 1 .. m PROVE w[7 + i] = q[6 + i]
    <3>1. 6 + i \in 1 .. m + 9 /\ 1 + (6 + i) = 7 + i
      BY <1>4
    <3>2. w[1 + (6 + i)] = q[6 + i]
      BY <2>3, <3>1, Zenon
    <3> QED BY <3>1, <3>2, Zenon
  <2>6. w[m + 8] = q[m + 7] /\ w[m + 9] = q[m + 8] /\ w[m + 10] = q[m + 9]
    <3>1. /\ m + 7 \in 1 .. m + 9 /\ m + 8 \in 1 .. m + 9 /\ m + 9 \in 1 .. m + 9
          /\ 1 + (m + 7) = m + 8 /\ 1 + (m + 8) = m + 9 /\ 1 + (m + 9) = m + 10
      BY <1>4
    <3>2. w[1 + (m + 7)] = q[m + 7] /\ w[1 + (m + 8)] = q[m + 8] /\ w[1 + (m + 9)] = q[m + 9]
      BY <2>3, <3>1, Zenon
    <3> QED BY <3>1, <3>2, Zenon
  <2>7. \A i \in 1 .. m : w[7 + i] = Given[i]
    BY <1>6, <1>13, <2>5, Zenon
  <2> QED BY <1>1, <1>2, <1>6, <1>13, <2>1, <2>2, <2>4, <2>6, <2>7, Zenon DEF IsMessage
<1> QED BY <1>4, <1>11, <1>12, <1>13, Zenon

\* The stubs keep their types.
LEMMA StubTypesStep ==
  /\ StubInit => StubTypes
  /\ StubTypes /\ [StubNext]_marshalVars => StubTypes'
<1>1. ASSUME StubInit PROVE StubTypes
  <2>1. kind \in {"any", "rpc"} /\ kind # "any" => definition \in Definitions /\ ~foreign
    BY <1>1 DEF StubInit
  <2>2. params_ = <<>> /\ call = "none"
    BY <1>1 DEF StubInit
  <2>3. params_ = [i \in 1 .. 0 |-> params_[i]]
    BY <2>2
  <2>4. 0 \in Nat /\ 1 .. 0 = {}
    OBVIOUS
  <2> QED BY <1>1, <2>1, <2>2, <2>3, <2>4 DEF StubTypes, StubInit
<1>2. ASSUME StubTypes, UNCHANGED <<foreign, stubVars>> PROVE StubTypes'
  BY <1>2 DEF StubTypes, stubVars, Name
<1>3. ASSUME StubTypes, Generate PROVE StubTypes'
  <2>1. kind = "rpc" /\ call = "none" /\ call' = call
    BY <1>3 DEF StubTypes, Generate
  <2>2. kind' \in {"rpc", "procedure", "notify"} /\ definition' = definition /\ foreign' = foreign
    BY <1>3, <2>1 DEF Generate, jsonVars, writerVars
  <2>3. PICK d \in Definitions : d = definition
    BY <1>3, <2>1 DEF StubTypes
  <2>4. \/ params_' = params_ \/ params_' = <<>> \/ params_' = Bind(d)
    BY <1>3, <2>3 DEF Generate
  <2>5. CASE params_' = params_
    BY <1>3, <2>1, <2>2, <2>5 DEF StubTypes, Name
  <2>6. ASSUME NEW n \in Nat, NEW p, p = params_', p = [i \in 1 .. n |-> p[i]],
               \A i \in 1 .. n : p[i].paramName \in STRING /\ p[i].paramName # Quoted,
               \A i, j \in 1 .. n : p[i].paramName = p[j].paramName => i = j
        PROVE  StubTypes'
    BY <1>3, <2>1, <2>2, <2>6 DEF StubTypes, Name
  <2>7. CASE params_' = <<>>
    <3>1. PICK p : p = params_'
      OBVIOUS
    <3>2. 0 \in Nat /\ p = [i \in 1 .. 0 |-> p[i]] /\ 1 .. 0 = {}
      BY <2>7, <3>1
    <3> QED BY <2>6, <3>1, <3>2
  <2>8. CASE params_' = Bind(d)
    <3>1. PICK p : p = params_'
      OBVIOUS
    <3>2. PICK n \in Nat :
            /\ DOMAIN Members(d) = 1 .. n
            /\ \A i \in 1 .. n : Members(d)[i].name \in STRING /\ Members(d)[i].name # Quoted
            /\ \A i, j \in 1 .. n : Members(d)[i].name = Members(d)[j].name => i = j
      <4>1. CASE d.params.type = "object"
        <5>1. PICK ps : ps = d.params.members
          OBVIOUS
        <5>2. PICK n \in Nat :
                /\ ps = [i \in 1 .. n |-> ps[i]]
                /\ \A i \in 1 .. n : ps[i].name \in STRING /\ ps[i].name # Quoted
                /\ \A i, j \in 1 .. n : ps[i].name = ps[j].name => i = j
          <6>1. /\ Len(ps) \in Nat /\ ps = [i \in 1 .. Len(ps) |-> ps[i]]
                /\ \A i \in 1 .. Len(ps) : ps[i].name \in STRING /\ ps[i].name # Quoted
                /\ \A i, j \in 1 .. Len(ps) : ps[i].name = ps[j].name => i = j
            BY <4>1, <5>1, StubAssumption
          <6> QED BY <6>1
        <5>3. Members(d) = ps
          BY <4>1, <5>1 DEF Members
        <5>4. DOMAIN ps = 1 .. n
          BY <5>2
        <5> QED BY <5>2, <5>3, <5>4, Zenon
      <4>2. CASE d.params.type # "object"
        <5>1. Members(d) = <<>>
          BY <4>2 DEF Members
        <5>2. DOMAIN Members(d) = 1 .. 0 /\ 0 \in Nat /\ 1 .. 0 = {}
          BY <5>1
        <5> QED BY <5>2
      <4> QED BY <4>1, <4>2
    <3>3. p = [i \in 1 .. n |-> [paramName |-> Members(d)[i].name,
                                 paramType |-> TypeOf(Members(d)[i].example)]]
      BY <2>8, <3>1, <3>2 DEF Bind
    <3>4. p = [i \in 1 .. n |-> p[i]] /\ \A i \in 1 .. n : p[i].paramName = Members(d)[i].name
      BY <3>3
    <3>5. /\ \A i \in 1 .. n : p[i].paramName \in STRING /\ p[i].paramName # Quoted
          /\ \A i, j \in 1 .. n : p[i].paramName = p[j].paramName => i = j
      BY <3>2, <3>4, Zenon
    <3> QED BY <2>6, <3>1, <3>4, <3>5
  <2> QED BY <2>4, <2>5, <2>7, <2>8
<1>4. ASSUME StubTypes, UserCalls PROVE StubTypes'
  <2>1. /\ UNCHANGED <<kind, foreign, definition, params_>>
        /\ call' \in {"byName", "byPosition"} /\ kind \in {"procedure", "notify"}
        /\ args' \in [DOMAIN params_ -> Arguments]
        /\ \A i \in DOMAIN params_ : TypeOf(args'[i]) = params_[i].paramType
    BY <1>4 DEF UserCalls, jsonVars, writerVars
  <2>2. PICK n \in Nat : /\ params_ = [i \in 1 .. n |-> params_[i]]
                         /\ \A i \in 1 .. n : Name(i) \in STRING /\ Name(i) # Quoted
                         /\ \A i, j \in 1 .. n : Name(i) = Name(j) => i = j
    BY <1>4 DEF StubTypes
  <2>3. DOMAIN params_ = 1 .. n
    BY <2>2
  <2> QED BY <1>4, <2>1, <2>2, <2>3 DEF StubTypes, Name
<1>5. ASSUME StubTypes, ServerCalls PROVE StubTypes'
  BY <1>5 DEF StubTypes, ServerCalls, jsonVars, writerVars, Name
<1>6. ASSUME StubTypes, [StubNext]_marshalVars PROVE StubTypes'
  <2>1. WriteAny => UNCHANGED foreign
    BY DEF WriteAny, Write
  <2>2. ClientWrites => UNCHANGED <<foreign, stubVars>>
    BY DEF ClientWrites, Write
  <2>3. StartReading => UNCHANGED foreign
    BY DEF StartReading, writerVars
  <2>4. Read => UNCHANGED foreign
    BY DEF Read, writerVars
  <2>5. UNCHANGED marshalVars => UNCHANGED <<foreign, stubVars>>
    BY DEF marshalVars, jsonVars, writerVars
  <2> QED BY <1>2, <1>3, <1>4, <1>5, <1>6, <2>1, <2>2, <2>3, <2>4, <2>5 DEF StubNext
<1> QED BY <1>1, <1>6

\* What a step of the stubs does to jackson.
LEMMA JacksonStep ==
  ASSUME StubTypes, written \in Seq(WriterEvents), [StubNext]_marshalVars
  PROVE  \/ \E e \in WriterEvents : Write(e)
         \/ StartReading
         \/ Read
         \/ UNCHANGED jsonVars
<1>1. ASSUME WriteAny PROVE \E e \in WriterEvents : Write(e)
  <2>1. PICK e \in Events : Write(e)
    BY <1>1 DEF WriteAny
  <2>2. e \in WriterEvents
    BY ScalarsAreEvents DEF Events, WriterEvents, KeyEvents, Structure
  <2> QED BY <2>1, <2>2
<1>2. ASSUME ClientWrites PROVE \E e \in WriterEvents : Write(e)
  <2>1. call # "none" /\ Len(written) < Len(Message) /\ Write(Message[Len(written) + 1])
    BY <1>2 DEF ClientWrites
  <2>2. Message \in Seq(WriterEvents)
    BY <2>1, MessageShape
  <2>3. PICK n \in Nat : n = Len(written)
    OBVIOUS
  <2>4. Message[n + 1] \in WriterEvents
    BY <2>1, <2>2, <2>3
  <2> QED BY <2>1, <2>3, <2>4
<1> QED BY <1>1, <1>2 DEF StubNext, marshalVars, Generate, UserCalls, ServerCalls

\* What holds of jackson and the stubs, whatever is read.
JacksonInv == StubTypes /\ written \in Seq(WriterEvents) /\ ReaderInv

\* It is inductive.
LEMMA JacksonInductive ==
  /\ StubInit => JacksonInv
  /\ JacksonInv /\ [StubNext]_marshalVars => JacksonInv'
<1> USE DEF JacksonInv
<1>1. StubInit => JacksonInv
  <2> SUFFICES ASSUME StubInit PROVE JacksonInv
    OBVIOUS
  <2>1. status = "writing" /\ written = <<>> /\ text = <<>> /\ pos = 0 /\ frames = <<>>
        /\ want = "value" /\ doc = <<>> /\ dstack = <<>> /\ key = Plain("none")
    BY DEF StubInit, JsonInit
  <2>2. ReaderTypes
    BY <2>1 DEF ReaderTypes, KeySet
  <2>3. Nested(frames, dstack) /\ Fits(frames, dstack, want, doc)
    BY <2>1 DEF Nested, Fits
  <2>4. OnlyDuplicatesAbort
    BY <2>1 DEF OnlyDuplicatesAbort
  <2>5. ReaderInv
    BY <2>1, <2>2, <2>3, <2>4 DEF ReaderInv
  <2>6. written \in Seq(WriterEvents)
    BY <2>1
  <2> QED BY <2>5, <2>6, StubTypesStep
<1>2. JacksonInv /\ [StubNext]_marshalVars => JacksonInv'
  <2> SUFFICES ASSUME JacksonInv, [StubNext]_marshalVars PROVE JacksonInv'
    OBVIOUS
  <2>1. StubTypes'
    BY StubTypesStep
  <2>2. CASE \E e \in WriterEvents : Write(e)
    <3>1. PICK e \in WriterEvents : Write(e)
      BY <2>2
    <3>2. written' = Append(written, e)
      BY <3>1 DEF Write
    <3>3. written' \in Seq(WriterEvents)
      BY <3>2, AppendProperties
    <3> QED BY <2>1, <3>1, <3>3, WriteStep
  <2>3. CASE StartReading
    <3>1. written' = written
      BY <2>3 DEF StartReading, writerVars
    <3>2. ReaderInv'
      BY <2>3 DEF ReaderInv, StartReading, ReaderTypes, OnlyDuplicatesAbort, Nested, Fits,
             readerVars, documentVars, InObject, Top, KeyExpected
    <3> QED BY <2>1, <3>1, <3>2
  <2>4. CASE Read
    <3>1. written' = written
      BY <2>4 DEF Read, writerVars
    <3> QED BY <2>1, <2>4, <3>1, ReadStep
  <2>5. CASE UNCHANGED jsonVars
    <3>1. written' = written
      BY <2>5 DEF jsonVars, writerVars
    <3>2. ReaderInv'
      BY <2>5 DEF ReaderInv, ReaderTypes, OnlyDuplicatesAbort, Nested, Fits,
             jsonVars, readerVars, documentVars, InObject, Top, KeyExpected
    <3> QED BY <2>1, <3>1, <3>2
  <2> QED BY <2>2, <2>3, <2>4, <2>5, JacksonStep
<1> QED BY <1>1, <1>2

\* Reader never has a value for Document to refuse, whatever the text is: what an
\* assertion of Document can still stop is a key that an object has already, and a
\* parse that succeeds gives one complete value and has read the whole text.
THEOREM Reading == StubSpec => []OnlyDuplicatesAbort
<1>1. JacksonInv => OnlyDuplicatesAbort
  BY DEF JacksonInv, ReaderInv
<1> QED BY <1>1, JacksonInductive, PTL DEF StubSpec

-----------------------------------------------------------------------------
(* A value that is written.                                                *)

\* The levels of Writer, with the keys of an object.
AllKeys == Strings \cup Keys
WriterLevel == [inArray : BOOLEAN, valueCount : Nat, keys : SUBSET AllKeys]

Ends == {"EndArray", "EndObject"}
Starts == {"StartArray", "StartObject"}

\* Due, Prefix and Counted with a stack s.
InObjectOf(s) == s # <<>> /\ ~s[Len(s)].inArray
IsOdd(s) == InObjectOf(s) /\ s[Len(s)].valueCount % 2 = 1
DueOn(s, e) ==
  /\ s = <<>> => e.op \notin Ends \cup {"Key"}
  /\ s # <<>> /\ s[Len(s)].inArray => e.op \notin {"Key", "EndObject"}
  /\ IsOdd(s) => e.op \notin Ends \cup {"Key"}
  /\ InObjectOf(s) /\ ~IsOdd(s) =>
       e.op = "EndObject" \/ (e.op = "Key" /\ e.s \notin s[Len(s)].keys)
Separator(s) ==
  IF IsOdd(s) THEN ":" ELSE IF s # <<>> /\ s[Len(s)].valueCount > 0 THEN "," ELSE "none"
MarkBefore(s, e) == IF e.op \in Ends THEN "none" ELSE Separator(s)
CountedOn(s, ks) ==
  IF s = <<>> THEN <<>>
  ELSE Front(s) \o <<[Last(s) EXCEPT !.valueCount = @ + 1, !.keys = @ \cup ks]>>
StackAfter(s, e) ==
  IF e.op \in Starts
    THEN Append(CountedOn(s, {}), [inArray |-> e.op = "StartArray",
                                   valueCount |-> 0, keys |-> {}])
  ELSE IF e.op \in Ends THEN Front(s)
  ELSE IF e.op = "Key" THEN CountedOn(s, {e.s})
  ELSE CountedOn(s, {})

\* The token of an event, of a key without a quote.
Token(e) ==
  CASE e.op = "StartArray" -> Mark("[")
    [] e.op = "StartObject" -> Mark("{")
    [] e.op = "EndArray" -> Mark("]")
    [] e.op = "EndObject" -> Mark("}")
    [] e.op = "Key" -> [t |-> "string", s |-> e.s]
    [] OTHER -> Written(e)

\* An event takes Writer from the stack s to r, and the text x from a to b.
Chunk(e, s, r, a, b, x) ==
  /\ DueOn(s, e) /\ r = StackAfter(s, e)
  /\ b <= Len(x) /\ x[b] = Token(e)
  /\ MarkBefore(s, e) = "none" => b = a + 1
  /\ MarkBefore(s, e) # "none" => b = a + 2 /\ x[a + 1] = Mark(MarkBefore(s, e))

\* The stacks h and the lengths g of the text, after each event of w.
Trace(w, s, x, h, g) ==
  /\ h \in [0 .. Len(w) -> Seq(WriterLevel)] /\ g \in [0 .. Len(w) -> Nat]
  /\ h[0] = <<>> /\ g[0] = 0
  /\ h[Len(w)] = s /\ g[Len(w)] = Len(x)
  /\ \A i \in 1 .. Len(w) :
       Chunk(w[i], h[i - 1], h[i], g[i - 1], g[i], x) /\ (h[i - 1] = <<>> => i = 1)

AllCanBeRead(w) == \A i \in DOMAIN w : CanBeRead(w[i])

\* What an event may be.
LEMMA EventKinds ==
  ASSUME NEW e \in WriterEvents
  PROVE  \/ e \in ScalarEvents /\ e.op \notin Starts \cup Ends \cup {"Key"}
         \/ e.op = "Key" /\ e = KeyEvent(e.s) /\ e.s \in AllKeys
         \/ e.op \in Starts \cup Ends /\ e = Plain(e.op)
<1>1. CASE e \in ScalarEvents
  <2>1. e.op \notin Starts \cup Ends \cup {"Key"}
    BY <1>1, ScalarKinds DEF Starts, Ends
  <2> QED BY <1>1, <2>1
<1>2. CASE e \in KeyEvents
  BY <1>2 DEF KeyEvents, KeyEvent, AllKeys
<1>3. CASE e \in {Plain(op) : op \in Structure}
  <2>1. PICK op \in Structure : e = Plain(op)
    BY <1>3
  <2>2. e.op = op
    BY <2>1 DEF Plain
  <2> QED BY <2>1, <2>2 DEF Structure, Starts, Ends
<1> QED BY <1>1, <1>2, <1>3 DEF WriterEvents

\* A level that counts one more.
LEMMA WriterCountOneMore ==
  ASSUME NEW a, NEW n \in Nat, NEW b, NEW ks, NEW x,
         x = [[inArray |-> a, valueCount |-> n, keys |-> b]
                EXCEPT !.valueCount = @ + 1, !.keys = ks]
  PROVE  x = [inArray |-> a, valueCount |-> n + 1, keys |-> ks]
OBVIOUS

\* It is a level still.
LEMMA WriterLevelCounts ==
  ASSUME NEW l \in WriterLevel, NEW ks \in SUBSET AllKeys
  PROVE  LET x == [l EXCEPT !.valueCount = @ + 1, !.keys = ks]
         IN /\ x \in WriterLevel /\ x.inArray = l.inArray
            /\ x.valueCount = l.valueCount + 1 /\ x.keys = ks
<1>1. PICK a \in BOOLEAN, n \in Nat, b \in SUBSET AllKeys :
        l = [inArray |-> a, valueCount |-> n, keys |-> b]
  BY DEF WriterLevel
<1>2. PICK x : x = [l EXCEPT !.valueCount = @ + 1, !.keys = ks]
  OBVIOUS
<1>3. x = [inArray |-> a, valueCount |-> n + 1, keys |-> ks]
  BY <1>1, <1>2, WriterCountOneMore, Zenon
<1>4. /\ x \in WriterLevel /\ x.inArray = l.inArray
      /\ x.valueCount = l.valueCount + 1 /\ x.keys = ks
  BY <1>1, <1>3 DEF WriterLevel
<1> QED BY <1>2, <1>4

\* Counting a value, or a key, in the innermost level of Writer.
LEMMA CountedStep ==
  ASSUME NEW s \in Seq(WriterLevel), NEW ks \in SUBSET AllKeys
  PROVE  /\ CountedOn(s, ks) \in Seq(WriterLevel)
         /\ s = <<>> => CountedOn(s, ks) = <<>>
         /\ s # <<>> =>
              LET c == CountedOn(s, ks) IN
              /\ Len(s) \in Nat \ {0} /\ Len(c) = Len(s) /\ c # <<>>
              /\ c[Len(s)].inArray = s[Len(s)].inArray
              /\ c[Len(s)].valueCount = s[Len(s)].valueCount + 1
              /\ c[Len(s)].keys = s[Len(s)].keys \cup ks
              /\ \A i \in 1 .. Len(s) - 1 : c[i] = s[i]
<1>1. CASE s = <<>>
  BY <1>1 DEF CountedOn
<1>2. CASE s # <<>>
  <2>1. Last(s) \in WriterLevel /\ Last(s) = s[Len(s)] /\ Len(s) \in Nat \ {0}
    BY <1>2, LastOfSequence
  <2>2. PICK l \in WriterLevel : l = Last(s)
    BY <2>1
  <2>3. PICK k \in SUBSET AllKeys : k = l.keys \cup ks
    BY DEF WriterLevel
  <2>4. PICK x : x = [l EXCEPT !.valueCount = @ + 1, !.keys = k]
    OBVIOUS
  <2>5. /\ x \in WriterLevel /\ x.inArray = l.inArray
        /\ x.valueCount = l.valueCount + 1 /\ x.keys = k
    BY <2>4, WriterLevelCounts
  <2>6. PICK c : c = CountedOn(s, ks)
    OBVIOUS
  <2>7. c = Front(s) \o <<x>>
    BY <1>2, <2>2, <2>3, <2>4, <2>6 DEF CountedOn
  <2>8. LET r == Front(s) \o <<x>> IN
              /\ r \in Seq(WriterLevel) /\ Len(r) = Len(s) /\ r[Len(s)] = x
              /\ \A i \in 1 .. Len(s) - 1 : r[i] = s[i]
    <3>1. x \in WriterLevel
      BY <2>5
    <3> QED BY <1>2, <3>1, LastOfSequence
  <2>9. c \in Seq(WriterLevel) /\ Len(c) = Len(s) /\ c[Len(s)] = x
        /\ \A i \in 1 .. Len(s) - 1 : c[i] = s[i]
    BY <2>7, <2>8
  <2>10. c # <<>>
    BY <2>1, <2>9
  <2> QED BY <1>2, <2>1, <2>2, <2>3, <2>5, <2>6, <2>9, <2>10, Zenon
<1> QED BY <1>1, <1>2

\* The stack is one of levels.
LEMMA StackType ==
  ASSUME NEW s \in Seq(WriterLevel), NEW e \in WriterEvents, DueOn(s, e)
  PROVE  StackAfter(s, e) \in Seq(WriterLevel)
<1>1. CASE e.op \in Starts
  <2>1. PICK l : l = [inArray |-> e.op = "StartArray", valueCount |-> 0, keys |-> {}]
    OBVIOUS
  <2>2. l \in WriterLevel
    BY <2>1 DEF WriterLevel
  <2>3. PICK c \in Seq(WriterLevel) : c = CountedOn(s, {})
    BY CountedStep
  <2>4. Append(c, l) \in Seq(WriterLevel)
    BY <2>2, AppendProperties
  <2> QED BY <1>1, <2>1, <2>3, <2>4 DEF StackAfter
<1>2. CASE e.op \in Ends
  <2>1. s # <<>>
    BY <1>2 DEF DueOn
  <2>2. Front(s) \in Seq(WriterLevel)
    BY <2>1, LastOfSequence
  <2> QED BY <1>2, <2>2 DEF StackAfter, Ends, Starts
<1>3. CASE e.op = "Key"
  <2>1. {e.s} \in SUBSET AllKeys
    BY <1>3, EventKinds DEF Starts, Ends
  <2>2. StackAfter(s, e) = CountedOn(s, {e.s})
    BY <1>3 DEF StackAfter, Ends, Starts
  <2> QED BY <2>1, <2>2, CountedStep
<1>4. CASE e.op \notin Starts \cup Ends \cup {"Key"}
  <2>1. StackAfter(s, e) = CountedOn(s, {})
    BY <1>4 DEF StackAfter
  <2> QED BY <2>1, CountedStep
<1> QED BY <1>1, <1>2, <1>3, <1>4

\* What Write does, in these terms.
LEMMA WriteFacts ==
  ASSUME wstack \in Seq(WriterLevel), NEW e \in WriterEvents, Write(e)
  PROVE  /\ DueOn(wstack, e) /\ (wstack = <<>> => written = <<>>)
         /\ wstack' = StackAfter(wstack, e)
         /\ Prefix = IF Separator(wstack) = "none" THEN <<>>
                     ELSE <<Mark(Separator(wstack))>>
<1>1. Last(wstack) = wstack[Len(wstack)]
  BY DEF Last
<1>2. wstack # <<>> => wstack[Len(wstack)] \in WriterLevel
  BY <1>1, LastOfSequence
<1>3. wstack # <<>> => wstack[Len(wstack)].valueCount \in Nat
  BY <1>2 DEF WriterLevel
<1>4. Due(e)
  BY DEF Write
<1>5. DueOn(wstack, e) /\ (wstack = <<>> => written = <<>>)
  BY <1>1, <1>4 DEF Due, DueOn, InObjectOf, IsOdd, Ends
<1>6. \A ks : Counted(ks) = CountedOn(wstack, ks)
  BY DEF Counted, CountedOn
<1>7. wstack' = StackAfter(wstack, e)
  <2>1. CASE e.op \in Starts
    BY <1>6, <2>1, Zenon DEF Write, StackAfter, Starts
  <2>2. CASE e.op \in Ends
    BY <2>2, Zenon DEF Write, StackAfter, Starts, Ends
  <2>3. CASE e.op = "Key"
    BY <1>6, <2>3, Zenon DEF Write, StackAfter, Starts, Ends
  <2>4. CASE e.op \notin Starts \cup Ends \cup {"Key"}
    BY <1>6, <2>4, Zenon DEF Write, StackAfter, Starts, Ends
  <2> QED BY <2>1, <2>2, <2>3, <2>4
<1>8. Prefix = IF Separator(wstack) = "none" THEN <<>> ELSE <<Mark(Separator(wstack))>>
  <2>1. CASE wstack = <<>>
    BY <2>1 DEF Prefix, Separator, IsOdd, InObjectOf
  <2>2. CASE IsOdd(wstack)
    <3>1. Separator(wstack) = ":" /\ Prefix = <<Mark(":")>>
      BY <1>1, <2>2 DEF Prefix, Separator, IsOdd, InObjectOf
    <3> QED BY <3>1
  <2>3. CASE wstack # <<>> /\ ~IsOdd(wstack) /\ wstack[Len(wstack)].valueCount > 0
    <3>1. Separator(wstack) = "," /\ Prefix = <<Mark(",")>>
      BY <1>1, <2>3 DEF Prefix, Separator, IsOdd, InObjectOf
    <3> QED BY <3>1
  <2>4. CASE wstack # <<>> /\ ~IsOdd(wstack) /\ ~(wstack[Len(wstack)].valueCount > 0)
    BY <1>1, <2>4 DEF Prefix, Separator, IsOdd, InObjectOf
  <2> QED BY <2>1, <2>2, <2>3, <2>4
<1> QED BY <1>5, <1>7, <1>8

\* An event that is readable has a token, with a mark before it or none.
LEMMA TextStep ==
  ASSUME ReaderTypes, wstack \in Seq(WriterLevel),
         NEW e \in WriterEvents, Write(e), CanBeRead(e)
  PROVE  LET m == MarkBefore(wstack, e) IN
         /\ \A i \in 1 .. Len(text) : text'[i] = text[i]
         /\ text'[Len(text')] = Token(e)
         /\ m = "none" => Len(text') = Len(text) + 1
         /\ m # "none" => Len(text') = Len(text) + 2 /\ text'[Len(text) + 1] = Mark(m)
<1>1. PICK x \in Seq(TokenSet) : x = text
  BY DEF ReaderTypes
<1>2. PICK t : t = Token(e)
  OBVIOUS
<1>3. t \in TokenSet
  <2>1. CASE e \in ScalarEvents /\ e.op \notin Starts \cup Ends \cup {"Key"}
    BY <1>2, <2>1, WrittenToken DEF Token, Starts, Ends
  <2>2. CASE e.op = "Key" /\ e.s \in AllKeys
    BY <1>2, <2>2 DEF Token, AllKeys, TokenSet
  <2>3. CASE e.op \in Starts \cup Ends
    <3>1. Mark("[") \in TokenSet /\ Mark("]") \in TokenSet /\ Mark("{") \in TokenSet
          /\ Mark("}") \in TokenSet
      BY DEF TokenSet, Marks
    <3> QED BY <1>2, <2>3, <3>1 DEF Token, Starts, Ends
  <2> QED BY <2>1, <2>2, <2>3, EventKinds
<1>4. CASE e.op \in Ends
  <2>1. text' = Append(x, t)
    <3>1. text' = Append(text, Mark(IF e.op = "EndArray" THEN "]" ELSE "}"))
      BY <1>4, Zenon DEF Write, Ends
    <3>2. t = Mark(IF e.op = "EndArray" THEN "]" ELSE "}")
      BY <1>2, <1>4 DEF Token, Ends
    <3> QED BY <1>1, <3>1, <3>2, Zenon
  <2>2. Len(Append(x, t)) = Len(x) + 1
    BY <1>3, AppendProperties
  <2>3. \A i \in 1 .. Len(x) : Append(x, t)[i] = x[i]
    BY <1>3, AppendProperties
  <2>4. Append(x, t)[Len(x) + 1] = t
    BY <1>3, AppendProperties
  <2> QED BY <1>1, <1>2, <1>4, <2>1, <2>2, <2>3, <2>4, Zenon DEF MarkBefore
<1>5. CASE e.op \notin Ends
  <2>1. text' = text \o Prefix \o <<t>>
    <3>1. CASE e.op \in Starts
      <4>1. text' = text \o Prefix \o <<Mark(IF e.op = "StartArray" THEN "[" ELSE "{")>>
        BY <3>1, Zenon DEF Write, Starts
      <4>2. t = Mark(IF e.op = "StartArray" THEN "[" ELSE "{")
        BY <1>2, <3>1 DEF Token, Starts
      <4> QED BY <4>1, <4>2, Zenon
    <3>2. CASE e.op = "Key"
      <4>1. text' = text \o Prefix \o KeyText(e.s)
        BY <3>2, Zenon DEF Write
      <4>2. e.s # Quoted
        BY <3>2, EventKinds DEF CanBeRead, Starts, Ends
      <4>3. KeyText(e.s) = <<[t |-> "string", s |-> e.s]>>
        BY <4>2, Zenon DEF KeyText
      <4>4. t = [t |-> "string", s |-> e.s]
        BY <1>2, <3>2 DEF Token
      <4> QED BY <4>1, <4>3, <4>4, Zenon
    <3>3. CASE e.op \notin Starts \cup Ends \cup {"Key"}
      <4>1. text' = text \o Prefix \o <<Written(e)>>
        BY <3>3, Zenon DEF Write, Starts, Ends
      <4>2. t = Written(e)
        BY <1>2, <3>3 DEF Token, Starts, Ends
      <4> QED BY <4>1, <4>2, Zenon
    <3> QED BY <1>5, <3>1, <3>2, <3>3
  <2>2. MarkBefore(wstack, e) = Separator(wstack)
    BY <1>5 DEF MarkBefore
  <2>3. CASE Separator(wstack) = "none"
    <3>1. Prefix = <<>>
      BY <2>3, WriteFacts
    <3>2. x \o <<>> = x
      OBVIOUS
    <3>3. text' = x \o <<t>>
      BY <1>1, <2>1, <3>1, <3>2, Zenon
    <3>4. /\ Len(x \o <<t>>) = Len(x) + 1 /\ (x \o <<t>>)[Len(x) + 1] = t
          /\ \A i \in 1 .. Len(x) : (x \o <<t>>)[i] = x[i]
      BY <1>3, Behind
    <3> QED BY <1>1, <1>2, <2>2, <2>3, <3>3, <3>4, Zenon
  <2>4. CASE Separator(wstack) # "none"
    <3>1. PICK m : m = Mark(Separator(wstack))
      OBVIOUS
    <3>2. m \in TokenSet
      BY <2>4, <3>1 DEF Separator, TokenSet, Marks
    <3>3. PICK y : y = x \o <<m>>
      OBVIOUS
    <3>4. /\ y \in Seq(TokenSet) /\ Len(y) = Len(x) + 1 /\ y[Len(x) + 1] = m
          /\ \A i \in 1 .. Len(x) : y[i] = x[i]
      <4>1. /\ x \o <<m>> \in Seq(TokenSet)
            /\ Len(x \o <<m>>) = Len(x) + 1 /\ (x \o <<m>>)[Len(x) + 1] = m
            /\ \A i \in 1 .. Len(x) : (x \o <<m>>)[i] = x[i]
        BY <3>2, Behind
      <4> QED BY <3>3, <4>1, Zenon
    <3>5. PICK z : z = y \o <<t>>
      OBVIOUS
    <3>6. /\ Len(z) = Len(y) + 1 /\ z[Len(y) + 1] = t
          /\ \A i \in 1 .. Len(y) : z[i] = y[i]
      <4>1. /\ Len(y \o <<t>>) = Len(y) + 1 /\ (y \o <<t>>)[Len(y) + 1] = t
            /\ \A i \in 1 .. Len(y) : (y \o <<t>>)[i] = y[i]
        BY <1>3, <3>4, Behind
      <4> QED BY <3>5, <4>1, Zenon
    <3>7. text' = z
      BY <1>1, <2>1, <2>4, <3>1, <3>3, <3>5, WriteFacts, Zenon
    <3>8. PICK n \in Nat : n = Len(x)
      OBVIOUS
    <3>9. /\ Len(z) = n + 2 /\ z[n + 2] = t /\ z[n + 1] = m
          /\ \A i \in 1 .. n : z[i] = x[i]
      BY <3>4, <3>6, <3>8
    <3> QED BY <1>1, <1>2, <2>2, <2>4, <3>1, <3>7, <3>8, <3>9, Zenon
  <2> QED BY <2>3, <2>4
<1> QED BY <1>4, <1>5

\* A longer text has the same tokens for an event.
LEMMA ChunkStays ==
  ASSUME NEW e, NEW s, NEW r, NEW a \in Nat, NEW b \in Nat,
         NEW x, NEW y, Len(x) \in Nat, Len(y) \in Nat, Len(x) <= Len(y),
         \A i \in 1 .. Len(x) : y[i] = x[i],
         Chunk(e, s, r, a, b, x)
  PROVE  Chunk(e, s, r, a, b, y)
<1>1. DueOn(s, e) /\ r = StackAfter(s, e)
  BY Zenon DEF Chunk
<1>2. b <= Len(x) /\ (b = a + 1 \/ b = a + 2)
  BY DEF Chunk
<1>3. b <= Len(y) /\ b \in 1 .. Len(x) /\ (b = a + 2 => a + 1 \in 1 .. Len(x))
  BY <1>2
<1>4. y[b] = Token(e)
  BY <1>3 DEF Chunk
<1>5. MarkBefore(s, e) = "none" => b = a + 1
  BY DEF Chunk
<1>6. MarkBefore(s, e) # "none" => b = a + 2 /\ y[a + 1] = Mark(MarkBefore(s, e))
  BY <1>3 DEF Chunk
<1> QED BY <1>1, <1>3, <1>4, <1>5, <1>6, Zenon DEF Chunk

\* The trace goes on.
LEMMA TraceStep ==
  ASSUME ReaderTypes, ReaderTypes', written \in Seq(WriterEvents),
         NEW e \in WriterEvents, Write(e), CanBeRead(e),
         NEW h, NEW g, Trace(written, wstack, text, h, g)
  PROVE  \E k, l : Trace(written', wstack', text', k, l)
<1>1. PICK n \in Nat : n = Len(written)
  OBVIOUS
<1>2. PICK v : v = written'
  OBVIOUS
<1>3. v \in Seq(WriterEvents) /\ Len(v) = n + 1 /\ v[n + 1] = e
      /\ \A i \in 1 .. n : v[i] = written[i]
  <2>1. v = Append(written, e)
    BY <1>2 DEF Write
  <2>2. Append(written, e) \in Seq(WriterEvents) /\ Len(Append(written, e)) = Len(written) + 1
    BY AppendProperties
  <2>3. \A i \in 1 .. Len(written) : Append(written, e)[i] = written[i]
    BY AppendProperties
  <2>4. Append(written, e)[Len(written) + 1] = e
    BY AppendProperties
  <2> QED BY <1>1, <2>1, <2>2, <2>3, <2>4, Zenon
<1>4. /\ h \in [0 .. n -> Seq(WriterLevel)] /\ g \in [0 .. n -> Nat]
      /\ h[0] = <<>> /\ g[0] = 0 /\ h[n] = wstack /\ g[n] = Len(text)
      /\ \A i \in 1 .. n : /\ Chunk(written[i], h[i - 1], h[i], g[i - 1], g[i], text)
                           /\ h[i - 1] = <<>> => i = 1
  BY <1>1, Zenon DEF Trace
<1>5. wstack \in Seq(WriterLevel)
  <2>1. n \in 0 .. n
    BY <1>1
  <2> QED BY <1>4, <2>1
<1>6. PICK r : r = wstack'
  OBVIOUS
<1>7. DueOn(wstack, e) /\ r = StackAfter(wstack, e) /\ (wstack = <<>> => written = <<>>)
  BY <1>5, <1>6, WriteFacts, Zenon
<1>8. r \in Seq(WriterLevel)
  BY <1>5, <1>7, StackType, Zenon
<1>9. PICK y : y = text'
  OBVIOUS
<1>10. PICK a \in Nat : a = Len(text)
  BY DEF ReaderTypes
<1>11. PICK b \in Nat : b = Len(y)
  BY <1>9 DEF ReaderTypes
<1>12. /\ \A i \in 1 .. a : y[i] = text[i]
       /\ y[b] = Token(e)
       /\ MarkBefore(wstack, e) = "none" => b = a + 1
       /\ MarkBefore(wstack, e) # "none" => b = a + 2 /\ y[a + 1] = Mark(MarkBefore(wstack, e))
  BY <1>5, <1>9, <1>10, <1>11, TextStep, Zenon
<1>13. a <= b
  BY <1>12
<1>14. b <= b
  BY <1>11
<1>15. Chunk(e, wstack, r, a, b, y)
  BY <1>7, <1>11, <1>12, <1>14, Zenon DEF Chunk
<1>16. PICK k : k = [i \in 0 .. n + 1 |-> IF i <= n THEN h[i] ELSE r]
  OBVIOUS
<1>17. PICK l : l = [i \in 0 .. n + 1 |-> IF i <= n THEN g[i] ELSE b]
  OBVIOUS
<1>18. k \in [0 .. n + 1 -> Seq(WriterLevel)] /\ \A i \in 0 .. n : k[i] = h[i]
  BY <1>1, <1>4, <1>8, <1>16
<1>19. l \in [0 .. n + 1 -> Nat] /\ \A i \in 0 .. n : l[i] = g[i]
  BY <1>1, <1>4, <1>17
<1>20. k[n + 1] = r /\ l[n + 1] = b
  BY <1>1, <1>16, <1>17
<1>21. ASSUME NEW i \in 1 .. n + 1
       PROVE  Chunk(v[i], k[i - 1], k[i], l[i - 1], l[i], y) /\ (k[i - 1] = <<>> => i = 1)
  <2>1. CASE i \in 1 .. n
    <3>1. i \in 0 .. n /\ i - 1 \in 0 .. n
      BY <1>1, <2>1
    <3>2. k[i] = h[i] /\ k[i - 1] = h[i - 1] /\ l[i] = g[i] /\ l[i - 1] = g[i - 1] /\ v[i] = written[i]
      BY <1>3, <1>18, <1>19, <2>1, <3>1
    <3>3. g[i - 1] \in Nat /\ g[i] \in Nat
      BY <1>4, <3>1
    <3>4. Chunk(written[i], h[i - 1], h[i], g[i - 1], g[i], text)
      BY <1>4, <2>1, Zenon
    <3>5. Len(text) \in Nat /\ Len(y) \in Nat /\ Len(text) <= Len(y)
          /\ \A j \in 1 .. Len(text) : y[j] = text[j]
      BY <1>10, <1>11, <1>12, <1>13
    <3>6. Chunk(written[i], h[i - 1], h[i], g[i - 1], g[i], y)
      <4>1. PICK s : s = text
        OBVIOUS
      <4> QED BY <3>3, <3>4, <3>5, <4>1, ChunkStays, Zenon
    <3> QED BY <1>4, <2>1, <3>2, <3>6, Zenon
  <2>2. CASE i = n + 1
    <3>1. n \in 0 .. n /\ i - 1 = n
      BY <1>1, <2>2
    <3>2. v[i] = e /\ k[i - 1] = wstack /\ k[i] = r /\ l[i - 1] = a /\ l[i] = b
      BY <1>3, <1>4, <1>10, <1>18, <1>19, <1>20, <2>2, <3>1
    <3>3. wstack = <<>> => n = 0
      BY <1>1, <1>7
    <3> QED BY <1>15, <2>2, <3>2, <3>3
  <2>3. i \in 1 .. n \/ i = n + 1
    BY <1>1
  <2> QED BY <2>1, <2>2, <2>3
<1>22. k[0] = <<>> /\ l[0] = 0
  BY <1>1, <1>4, <1>18, <1>19
<1>23. Trace(v, r, y, k, l)
  BY <1>3, <1>11, <1>18, <1>19, <1>20, <1>21, <1>22, Zenon DEF Trace
<1> QED BY <1>2, <1>6, <1>9, <1>23

-----------------------------------------------------------------------------
(* It is read again.                                                       *)

\* What Reader makes of a scalar that Writer wrote.
LEMMA ScalarBack ==
  ASSUME NEW e \in ScalarEvents, CanBeRead(e), NEW t, t = Written(e)
  PROVE  /\ t.t \notin Marks \cup {"junk", "end"} /\ ~TooBig(t) /\ StringError(t) = {}
         /\ \/ IsScalar(t) /\ ~IsString(t) /\ ReadScalar(t) = ReadBack(e)
            \/ ~IsScalar(t) /\ IsString(t) /\ StringEvent("String", t) = ReadBack(e)
<1>0. \A o : o \in {"null", "true", "false", "NaN", "Infinity", "real", "digits"} =>
         o \notin Marks \cup {"junk", "end", "huge", "string", "escape", "broken"}
  BY DEF Marks
<1>1. ASSUME t.t \in {"null", "true", "false", "NaN", "Infinity", "real"}
      PROVE  /\ t.t \notin Marks \cup {"junk", "end"} /\ ~TooBig(t) /\ StringError(t) = {}
             /\ IsScalar(t) /\ ~IsString(t)
  <2>1. t.t \notin Marks \cup {"junk", "end", "huge", "string", "escape", "broken", "digits"}
    BY <1>0, <1>1
  <2> QED BY <1>1, <2>1, Zenon DEF TooBig, StringError, IsScalar, IsString
<1>2a. ASSUME NEW n \in Int, Atoi(t) = n, t.t = "digits", t.suffix = ""
      PROVE  /\ t.t \notin Marks \cup {"junk", "end"} /\ ~TooBig(t) /\ StringError(t) = {}
             /\ IsScalar(t) /\ ~IsString(t)
             /\ ReadScalar(t) = [op |-> IF IsInt32(n) THEN "Int32" ELSE "Int64", n |-> n]
  <2>1. Atoi(t) = n /\ t.t = "digits" /\ t.suffix = ""
    BY <1>2a
  <2>2. t.t \notin Marks \cup {"junk", "end", "huge", "string", "escape", "broken"}
    BY <1>0, <2>1
  <2>3. ~TooBig(t)
    BY <2>1, <2>2, Zenon DEF TooBig
  <2>4. StringError(t) = {} /\ IsScalar(t) /\ ~IsString(t)
    BY <2>1, <2>2, Zenon DEF StringError, IsScalar, IsString
  <2>5. ReadScalar(t) = [op |-> IF t.suffix = "i64" \/ ~IsInt32(Atoi(t)) THEN "Int64" ELSE "Int32",
                         n |-> Atoi(t)]
    BY <2>1, Zenon DEF ReadScalar
  <2>6. ReadScalar(t) = [op |-> IF IsInt32(n) THEN "Int32" ELSE "Int64", n |-> n]
    <3>1. CASE IsInt32(n)
      BY <2>1, <2>5, <3>1, Zenon
    <3>2. CASE ~IsInt32(n)
      BY <2>1, <2>5, <3>2, Zenon
    <3> QED BY <3>1, <3>2
  <2> QED BY <2>2, <2>3, <2>4, <2>6
<1>2. ASSUME NEW n \in Int, Magnitude(n) < Twos[64], t = Itoa(n)
      PROVE  /\ t.t \notin Marks \cup {"junk", "end"} /\ ~TooBig(t) /\ StringError(t) = {}
             /\ IsScalar(t) /\ ~IsString(t)
             /\ ReadScalar(t) = [op |-> IF IsInt32(n) THEN "Int32" ELSE "Int64", n |-> n]
  <2>1. Atoi(t) = n /\ t.t = "digits" /\ t.suffix = ""
    BY <1>2, ItoaAtoi, Zenon
  <2> QED BY <1>2a, <2>1, Zenon
<1>3. CASE e \in {[op |-> op] : op \in {"null", "true", "false"}}
  <2>1. PICK op \in {"null", "true", "false"} : e = [op |-> op]
    BY <1>3
  <2>2. t = [t |-> op] /\ e.op = op
    BY <2>1 DEF Written
  <2>3. t.t = op
    BY <2>2
  <2>4. ReadScalar(t) = [op |-> t.t]
    BY <2>3 DEF ReadScalar
  <2>5. ReadBack(e) = e
    BY <2>1, <2>2 DEF ReadBack
  <2> QED BY <1>1, <2>1, <2>3, <2>4, <2>5
<1>4. CASE e \in [op : {"Double"}, class : {"denormal", "other"}, d : STRING]
  <2>1. e.op = "Double" /\ e.class \in {"denormal", "other"} /\ e.class # "denormal"
    BY <1>4 DEF CanBeRead
  <2>2. PICK d \in STRING : d = e.d
    BY <1>4
  <2>3. e.op = "Double" /\ e.class = "other" /\ e.d = d /\ e = DoubleEvent(d)
    BY <1>4, <2>1, <2>2 DEF DoubleEvent
  <2>4. t = DoubleText(e)
    BY <2>3 DEF Written
  <2>6. ReadBack(e) = IF d = "-inf" THEN DoubleEvent("inf") ELSE e
    BY <2>3 DEF ReadBack
  <2>7. CASE d \in {"inf", "-inf"}
    <3>1. t = [t |-> "Infinity"]
      BY <2>3, <2>4, <2>7 DEF DoubleText
    <3>2. t.t = "Infinity"
      BY <3>1
    <3>3. ReadScalar(t) = DoubleEvent("inf")
      BY <3>2 DEF ReadScalar
    <3>4. ReadBack(e) = DoubleEvent("inf")
      BY <2>3, <2>6, <2>7
    <3> QED BY <1>1, <3>2, <3>3, <3>4
  <2>8. CASE d = "nan"
    <3>1. t = [t |-> "NaN"]
      BY <2>3, <2>4, <2>8 DEF DoubleText
    <3>2. t.t = "NaN"
      BY <3>1
    <3>3. ReadScalar(t) = DoubleEvent("nan")
      BY <3>2 DEF ReadScalar
    <3> QED BY <1>1, <2>3, <2>6, <2>8, <3>2, <3>3
  <2>9. CASE d \notin {"inf", "-inf", "nan"}
    <3>1. t = [t |-> "real", d |-> d]
      BY <2>3, <2>4, <2>9 DEF DoubleText
    <3>2. t.t = "real" /\ t.d = d
      BY <3>1
    <3>3. ReadScalar(t) = DoubleEvent(d)
      BY <3>2 DEF ReadScalar
    <3> QED BY <1>1, <2>3, <2>6, <2>9, <3>2, <3>3
  <2> QED BY <2>7, <2>8, <2>9
<1>4a. CASE e \in {[op |-> "Double", class |-> "negative whole", n |-> n] :
                     n \in {i \in Nat : Magnitude(i) < Twos[64]}}
  <2>1. PICK n \in Nat : /\ e = [op |-> "Double", class |-> "negative whole", n |-> n]
                         /\ Magnitude(n) < Twos[64]
    BY <1>4a
  <2>2. e.op = "Double" /\ e.class = "negative whole" /\ e.n = n
    BY <2>1
  <2>3. t = Minus(n)
    BY <2>2 DEF Written, DoubleText, Minus
  <2>4. Atoi(t) = -n /\ t.t = "digits" /\ t.suffix = ""
    BY <2>1, <2>3, MinusAtoi, Zenon
  <2>5. -n \in Int
    OBVIOUS
  <2>6. ReadBack(e) = [op |-> IF IsInt32(-n) THEN "Int32" ELSE "Int64", n |-> -n]
    BY <2>2, Zenon DEF ReadBack
  <2> QED BY <1>2a, <2>4, <2>5, <2>6
<1>5. CASE e \in [op : {"String"}, s : Strings]
  <2>1. PICK s \in Strings : e = [op |-> "String", s |-> s]
    BY <1>5
  <2>2. t = [t |-> "string", s |-> s]
    BY <2>1 DEF Written
  <2>3. t.t = "string" /\ t.s = s
    BY <2>2
  <2>4. StringEvent("String", t) = e
    BY <2>1, <2>3, Zenon DEF StringEvent
  <2>5. ReadBack(e) = e
    BY <2>1 DEF ReadBack
  <2>6. t.t \notin Marks \cup {"junk", "end"}
    BY <2>3 DEF Marks
  <2> QED BY <2>3, <2>4, <2>5, <2>6 DEF TooBig, StringError, IsScalar, IsString
<1>6. CASE e \in {[op |-> "Int32", n |-> n] : n \in {i \in Int : IsInt32(i)}}
  <2>1. PICK n \in Int : e = [op |-> "Int32", n |-> n] /\ IsInt32(n)
    BY <1>6
  <2>2. t = Itoa(n) /\ Magnitude(n) < Twos[64]
    BY <2>1, NumbersFit DEF Written
  <2>3. ReadBack(e) = [op |-> "Int32", n |-> n]
    BY <2>1 DEF ReadBack
  <2> QED BY <1>2, <2>1, <2>2, <2>3
<1>7. CASE e \in {[op |-> "Int64", n |-> n] : n \in {i \in Int : Magnitude(i) < Twos[64]}}
  <2>1. PICK n \in Int : e = [op |-> "Int64", n |-> n] /\ Magnitude(n) < Twos[64]
    BY <1>7
  <2>2. t = Itoa(n)
    BY <2>1 DEF Written
  <2>3. ReadBack(e) = [op |-> IF IsInt32(n) THEN "Int32" ELSE "Int64", n |-> n]
    <3>1. e.op = "Int64" /\ e.n = n
      BY <2>1
    <3>2. CASE IsInt32(n)
      BY <3>1, <3>2, Zenon DEF ReadBack
    <3>3. CASE ~IsInt32(n)
      BY <2>1, <3>1, <3>3 DEF ReadBack
    <3> QED BY <3>2, <3>3
  <2> QED BY <1>2, <2>1, <2>2, <2>3
<1> QED BY <1>3, <1>4, <1>4a, <1>5, <1>6, <1>7 DEF ScalarEvents

\* Reader has read the events up to s, where the text has the length p.
KeysOf(l) == {KeyEvent(x) : x \in l.keys}
TypeOfLevel(l) == IF l.inArray THEN "array" ELSE "object"
Alike(s, fs, ds) ==
  /\ Len(fs) = Len(s)
  /\ \A j \in 1 .. Len(s) :
       /\ fs[j] = TypeOfLevel(s[j])
       /\ ds[j].count = s[j].valueCount
       /\ ds[j].keys \subseteq KeysOf(s[j])
  /\ \A j \in 1 .. Len(s) : j # Len(s) => s[j].valueCount > 0

\* The key before a value is a new one.
NewKey(s, ds, k) ==
  IsOdd(s) => k \notin ds[Len(s)].keys /\ k \in KeysOf(s[Len(s)])

\* A comma or a colon has been read.
Marked == want = "key" \/ (want = "value" /\ frames # <<>>)
Firsts == {"firstElement", "firstKey"}

Follows(k, s, p) ==
  /\ doc = [i \in 1 .. k |-> ReadBack(written[i])]
  /\ Alike(s, frames, dstack) /\ NewKey(s, dstack, key)
  /\ pos = IF Marked THEN p + 1 ELSE p
  /\ Marked => k < Len(written) /\ written[k + 1].op \notin Ends
  /\ s # <<>> => (want \in Firsts <=> s[Len(s)].valueCount = 0)

\* Where Reader and Document are, in the terms of Writer.
LEMMA Places ==
  ASSUME ReaderInv, status = "reading",
         NEW s \in Seq(WriterLevel), Alike(s, frames, dstack)
  PROVE  /\ Len(s) \in Nat /\ Len(frames) = Len(s) /\ Len(dstack) = Len(s)
         /\ (s = <<>> <=> frames = <<>>) /\ (s = <<>> <=> dstack = <<>>)
         /\ s = <<>> => want \in {"value", "after"} /\ (want = "value" <=> doc = <<>>)
         /\ s # <<>> =>
              /\ doc # <<>> /\ Len(s) \in 1 .. Len(s) /\ Top = dstack[Len(s)]
              /\ s[Len(s)].valueCount \in Nat /\ s[Len(s)].inArray \in BOOLEAN
              /\ s[Len(s)].keys \in SUBSET AllKeys
              /\ InArray <=> s[Len(s)].inArray
              /\ s[Len(s)].inArray => want \in {"firstElement", "value", "after"}
         /\ InObject <=> InObjectOf(s)
         /\ KeyExpected <=> InObjectOf(s) /\ ~IsOdd(s)
         /\ IsOdd(s) => want \in {"colon", "value"}
         /\ InObjectOf(s) /\ ~IsOdd(s) => want \in {"firstKey", "key", "after"}
<1>1. PICK n \in Nat : n = Len(s)
  OBVIOUS
<1>2. ReaderTypes /\ Nested(frames, dstack) /\ Fits(frames, dstack, want, doc)
  BY DEF ReaderInv
<1>3. frames \in Seq(Containers) /\ dstack \in Seq(Level)
  BY <1>2 DEF ReaderTypes
<1>4. n = Len(frames) /\ n = Len(dstack)
  BY <1>1, <1>2 DEF Nested, Alike
<1>5. (s = <<>> <=> frames = <<>>) /\ (s = <<>> <=> dstack = <<>>) /\ (s = <<>> <=> n = 0)
  <2>1. s = <<>> <=> n = 0
    BY <1>1
  <2>2. frames = <<>> <=> n = 0
    <3>1. frames \in Seq(Containers)
      BY <1>3
    <3>2. frames = <<>> <=> Len(frames) = 0
      BY <3>1, EmptySeq
    <3> QED BY <1>4, <3>2, Zenon
  <2>3. dstack = <<>> <=> n = 0
    BY <1>3, <1>4
  <2> QED BY <2>1, <2>2, <2>3
<1>6. s = <<>> => want \in {"value", "after"} /\ (want = "value" <=> doc = <<>>)
  BY <1>2, <1>5 DEF Fits
<1>7. CASE s = <<>>
  BY <1>1, <1>4, <1>5, <1>6, <1>7 DEF InObject, KeyExpected, InObjectOf, IsOdd
<1>8. CASE s # <<>>
  <2>1. n \in 1 .. n
    BY <1>5, <1>8
  <2>2. s[n] \in WriterLevel
    BY <1>1, <2>1
  <2>3. s[n].valueCount \in Nat /\ s[n].inArray \in BOOLEAN /\ s[n].keys \in SUBSET AllKeys
    BY <2>2 DEF WriterLevel
  <2>4. frames[n] = TypeOfLevel(s[n]) /\ dstack[n].count = s[n].valueCount
    BY <1>1, <2>1 DEF Alike
  <2>5. dstack[n].type = frames[n]
    BY <1>2, <1>4, <2>1 DEF Nested
  <2>6. Top = dstack[n] /\ Last(frames) = frames[n]
    BY <1>4 DEF Top, Last
  <2>7. InArray <=> s[n].inArray
    BY <1>5, <1>8, <2>3, <2>4, <2>6 DEF InArray, TypeOfLevel
  <2>8. InObject <=> ~s[n].inArray
    BY <1>5, <1>8, <2>3, <2>4, <2>5, <2>6 DEF InObject, TypeOfLevel
  <2>9. KeyExpected <=> ~s[n].inArray /\ s[n].valueCount % 2 = 0
    BY <2>4, <2>6, <2>8 DEF KeyExpected
  <2>10. s[n].valueCount % 2 = 0 \/ s[n].valueCount % 2 = 1
    BY <2>3
  <2>11. InObjectOf(s) <=> ~s[n].inArray
    BY <1>1, <1>8 DEF InObjectOf
  <2>12. IsOdd(s) <=> ~s[n].inArray /\ s[n].valueCount % 2 = 1
    BY <1>1, <2>11 DEF IsOdd
  <2>13. doc # <<>>
    BY <1>2, <1>5, <1>8 DEF Fits
  <2>14. s[n].inArray => want \in {"firstElement", "value", "after"}
    BY <1>2, <1>4, <1>5, <1>8, <2>4 DEF Fits, TypeOfLevel
  <2>15. ~s[n].inArray =>
           \/ want \in {"firstKey", "key", "after"} /\ s[n].valueCount % 2 = 0
           \/ want \in {"colon", "value"} /\ s[n].valueCount % 2 = 1
    BY <1>2, <1>4, <1>5, <1>8, <2>4 DEF Fits, TypeOfLevel
  <2>16. IsOdd(s) => want \in {"colon", "value"}
    BY <2>12, <2>15
  <2>17. InObjectOf(s) /\ ~IsOdd(s) => want \in {"firstKey", "key", "after"}
    BY <2>11, <2>12, <2>15
  <2>18. KeyExpected <=> InObjectOf(s) /\ ~IsOdd(s)
    BY <2>9, <2>10, <2>11, <2>12
  <2> QED BY <1>1, <1>4, <1>5, <1>8, <2>1, <2>3, <2>6, <2>7, <2>8, <2>11, <2>13, <2>14,
             <2>16, <2>17, <2>18, Zenon
<1> QED BY <1>7, <1>8

\* Counting keeps Document like Writer.
LEMMA AlikeCounted ==
  ASSUME ReaderInv, status = "reading",
         NEW s \in Seq(WriterLevel), Alike(s, frames, dstack), NewKey(s, dstack, key),
         NEW ks \in SUBSET AllKeys, NEW c, c = CountedOn(s, ks)
  PROVE  /\ c \in Seq(WriterLevel) /\ Alike(c, frames, AddedTo) /\ Len(c) = Len(s)
         /\ \A j \in 1 .. Len(c) : c[j].valueCount > 0
         /\ ~IsOdd(s) /\ s # <<>> => AddedTo[Len(s)].keys \subseteq KeysOf(s[Len(s)])
<1>1. PICK n \in Nat : n = Len(s) /\ n = Len(frames) /\ n = Len(dstack)
  BY Places
<1>2. ReaderTypes
  BY DEF ReaderInv
<1>3. c \in Seq(WriterLevel)
  BY CountedStep
<1>4. CASE s = <<>>
  <2>1. c = <<>>
    BY <1>4 DEF CountedOn
  <2>2. Len(c) = 0 /\ n = 0
    BY <1>1, <1>4, <2>1
  <2>3. 1 .. 0 = {}
    OBVIOUS
  <2>4. Alike(c, frames, AddedTo)
    BY <1>1, <2>2, <2>3, Zenon DEF Alike
  <2> QED BY <1>1, <1>3, <1>4, <2>2, <2>3, <2>4, Zenon
<1>5. CASE s # <<>>
  <2>1. n \in 1 .. n /\ dstack # <<>> /\ Top = dstack[n]
    BY <1>1, <1>5, Places
  <2>2. PICK a : a = AddedTo
    OBVIOUS
  <2>3. /\ Len(c) = n /\ c[n].inArray = s[n].inArray
        /\ c[n].valueCount = s[n].valueCount + 1 /\ c[n].keys = s[n].keys \cup ks
        /\ \A i \in 1 .. n - 1 : c[i] = s[i]
    BY <1>1, <1>5, CountedStep, Zenon
  <2>4. /\ a[n].count = dstack[n].count + 1
        /\ a[n].keys = IF InObject /\ ~KeyExpected THEN Top.keys \cup {key} ELSE Top.keys
        /\ \A i \in 1 .. n - 1 : a[i] = dstack[i]
    BY <1>1, <1>2, <2>1, <2>2, AddedStep, Zenon
  <2>5. /\ \A j \in 1 .. n : /\ frames[j] = TypeOfLevel(s[j])
                             /\ dstack[j].count = s[j].valueCount
                             /\ dstack[j].keys \subseteq KeysOf(s[j])
        /\ \A j \in 1 .. n : j # n => s[j].valueCount > 0
    BY <1>1, Zenon DEF Alike
  <2>6. InObject /\ ~KeyExpected <=> IsOdd(s)
    <3>1. /\ InObject <=> InObjectOf(s)
          /\ KeyExpected <=> InObjectOf(s) /\ ~IsOdd(s)
      BY Places, Zenon
    <3> QED BY <3>1 DEF IsOdd
  <2>7. a[n].keys \subseteq KeysOf(s[n])
    <3>1. CASE IsOdd(s)
      <4>1. key \in KeysOf(s[n])
        BY <1>1, <3>1 DEF NewKey
      <4> QED BY <2>1, <2>4, <2>5, <2>6, <3>1, <4>1
    <3>2. CASE ~IsOdd(s)
      BY <2>1, <2>4, <2>5, <2>6, <3>2
    <3> QED BY <3>1, <3>2
  <2>8. KeysOf(s[n]) \subseteq KeysOf(c[n])
    BY <2>3 DEF KeysOf
  <2>9. TypeOfLevel(c[n]) = TypeOfLevel(s[n])
    BY <2>3 DEF TypeOfLevel
  <2>10. s[n].valueCount \in Nat
    BY <1>1, <1>5, Places, Zenon
  <2>11. c[n].valueCount > 0
    BY <2>3, <2>10
  <2>12. ASSUME NEW j \in 1 .. n
         PROVE  /\ frames[j] = TypeOfLevel(c[j])
                /\ a[j].count = c[j].valueCount
                /\ a[j].keys \subseteq KeysOf(c[j])
                /\ c[j].valueCount > 0
    <3>1. CASE j = n
      <4>1. a[n].keys \subseteq KeysOf(c[n])
        BY <2>7, <2>8
      <4>2. a[n].count = c[n].valueCount
        BY <2>1, <2>3, <2>4, <2>5
      <4>3. frames[n] = TypeOfLevel(c[n])
        BY <2>1, <2>5, <2>9
      <4> QED BY <2>11, <3>1, <4>1, <4>2, <4>3
    <3>2. CASE j # n
      <4>1. j \in 1 .. n - 1
        BY <1>1, <3>2
      <4>2. c[j] = s[j] /\ a[j] = dstack[j]
        BY <2>3, <2>4, <4>1
      <4> QED BY <2>5, <3>2, <4>2
    <3> QED BY <3>1, <3>2
  <2>13. Alike(c, frames, a)
    BY <1>1, <2>3, <2>12, Zenon DEF Alike
  <2> QED BY <1>1, <1>3, <2>2, <2>3, <2>7, <2>12, <2>13, Zenon
<1> QED BY <1>4, <1>5

\* One more event of the Document.
LEMMA DocGrows ==
  ASSUME NEW k \in Nat, NEW d, NEW w, NEW x,
         d = [i \in 1 .. k |-> ReadBack(w[i])], x = ReadBack(w[k + 1])
  PROVE  Append(d, x) = [i \in 1 .. k + 1 |-> ReadBack(w[i])]
<1>1. PICK S : S = {d[i] : i \in 1 .. k} \cup {x}
  OBVIOUS
<1>2. x \in S /\ d \in [1 .. k -> S]
  BY <1>1
<1>3. d \in Seq(S) /\ Len(d) = k
  BY <1>2
<1>4. PICK a : a = Append(d, x)
  OBVIOUS
<1>5. a \in Seq(S) /\ Len(a) = k + 1
  BY <1>2, <1>3, <1>4, AppendProperties
<1>6. \A i \in 1 .. k : a[i] = d[i]
  BY <1>2, <1>3, <1>4, AppendProperties
<1>7. a[k + 1] = x
  BY <1>2, <1>3, <1>4, AppendProperties
<1>8. \A i \in 1 .. k + 1 : a[i] = ReadBack(w[i])
  <2>1. \A i \in 1 .. k + 1 : i \in 1 .. k \/ i = k + 1
    OBVIOUS
  <2> QED BY <1>6, <1>7, <2>1
<1>9. a = [i \in 1 .. k + 1 |-> a[i]]
  BY <1>5
<1> QED BY <1>4, <1>8, <1>9

\* Document accepts what is due.
LEMMA AcceptsDue ==
  ASSUME ReaderInv, status = "reading",
         NEW s \in Seq(WriterLevel), Alike(s, frames, dstack), NewKey(s, dstack, key),
         NEW e, DueOn(s, e), e.op \notin Ends, s = <<>> => doc = <<>>,
         NEW isString \in BOOLEAN, e.op = "Key" => isString
  PROVE  /\ Accepts(isString)
         /\ KeyExpected <=> e.op = "Key"
         /\ e.op # "Key" /\ s # <<>> => s[Len(s)].inArray \/ IsOdd(s)
<1>1. /\ s = <<>> <=> dstack = <<>>
      /\ s # <<>> => Top = dstack[Len(s)]
      /\ InObject <=> InObjectOf(s)
      /\ KeyExpected <=> InObjectOf(s) /\ ~IsOdd(s)
  BY Places, Zenon
<1>2. doc # <<>> => dstack # <<>>
  BY <1>1
<1>3. InObjectOf(s) /\ ~IsOdd(s) => e.op = "Key"
  BY DEF DueOn, Ends
<1>4. e.op = "Key" => InObjectOf(s) /\ ~IsOdd(s)
  BY DEF DueOn, InObjectOf
<1>5. InObject /\ ~KeyExpected => key \notin Top.keys
  <2>1. IsOdd(s) => s # <<>>
    BY DEF IsOdd, InObjectOf
  <2>2. IsOdd(s) => key \notin dstack[Len(s)].keys
    BY DEF NewKey
  <2> QED BY <1>1, <2>1, <2>2
<1>6. s # <<>> /\ ~s[Len(s)].inArray => InObjectOf(s)
  BY DEF InObjectOf
<1> QED BY <1>1, <1>2, <1>3, <1>4, <1>5, <1>6, Zenon DEF Accepts

\* A scalar is no key, no start and no end.
LEMMA ScalarOps ==
  ASSUME NEW e \in ScalarEvents
  PROVE  e.op \notin Starts \cup Ends \cup {"Key"}
BY ScalarKinds DEF Starts, Ends

\* A scalar is read,
LEMMA FollowsScalar ==
  ASSUME ReaderInv, status = "reading",
         NEW k \in Nat, k < Len(written), NEW p \in Nat, NEW q \in Nat, pos + 1 = q,
         NEW s \in Seq(WriterLevel), Follows(k, s, p), s = <<>> => k = 0,
         NEW e \in ScalarEvents, e = written[k + 1], DueOn(s, e),
         NEW isString \in BOOLEAN, AddValue(ReadBack(e), isString, <<>>),
         Go("after"), UNCHANGED <<frames, written>>,
         NEW r, r = StackAfter(s, e)
  PROVE  status' = "reading" /\ Follows(k + 1, r, q)'
<1>1. /\ doc = [i \in 1 .. k |-> ReadBack(written[i])]
      /\ Alike(s, frames, dstack) /\ NewKey(s, dstack, key)
  BY Zenon DEF Follows
<1>2. e.op \notin Starts \cup Ends \cup {"Key"}
  BY ScalarOps
<1>3. s = <<>> => doc = <<>>
  BY <1>1
<1>4. Accepts(isString) /\ ~KeyExpected /\ (s # <<>> => s[Len(s)].inArray \/ IsOdd(s))
  BY <1>1, <1>2, <1>3, AcceptsDue
<1>5. doc' = Append(doc, ReadBack(e)) /\ dstack' = AddedTo \o <<>> /\ key' = key
      /\ status' = status
  BY <1>4, Zenon DEF AddValue
<1>6. dstack' = AddedTo
  <2>1. AddedTo \in Seq(Level)
    BY AddedStep DEF ReaderInv
  <2> QED BY <1>5, <2>1
<1>7. r = CountedOn(s, {})
  BY <1>2 DEF StackAfter
<1>8. /\ r \in Seq(WriterLevel) /\ Alike(r, frames, AddedTo) /\ Len(r) = Len(s)
      /\ \A j \in 1 .. Len(r) : r[j].valueCount > 0
  BY <1>1, <1>7, AlikeCounted
<1>9. doc' = [i \in 1 .. k + 1 |-> ReadBack(written'[i])]
  <2>1. doc' = [i \in 1 .. k + 1 |-> ReadBack(written[i])]
    BY <1>1, <1>5, DocGrows
  <2> QED BY <2>1
<1>10. ~IsOdd(r)
  <2>1. CASE s = <<>>
    <3>1. r = <<>>
      BY <1>7, <2>1 DEF CountedOn
    <3> QED BY <3>1 DEF IsOdd, InObjectOf
  <2>2. CASE s # <<>>
    <3>1. /\ Len(r) = Len(s) /\ r[Len(s)].inArray = s[Len(s)].inArray
          /\ r[Len(s)].valueCount = s[Len(s)].valueCount + 1
      <4>1. {} \in SUBSET AllKeys
        OBVIOUS
      <4>2. LET c == CountedOn(s, {}) IN
              /\ Len(c) = Len(s) /\ c[Len(s)].inArray = s[Len(s)].inArray
              /\ c[Len(s)].valueCount = s[Len(s)].valueCount + 1
        BY <2>2, <4>1, CountedStep
      <4> QED BY <1>7, <4>2, Zenon
    <3>2. s[Len(s)].valueCount \in Nat
      BY <1>1, <2>2, Places, Zenon
    <3>3. s[Len(s)].valueCount % 2 = 1 => (s[Len(s)].valueCount + 1) % 2 # 1
      BY <3>2
    <3> QED BY <1>4, <2>2, <3>1, <3>3 DEF IsOdd, InObjectOf
  <2> QED BY <2>1, <2>2
<1>11. NewKey(r, AddedTo, key)
  BY <1>10 DEF NewKey
<1>12. want' = "after" /\ pos' = q
  BY DEF Go
<1>13. ~Marked'
  BY <1>12 DEF Marked
<1>14. r # <<>> => (want' \in Firsts <=> r[Len(r)].valueCount = 0)
  <2>1. want' \notin Firsts
    BY <1>12 DEF Firsts
  <2>2. r # <<>> => r[Len(r)].valueCount > 0
    BY <1>8
  <2> QED BY <2>1, <2>2
<1> QED BY <1>5, <1>6, <1>8, <1>9, <1>11, <1>12, <1>13, <1>14, Zenon DEF Follows

\* a key,
LEMMA FollowsKey ==
  ASSUME ReaderInv, status = "reading",
         NEW k \in Nat, k < Len(written), NEW p \in Nat, NEW q \in Nat, pos + 1 = q,
         NEW s \in Seq(WriterLevel), Follows(k, s, p),
         NEW e, e = KeyEvent(e.s), e.s \in AllKeys, e = written[k + 1], DueOn(s, e),
         AddValue(e, TRUE, <<>>),
         Go("colon"), UNCHANGED <<frames, written>>,
         NEW r, r = StackAfter(s, e)
  PROVE  status' = "reading" /\ Follows(k + 1, r, q)'
<1>1. /\ doc = [i \in 1 .. k |-> ReadBack(written[i])]
      /\ Alike(s, frames, dstack) /\ NewKey(s, dstack, key)
  BY Zenon DEF Follows
<1>2. e.op = "Key" /\ e.op \notin Ends /\ e.op \notin Starts
  BY DEF KeyEvent, Starts, Ends
<1>3. s # <<>> /\ InObjectOf(s) /\ ~IsOdd(s) /\ e.s \notin s[Len(s)].keys
  BY <1>2 DEF DueOn, InObjectOf, Ends
<1>4. Accepts(TRUE) /\ KeyExpected
  <2>1. TRUE \in BOOLEAN
    OBVIOUS
  <2> QED BY <1>1, <1>2, <1>3, <2>1, AcceptsDue, Zenon
<1>5. doc' = Append(doc, e) /\ dstack' = AddedTo \o <<>> /\ key' = e /\ status' = status
  BY <1>4, Zenon DEF AddValue
<1>6. dstack' = AddedTo
  <2>1. AddedTo \in Seq(Level)
    BY AddedStep DEF ReaderInv
  <2> QED BY <1>5, <2>1
<1>7. PICK ks \in SUBSET AllKeys : ks = {e.s}
  OBVIOUS
<1>8. r = CountedOn(s, ks)
  BY <1>2, <1>7 DEF StackAfter
<1>9. /\ r \in Seq(WriterLevel) /\ Alike(r, frames, AddedTo) /\ Len(r) = Len(s)
      /\ \A j \in 1 .. Len(r) : r[j].valueCount > 0
      /\ AddedTo[Len(s)].keys \subseteq KeysOf(s[Len(s)])
  BY <1>1, <1>3, <1>8, AlikeCounted
<1>10. ReadBack(e) = e
  BY <1>2 DEF ReadBack
<1>11. doc' = [i \in 1 .. k + 1 |-> ReadBack(written'[i])]
  <2>1. doc' = [i \in 1 .. k + 1 |-> ReadBack(written[i])]
    BY <1>1, <1>5, <1>10, DocGrows
  <2> QED BY <2>1
<1>12. NewKey(r, AddedTo, e)
  <2>1. r[Len(s)].keys = s[Len(s)].keys \cup ks
    BY <1>3, <1>8, CountedStep, Zenon
  <2>2. e \in KeysOf(r[Len(s)])
    BY <1>7, <2>1 DEF KeysOf
  <2>3. e \notin KeysOf(s[Len(s)])
    <3>1. \A x : KeyEvent(x).s = x
      BY DEF KeyEvent
    <3> QED BY <1>3, <3>1 DEF KeysOf
  <2>4. e \notin AddedTo[Len(s)].keys
    BY <1>9, <2>3
  <2> QED BY <1>9, <2>2, <2>4, Zenon DEF NewKey
<1>13. want' = "colon" /\ pos' = q
  BY DEF Go
<1>14. ~Marked'
  BY <1>13 DEF Marked
<1>15. r # <<>> => (want' \in Firsts <=> r[Len(r)].valueCount = 0)
  <2>1. want' \notin Firsts
    BY <1>13 DEF Firsts
  <2>2. r # <<>> => r[Len(r)].valueCount > 0
    BY <1>9
  <2> QED BY <2>1, <2>2
<1> QED BY <1>5, <1>6, <1>9, <1>11, <1>12, <1>13, <1>14, <1>15, Zenon DEF Follows

\* a comma or a colon,
LEMMA FollowsMark ==
  ASSUME ReaderInv, status = "reading",
         NEW k \in Nat, k < Len(written), written[k + 1].op \notin Ends,
         NEW p \in Nat, NEW s \in Seq(WriterLevel), Follows(k, s, p), s # <<>>, pos = p,
         s[Len(s)].valueCount > 0,
         NEW next \in {"value", "key"}, Skip(next), UNCHANGED written
  PROVE  status' = "reading" /\ Follows(k, s, p)'
<1>1. /\ doc = [i \in 1 .. k |-> ReadBack(written[i])]
      /\ Alike(s, frames, dstack) /\ NewKey(s, dstack, key)
  BY Zenon DEF Follows
<1>2. UNCHANGED <<status, frames, doc, dstack, key>> /\ pos' = pos + 1 /\ want' = next
  BY DEF Skip, Go, documentVars
<1>3. frames # <<>>
  BY <1>1, Places
<1>4. Marked'
  BY <1>2, <1>3 DEF Marked
<1>5. want' \notin Firsts
  BY <1>2 DEF Firsts
<1>6. s[Len(s)].valueCount # 0
  <2>1. s[Len(s)].valueCount \in Nat
    BY <1>1, Places
  <2> QED BY <2>1
<1>7. pos' = p + 1
  BY <1>2
<1> QED BY <1>1, <1>2, <1>4, <1>5, <1>6, <1>7, Zenon DEF Follows

\* the end of an array or an object,
LEMMA FollowsClose ==
  ASSUME ReaderInv, status = "reading",
         NEW k \in Nat, k < Len(written), NEW p \in Nat, NEW q \in Nat, pos + 1 = q,
         NEW s \in Seq(WriterLevel), Follows(k, s, p),
         NEW e, e.op \in Ends, e = Plain(e.op), e = written[k + 1], DueOn(s, e),
         Close(IF e.op = "EndArray" THEN "array" ELSE "object"), UNCHANGED written,
         NEW r, r = StackAfter(s, e)
  PROVE  status' = "reading" /\ Follows(k + 1, r, q)'
<1>1. /\ doc = [i \in 1 .. k |-> ReadBack(written[i])]
      /\ Alike(s, frames, dstack) /\ NewKey(s, dstack, key)
  BY Zenon DEF Follows
<1>2. PICK n \in Nat : n = Len(s) /\ n = Len(frames) /\ n = Len(dstack)
  BY <1>1, Places
<1>3. s # <<>> /\ n \in 1 .. n
  <2>1. s # <<>>
    BY DEF DueOn
  <2> QED BY <1>1, <1>2, <2>1, Places
<1>4. frames # <<>> /\ dstack # <<>> /\ Top = dstack[n] /\ s[n].inArray \in BOOLEAN
  BY <1>1, <1>2, <1>3, Places
<1>5. s[n].inArray <=> e.op = "EndArray"
  BY <1>2, <1>3, <1>4 DEF DueOn, InObjectOf, Ends
<1>6. ReaderTypes /\ Nested(frames, dstack)
  BY DEF ReaderInv
<1>7. frames \in Seq(Containers) /\ dstack \in Seq(Level)
  BY <1>6 DEF ReaderTypes
<1>8. PICK type : type = IF e.op = "EndArray" THEN "array" ELSE "object"
  OBVIOUS
<1>9. Top.type = type
  <2>1. dstack[n].type = frames[n]
    BY <1>2, <1>3, <1>6 DEF Nested
  <2>2. frames[n] = TypeOfLevel(s[n])
    BY <1>1, <1>2, <1>3 DEF Alike
  <2> QED BY <1>4, <1>5, <1>8, <2>1, <2>2 DEF TypeOfLevel
<1>10. Close(type)
  BY <1>8, Zenon
<1>11. /\ doc' = Append(doc, Plain(IF type = "array" THEN "EndArray" ELSE "EndObject"))
       /\ dstack' = Front(dstack) /\ key' = key /\ status' = status
       /\ want' = "after" /\ pos' = pos + 1 /\ frames' = Front(frames)
  BY <1>4, <1>9, <1>10 DEF Close, End, Go
<1>12. Plain(IF type = "array" THEN "EndArray" ELSE "EndObject") = e
  <2>1. (IF type = "array" THEN "EndArray" ELSE "EndObject") = e.op
    BY <1>8 DEF Ends
  <2> QED BY <2>1, Zenon
<1>13. ReadBack(e) = e
  <2>1. e.op \notin {"Int64", "Double"}
    BY DEF Ends
  <2> QED BY <2>1 DEF ReadBack
<1>14. doc' = [i \in 1 .. k + 1 |-> ReadBack(written'[i])]
  <2>1. doc' = [i \in 1 .. k + 1 |-> ReadBack(written[i])]
    BY <1>1, <1>11, <1>12, <1>13, DocGrows
  <2> QED BY <2>1
<1>15. r = Front(s)
  BY DEF StackAfter, Ends, Starts
<1>16. r \in Seq(WriterLevel) /\ Len(r) = n - 1 /\ \A i \in 1 .. n - 1 : r[i] = s[i]
  <2>1. s \in Seq(WriterLevel) /\ s # <<>>
    BY <1>3
  <2>2. /\ Front(s) \in Seq(WriterLevel) /\ Len(Front(s)) = Len(s) - 1
        /\ \A i \in 1 .. Len(s) - 1 : Front(s)[i] = s[i]
    BY <2>1, LastOfSequence
  <2> QED BY <1>2, <1>15, <2>2, Zenon
<1>17. PICK f : f = Front(frames)
  OBVIOUS
<1>18. PICK d : d = Front(dstack)
  OBVIOUS
<1>19. Len(f) = n - 1 /\ \A i \in 1 .. n - 1 : f[i] = frames[i]
  <2>1. frames \in Seq(Containers) /\ frames # <<>>
    BY <1>4, <1>7
  <2>2. /\ Front(frames) \in Seq(Containers) /\ Len(Front(frames)) = Len(frames) - 1
        /\ \A i \in 1 .. Len(frames) - 1 : Front(frames)[i] = frames[i]
    BY <2>1, LastOfSequence
  <2> QED BY <1>2, <1>17, <2>2, Zenon
<1>20. Len(d) = n - 1 /\ \A i \in 1 .. n - 1 : d[i] = dstack[i]
  <2>1. dstack \in Seq(Level) /\ dstack # <<>>
    BY <1>4, <1>7
  <2>2. /\ Front(dstack) \in Seq(Level) /\ Len(Front(dstack)) = Len(dstack) - 1
        /\ \A i \in 1 .. Len(dstack) - 1 : Front(dstack)[i] = dstack[i]
    BY <2>1, LastOfSequence
  <2> QED BY <1>2, <1>18, <2>2, Zenon
<1>21. ASSUME NEW j \in 1 .. n - 1
       PROVE  /\ f[j] = TypeOfLevel(r[j])
              /\ d[j].count = r[j].valueCount
              /\ d[j].keys \subseteq KeysOf(r[j])
              /\ r[j].valueCount > 0
  <2>1. j \in 1 .. n /\ j # n
    BY <1>2
  <2>2. /\ frames[j] = TypeOfLevel(s[j]) /\ dstack[j].count = s[j].valueCount
        /\ dstack[j].keys \subseteq KeysOf(s[j]) /\ s[j].valueCount > 0
    BY <1>1, <1>2, <2>1, Zenon DEF Alike
  <2> QED BY <1>16, <1>19, <1>20, <2>2
<1>22. Alike(r, f, d)
  BY <1>16, <1>19, <1>21, Zenon DEF Alike
<1>23. ~IsOdd(r)
  <2>1. CASE n = 1
    BY <1>16, <2>1 DEF IsOdd, InObjectOf
  <2>2. CASE n # 1
    <3>1. n - 1 \in 1 .. n - 1 /\ n - 1 \in 1 .. n /\ n - 1 < n
      BY <1>2, <1>3, <2>2
    <3>2. frames[n - 1] = "object" => dstack[n - 1].count % 2 = 0
      BY <1>2, <1>6, <3>1, Zenon DEF Nested
    <3>3. f[n - 1] = TypeOfLevel(r[n - 1]) /\ d[n - 1].count = r[n - 1].valueCount
      BY <1>21, <3>1
    <3>4. f[n - 1] = frames[n - 1] /\ d[n - 1] = dstack[n - 1]
      BY <1>19, <1>20, <3>1
    <3> QED BY <1>16, <3>2, <3>3, <3>4 DEF IsOdd, InObjectOf, TypeOfLevel
  <2> QED BY <2>1, <2>2
<1>24. NewKey(r, d, key)
  BY <1>23 DEF NewKey
<1>25. ~Marked'
  BY <1>11 DEF Marked
<1>26. r # <<>> => (want' \in Firsts <=> r[Len(r)].valueCount = 0)
  <2>1. want' \notin Firsts
    BY <1>11 DEF Firsts
  <2>2. r # <<>> => n - 1 \in 1 .. n - 1
    BY <1>16
  <2>3. r # <<>> => r[n - 1].valueCount > 0
    BY <1>21, <2>2
  <2> QED BY <1>16, <2>1, <2>3
<1>27. pos' = q
  BY <1>11
<1> QED BY <1>11, <1>14, <1>17, <1>18, <1>22, <1>24, <1>25, <1>26, <1>27, Zenon DEF Follows

\* and the start of one.
LEMMA FollowsOpen ==
  ASSUME ReaderInv, status = "reading",
         NEW k \in Nat, k < Len(written), NEW p \in Nat, NEW q \in Nat, pos + 1 = q,
         NEW s \in Seq(WriterLevel), Follows(k, s, p), s = <<>> => k = 0,
         NEW e, e.op \in Starts, e = Plain(e.op), e = written[k + 1], DueOn(s, e),
         NEW type, type = IF e.op = "StartArray" THEN "array" ELSE "object",
         Start(type), frames' = Append(frames, type),
         NEW next \in Firsts, Go(next), UNCHANGED written,
         NEW r, r = StackAfter(s, e)
  PROVE  status' = "reading" /\ Follows(k + 1, r, q)'
<1>1. /\ doc = [i \in 1 .. k |-> ReadBack(written[i])]
      /\ Alike(s, frames, dstack) /\ NewKey(s, dstack, key)
  BY Zenon DEF Follows
<1>2. e.op \notin Ends \cup {"Key"}
  BY DEF Starts, Ends
<1>3. s = <<>> => doc = <<>>
  BY <1>1
<1>4. Accepts(FALSE) /\ ~KeyExpected
  BY <1>1, <1>2, <1>3, AcceptsDue
<1>5. PICK l : l = [type |-> type, count |-> 0, keys |-> {}]
  OBVIOUS
<1>6. Plain(IF type = "array" THEN "StartArray" ELSE "StartObject") = e
  <2>1. (IF type = "array" THEN "StartArray" ELSE "StartObject") = e.op
    BY DEF Starts
  <2> QED BY <2>1, Zenon
<1>7. AddValue(e, FALSE, <<l>>)
  BY <1>5, <1>6, Zenon DEF Start
<1>8. doc' = Append(doc, e) /\ dstack' = AddedTo \o <<l>> /\ key' = key /\ status' = status
  BY <1>4, <1>7, Zenon DEF AddValue
<1>9. PICK c : c = CountedOn(s, {})
  OBVIOUS
<1>10. PICK n \in Nat : n = Len(s) /\ n = Len(frames) /\ n = Len(dstack)
  BY <1>1, Places
<1>11. /\ c \in Seq(WriterLevel) /\ Alike(c, frames, AddedTo) /\ Len(c) = n
       /\ \A j \in 1 .. n : c[j].valueCount > 0
  BY <1>1, <1>9, <1>10, AlikeCounted
<1>12. PICK w : w = [inArray |-> e.op = "StartArray", valueCount |-> 0, keys |-> {}]
  OBVIOUS
<1>13. w \in WriterLevel /\ w.valueCount = 0 /\ TypeOfLevel(w) = type
  BY <1>12 DEF WriterLevel, TypeOfLevel
<1>14. r = Append(c, w)
  BY <1>9, <1>12, Zenon DEF StackAfter
<1>15. r \in Seq(WriterLevel) /\ Len(r) = n + 1 /\ r[n + 1] = w
       /\ \A i \in 1 .. n : r[i] = c[i]
  BY <1>11, <1>13, <1>14, AppendProperties
<1>16. PICK a \in Seq(Level) : a = AddedTo
  BY AddedStep DEF ReaderInv
<1>17. Len(a) = n
  <2>1. Nested(frames, a)
    BY <1>16, NestedAdded DEF ReaderInv
  <2> QED BY <1>10, <2>1 DEF Nested
<1>18. type \in Containers
  BY DEF Containers
<1>19. l \in Level /\ l.count = 0 /\ l.keys = {}
  BY <1>5, <1>18 DEF Level
<1>20. PICK d : d = a \o <<l>>
  OBVIOUS
<1>21. Len(d) = n + 1 /\ d[n + 1] = l /\ \A i \in 1 .. n : d[i] = a[i]
  <2>1. /\ Len(a \o <<l>>) = Len(a) + 1
        /\ (a \o <<l>>)[Len(a) + 1] = l
        /\ \A i \in 1 .. Len(a) : (a \o <<l>>)[i] = a[i]
    BY <1>19, Behind
  <2> QED BY <1>17, <1>20, <2>1, Zenon
<1>22. PICK f : f = Append(frames, type)
  OBVIOUS
<1>23. Len(f) = n + 1 /\ f[n + 1] = type /\ \A i \in 1 .. n : f[i] = frames[i]
  <2>1. frames \in Seq(Containers)
    BY DEF ReaderInv, ReaderTypes
  <2>2. Len(Append(frames, type)) = Len(frames) + 1
    BY <1>18, <2>1, AppendProperties
  <2>3. \A i \in 1 .. Len(frames) : Append(frames, type)[i] = frames[i]
    BY <1>18, <2>1, AppendProperties
  <2>4. Append(frames, type)[Len(frames) + 1] = type
    BY <1>18, <2>1, AppendProperties
  <2> QED BY <1>10, <1>22, <2>2, <2>3, <2>4, Zenon
<1>24. ASSUME NEW j \in 1 .. n + 1
       PROVE  /\ f[j] = TypeOfLevel(r[j])
              /\ d[j].count = r[j].valueCount
              /\ d[j].keys \subseteq KeysOf(r[j])
              /\ j # n + 1 => r[j].valueCount > 0
  <2>1. CASE j = n + 1
    BY <1>13, <1>15, <1>19, <1>21, <1>23, <2>1
  <2>2. CASE j \in 1 .. n
    <3>1. /\ frames[j] = TypeOfLevel(c[j]) /\ a[j].count = c[j].valueCount
          /\ a[j].keys \subseteq KeysOf(c[j]) /\ c[j].valueCount > 0
      BY <1>11, <1>16, <2>2, Zenon DEF Alike
    <3> QED BY <1>15, <1>21, <1>23, <2>2, <3>1
  <2> QED BY <1>10, <2>1, <2>2
<1>25. Alike(r, f, d)
  BY <1>15, <1>23, <1>24, Zenon DEF Alike
<1>26. ~IsOdd(r)
  BY <1>13, <1>15 DEF IsOdd
<1>27. NewKey(r, d, key)
  BY <1>26 DEF NewKey
<1>28. want' = next /\ pos' = q
  BY DEF Go
<1>29. ~Marked'
  BY <1>28 DEF Marked, Firsts
<1>30. want' \in Firsts /\ r[Len(r)].valueCount = 0
  BY <1>13, <1>15, <1>28
<1>31. ReadBack(e) = e
  <2>1. e.op \notin {"Int64", "Double"}
    BY DEF Starts
  <2> QED BY <2>1 DEF ReadBack
<1>32. doc' = [i \in 1 .. k + 1 |-> ReadBack(written'[i])]
  <2>1. doc' = [i \in 1 .. k + 1 |-> ReadBack(written[i])]
    BY <1>1, <1>8, <1>31, DocGrows
  <2> QED BY <2>1
<1> QED BY <1>8, <1>16, <1>20, <1>22, <1>25, <1>27, <1>28, <1>29, <1>30, <1>32, Zenon
        DEF Follows

\* What a token does where Reader is.
ReadAt(t) ==
  \/ want = "value" /\ ReadValue(t)
  \/ want = "firstElement" /\ IF t.t = "]" THEN Close("array") ELSE ReadValue(t)
  \/ want = "firstKey" /\ IF t.t = "}" THEN Close("object") ELSE ReadKey(t)
  \/ want = "key" /\ ReadKey(t)
  \/ want = "colon" /\ IF t.t = ":" THEN Skip("value") ELSE Throw("PARSE_MISS_COLON")
  \/ want = "after" /\ AfterValue(t)

\* The mark before an event is read.
LEMMA ReadMark ==
  ASSUME ReaderInv, status = "reading",
         NEW k \in Nat, k < Len(written), NEW p \in Nat, pos = p,
         NEW s \in Seq(WriterLevel), Follows(k, s, p), ~Marked,
         NEW e, e = written[k + 1], DueOn(s, e), MarkBefore(s, e) # "none",
         NEW t, t = Mark(MarkBefore(s, e)), ReadAt(t), UNCHANGED written
  PROVE  status' = "reading" /\ Follows(k, s, p)'
<1>1. /\ Alike(s, frames, dstack)
      /\ s # <<>> => (want \in Firsts <=> s[Len(s)].valueCount = 0)
  BY Zenon DEF Follows
<1>2. e.op \notin Ends /\ MarkBefore(s, e) = Separator(s)
  BY DEF MarkBefore
<1>3. t.t = Separator(s) /\ Separator(s) # "none"
  BY <1>2 DEF Mark
<1>4. s # <<>>
  BY <1>3 DEF Separator, IsOdd, InObjectOf
<1>5. /\ frames # <<>> /\ s[Len(s)].valueCount \in Nat /\ s[Len(s)].inArray \in BOOLEAN
      /\ InArray <=> s[Len(s)].inArray
      /\ s[Len(s)].inArray => want \in {"firstElement", "value", "after"}
      /\ IsOdd(s) => want \in {"colon", "value"}
      /\ InObjectOf(s) /\ ~IsOdd(s) => want \in {"firstKey", "key", "after"}
  BY <1>1, <1>4, Places, Zenon
<1>6. s[Len(s)].valueCount > 0
  <2>1. CASE IsOdd(s)
    <3>1. s[Len(s)].valueCount % 2 = 1
      BY <2>1 DEF IsOdd
    <3> QED BY <1>5, <3>1
  <2>2. CASE ~IsOdd(s)
    BY <1>3, <1>4, <2>2 DEF Separator
  <2> QED BY <2>1, <2>2
<1>7. want \notin Firsts
  BY <1>1, <1>4, <1>5, <1>6
<1>8. want # "key" /\ want # "value"
  BY <1>5 DEF Marked
<1>9. CASE s[Len(s)].inArray
  <2>1. want = "after" /\ InArray
    BY <1>5, <1>7, <1>8, <1>9 DEF Firsts
  <2>2. t.t = ","
    BY <1>3, <1>4, <1>6, <1>9 DEF Separator, IsOdd, InObjectOf
  <2>3. AfterValue(t)
    BY <2>1 DEF ReadAt
  <2>4. Skip("value")
    BY <1>5, <2>1, <2>2, <2>3 DEF AfterValue
  <2>5. "value" \in {"value", "key"}
    OBVIOUS
  <2> QED BY <1>2, <1>4, <1>6, <2>4, <2>5, FollowsMark, Zenon
<1>10. CASE IsOdd(s)
  <2>1. want = "colon"
    BY <1>5, <1>8, <1>10
  <2>2. t.t = ":"
    BY <1>3, <1>10 DEF Separator
  <2>3. Skip("value")
    BY <2>1, <2>2 DEF ReadAt
  <2>4. "value" \in {"value", "key"}
    OBVIOUS
  <2> QED BY <1>2, <1>4, <1>6, <2>3, <2>4, FollowsMark, Zenon
<1>11. CASE ~s[Len(s)].inArray /\ ~IsOdd(s)
  <2>1. InObjectOf(s)
    BY <1>4, <1>11 DEF InObjectOf
  <2>2. want = "after" /\ ~InArray
    BY <1>5, <1>7, <1>8, <1>11, <2>1 DEF Firsts
  <2>3. t.t = ","
    BY <1>3, <1>4, <1>6, <1>11 DEF Separator
  <2>4. AfterValue(t)
    BY <2>2 DEF ReadAt
  <2>5. Skip("key")
    BY <1>5, <2>2, <2>3, <2>4 DEF AfterValue
  <2>6. "key" \in {"value", "key"}
    OBVIOUS
  <2> QED BY <1>2, <1>4, <1>6, <2>5, <2>6, FollowsMark, Zenon
<1> QED BY <1>5, <1>9, <1>10, <1>11

\* Where a value, a key or an end is due and no mark is left, Reader expects it.
LEMMA Expects ==
  ASSUME ReaderInv, status = "reading",
         NEW k \in Nat, k < Len(written), NEW p \in Nat,
         NEW s \in Seq(WriterLevel), Follows(k, s, p), s = <<>> => k = 0,
         NEW e, e = written[k + 1], DueOn(s, e), Marked \/ MarkBefore(s, e) = "none"
  PROVE  /\ e.op \notin Ends \cup {"Key"} => want \in {"value", "firstElement"}
         /\ e.op = "Key" => want \in {"firstKey", "key"}
         /\ e.op = "EndArray" => want \in {"firstElement", "after"} /\ InArray
         /\ e.op = "EndObject" => want \in {"firstKey", "after"} /\ ~InArray
         /\ e.op \in Ends => frames # <<>>
<1>1. /\ Alike(s, frames, dstack)
      /\ doc = [i \in 1 .. k |-> ReadBack(written[i])]
      /\ s # <<>> => (want \in Firsts <=> s[Len(s)].valueCount = 0)
      /\ Marked => e.op \notin Ends
  BY Zenon DEF Follows
<1>2. CASE s = <<>>
  <2>1. doc = <<>>
    BY <1>1, <1>2
  <2>2. want = "value"
    BY <1>1, <1>2, <2>1, Places, Zenon
  <2> QED BY <1>2, <2>2 DEF DueOn, Ends
<1>3. CASE s # <<>>
  <2>1. /\ frames # <<>> /\ s[Len(s)].valueCount \in Nat /\ s[Len(s)].inArray \in BOOLEAN
        /\ InArray <=> s[Len(s)].inArray
        /\ s[Len(s)].inArray => want \in {"firstElement", "value", "after"}
        /\ IsOdd(s) => want \in {"colon", "value"}
        /\ InObjectOf(s) /\ ~IsOdd(s) => want \in {"firstKey", "key", "after"}
    BY <1>1, <1>3, Places, Zenon
  <2>2. ASSUME e.op \notin Ends, ~Marked
        PROVE  ~IsOdd(s) /\ want \in Firsts
    <3>1. Separator(s) = "none"
      BY <2>2 DEF MarkBefore
    <3>2. ~IsOdd(s) /\ ~(s[Len(s)].valueCount > 0)
      BY <1>3, <3>1 DEF Separator
    <3> QED BY <1>1, <1>3, <2>1, <3>2
  <2>3. Marked <=> want \in {"key", "value"}
    BY <2>1 DEF Marked
  <2>4. InObjectOf(s) <=> ~s[Len(s)].inArray
    BY <1>3 DEF InObjectOf
  <2>5. CASE e.op \notin Ends \cup {"Key"}
    <3>1. s[Len(s)].inArray \/ IsOdd(s)
      BY <2>4, <2>5 DEF DueOn, Ends
    <3> QED BY <2>1, <2>2, <2>3, <2>5, <3>1 DEF Firsts, Ends
  <2>6. CASE e.op = "Key"
    <3>1. InObjectOf(s) /\ ~IsOdd(s)
      BY <1>3, <2>4, <2>6 DEF DueOn
    <3>2. e.op \notin Ends
      BY <2>6 DEF Ends
    <3> QED BY <2>1, <2>2, <2>3, <2>6, <3>1, <3>2 DEF Firsts, Ends
  <2>7. CASE e.op = "EndArray"
    <3>1. s[Len(s)].inArray
      BY <2>4, <2>7 DEF DueOn, Ends
    <3>2. ~Marked
      BY <1>1, <2>7 DEF Ends
    <3> QED BY <2>1, <2>3, <2>7, <3>1, <3>2 DEF Ends
  <2>8. CASE e.op = "EndObject"
    <3>1. ~s[Len(s)].inArray /\ ~IsOdd(s)
      BY <1>3, <2>1, <2>8 DEF DueOn, Ends
    <3>2. ~Marked
      BY <1>1, <2>8 DEF Ends
    <3> QED BY <2>1, <2>3, <2>4, <2>8, <3>1, <3>2 DEF Ends
  <2>9. e.op \in Ends => e.op = "EndArray" \/ e.op = "EndObject"
    BY DEF Ends
  <2> QED BY <2>1, <2>5, <2>6, <2>7, <2>8, <2>9 DEF Ends
<1> QED BY <1>2, <1>3

\* An event is read.
LEMMA ReadEvent ==
  ASSUME ReaderInv, status = "reading",
         NEW k \in Nat, k < Len(written), NEW p \in Nat, NEW q \in Nat, pos + 1 = q,
         NEW s \in Seq(WriterLevel), Follows(k, s, p), s = <<>> => k = 0,
         NEW e \in WriterEvents, e = written[k + 1], DueOn(s, e), CanBeRead(e),
         Marked \/ MarkBefore(s, e) = "none",
         NEW t, t = Token(e), ReadAt(t), UNCHANGED written,
         NEW r, r = StackAfter(s, e)
  PROVE  status' = "reading" /\ Follows(k + 1, r, q)'
<1>1. /\ e.op \notin Ends \cup {"Key"} => want \in {"value", "firstElement"}
      /\ e.op = "Key" => want \in {"firstKey", "key"}
      /\ e.op = "EndArray" => want \in {"firstElement", "after"} /\ InArray
      /\ e.op = "EndObject" => want \in {"firstKey", "after"} /\ ~InArray
      /\ e.op \in Ends => frames # <<>>
  BY Expects
<1>2. CASE e \in ScalarEvents
  <2>1. e.op \notin Starts \cup Ends \cup {"Key"}
    BY <1>2, ScalarOps
  <2>2. t = Written(e)
    BY <2>1 DEF Token, Starts, Ends
  <2>3. /\ t.t \notin Marks \cup {"junk", "end"} /\ ~TooBig(t) /\ StringError(t) = {}
        /\ \/ IsScalar(t) /\ ~IsString(t) /\ ReadScalar(t) = ReadBack(e)
           \/ ~IsScalar(t) /\ IsString(t) /\ StringEvent("String", t) = ReadBack(e)
    BY <1>2, <2>2, ScalarBack
  <2>4. t.t \notin {"[", "]", "{"} /\ t.t \notin (Marks \ {"[", "{"}) \cup {"junk"}
    BY <2>3 DEF Marks
  <2>5. t # EndOfText
    <3>1. EndOfText.t = "end"
      BY DEF EndOfText
    <3> QED BY <2>3, <3>1
  <2>6. ReadValue(t)
    BY <1>1, <2>1, <2>4 DEF ReadAt
  <2>7. Go("after") /\ UNCHANGED frames
        /\ (AddValue(ReadBack(e), FALSE, <<>>) \/ AddValue(ReadBack(e), TRUE, <<>>))
    <3>1. CASE IsScalar(t) /\ ~IsString(t) /\ ReadScalar(t) = ReadBack(e)
      BY <2>3, <2>4, <2>5, <2>6, <3>1, Zenon DEF ReadValue
    <3>2. CASE ~IsScalar(t) /\ IsString(t) /\ StringEvent("String", t) = ReadBack(e)
      BY <2>3, <2>4, <2>5, <2>6, <3>2, Zenon DEF ReadValue
    <3> QED BY <2>3, <3>1, <3>2, Zenon
  <2>8. TRUE \in BOOLEAN /\ FALSE \in BOOLEAN
    OBVIOUS
  <2>9. CASE AddValue(ReadBack(e), FALSE, <<>>)
    BY <1>2, <2>7, <2>8, <2>9, FollowsScalar
  <2>10. CASE AddValue(ReadBack(e), TRUE, <<>>)
    BY <1>2, <2>7, <2>8, <2>10, FollowsScalar
  <2> QED BY <2>7, <2>9, <2>10, Zenon
<1>3. CASE e.op = "Key" /\ e = KeyEvent(e.s) /\ e.s \in AllKeys
  <2>1. t = [t |-> "string", s |-> e.s]
    BY <1>3 DEF Token
  <2>2. t.t = "string" /\ t.s = e.s
    BY <2>1
  <2>3. IsString(t) /\ StringError(t) = {}
    BY <2>2 DEF IsString, StringError
  <2>4. StringEvent("Key", t) = e
    BY <1>3, <2>2 DEF StringEvent, KeyEvent
  <2>5. ReadKey(t)
    BY <1>1, <1>3, <2>2 DEF ReadAt
  <2>6. AddValue(e, TRUE, <<>>) /\ Go("colon") /\ UNCHANGED frames
    BY <2>3, <2>4, <2>5, Zenon DEF ReadKey
  <2> QED BY <1>3, <2>6, FollowsKey
<1>4. CASE e.op \in Starts /\ e = Plain(e.op)
  <2>1. e.op \notin Ends \cup {"Key"}
    BY <1>4 DEF Starts, Ends
  <2>2. t = Mark(IF e.op = "StartArray" THEN "[" ELSE "{")
    BY <1>4 DEF Token, Starts
  <2>3. t.t = IF e.op = "StartArray" THEN "[" ELSE "{"
    <3>1. \A m : Mark(m).t = m
      BY DEF Mark
    <3>2. CASE e.op = "StartArray"
      <4>1. t = Mark("[")
        BY <2>2, <3>2
      <4> QED BY <3>1, <3>2, <4>1
    <3>3. CASE e.op # "StartArray"
      <4>1. t = Mark("{")
        BY <2>2, <3>3
      <4> QED BY <3>1, <3>3, <4>1
    <3> QED BY <3>2, <3>3
  <2>4. ReadValue(t)
    BY <1>1, <2>1, <2>3 DEF ReadAt
  <2>5. t # EndOfText
    <3>1. EndOfText.t = "end"
      BY DEF EndOfText
    <3> QED BY <2>3, <3>1
  <2>6. ~IsScalar(t) /\ ~IsString(t) /\ ~TooBig(t) /\ StringError(t) = {}
        /\ t.t \notin (Marks \ {"[", "{"}) \cup {"junk"}
    BY <2>3 DEF IsScalar, IsString, TooBig, StringError, Marks
  <2>7. \/ t.t = "[" /\ Start("array") /\ Go("firstElement") /\ frames' = Append(frames, "array")
        \/ t.t = "{" /\ Start("object") /\ Go("firstKey") /\ frames' = Append(frames, "object")
    BY <2>4, <2>5, <2>6, Zenon DEF ReadValue
  <2>8. PICK type : type = IF e.op = "StartArray" THEN "array" ELSE "object"
    OBVIOUS
  <2>9. PICK next \in Firsts : Start(type) /\ Go(next) /\ frames' = Append(frames, type)
    <3>1. CASE e.op = "StartArray"
      <4>1. type = "array" /\ t.t = "[" /\ "firstElement" \in Firsts
        BY <2>3, <2>8, <3>1 DEF Firsts
      <4>2. Start(type) /\ Go("firstElement") /\ frames' = Append(frames, type)
        <5>1. t.t # "{"
          BY <4>1
        <5> QED BY <2>7, <4>1, <5>1, Zenon
      <4> QED BY <4>1, <4>2, Zenon
    <3>2. CASE e.op # "StartArray"
      <4>1. type = "object" /\ t.t = "{" /\ "firstKey" \in Firsts
        BY <2>3, <2>8, <3>2 DEF Firsts
      <4>2. Start(type) /\ Go("firstKey") /\ frames' = Append(frames, type)
        <5>1. t.t # "["
          BY <4>1
        <5> QED BY <2>7, <4>1, <5>1, Zenon
      <4> QED BY <4>1, <4>2, Zenon
    <3> QED BY <3>1, <3>2
  <2>10. ASSUME NEW x, x = type PROVE status' = "reading" /\ Follows(k + 1, r, q)'
    <3>1. x = IF e.op = "StartArray" THEN "array" ELSE "object"
      BY <2>8, <2>10, Zenon
    <3>2. Start(x) /\ frames' = Append(frames, x)
      BY <2>9, <2>10, Zenon
    <3>3. Go(next) /\ e.op \in Starts /\ e = Plain(e.op)
      BY <1>4, <2>9, Zenon
    <3> QED BY <3>1, <3>2, <3>3, FollowsOpen
  <2> QED BY <2>10, Zenon
<1>5. CASE e.op \in Ends /\ e = Plain(e.op)
  <2>1. CASE e.op = "EndArray"
    <3>1. t.t = "]"
      BY <2>1 DEF Token, Mark
    <3>2. Close("array")
      <4>1. CASE want = "firstElement"
        BY <3>1, <4>1 DEF ReadAt
      <4>2. CASE want = "after"
        <5>1. AfterValue(t)
          BY <4>2 DEF ReadAt
        <5> QED BY <1>1, <1>5, <2>1, <3>1, <5>1 DEF AfterValue
      <4> QED BY <1>1, <2>1, <4>1, <4>2
    <3>3. Close(IF e.op = "EndArray" THEN "array" ELSE "object")
      BY <2>1, <3>2, Zenon
    <3> QED BY <1>5, <3>3, FollowsClose
  <2>2. CASE e.op = "EndObject"
    <3>1. t.t = "}"
      BY <2>2 DEF Token, Mark
    <3>2. Close("object")
      <4>1. CASE want = "firstKey"
        BY <3>1, <4>1 DEF ReadAt
      <4>2. CASE want = "after"
        <5>1. AfterValue(t)
          BY <4>2 DEF ReadAt
        <5> QED BY <1>1, <1>5, <2>2, <3>1, <5>1 DEF AfterValue
      <4> QED BY <1>1, <2>2, <4>1, <4>2
    <3>3. Close(IF e.op = "EndArray" THEN "array" ELSE "object")
      <4>1. e.op # "EndArray"
        BY <2>2
      <4> QED BY <3>2, <4>1, Zenon
    <3> QED BY <1>5, <3>3, FollowsClose
  <2>3. e.op = "EndArray" \/ e.op = "EndObject"
    BY <1>5 DEF Ends
  <2> QED BY <2>1, <2>2, <2>3
<1>6. e.op \in Starts \cup Ends => e.op \in Starts \/ e.op \in Ends
  OBVIOUS
<1> QED BY <1>2, <1>3, <1>4, <1>5, <1>6, EventKinds, Zenon

\* A step of Reader through what Writer wrote reads a mark or an event, or ends.
LEMMA ReadNext ==
  ASSUME ReaderInv, Read, ~foreign, written \in Seq(WriterEvents), written # <<>>, wstack = <<>>,
         AllCanBeRead(written),
         NEW h, NEW g, Trace(written, wstack, text, h, g),
         NEW k \in 0 .. Len(written), Follows(k, h[k], g[k])
  PROVE  \/ status' = "PARSE_OK" /\ k = Len(written) /\ UNCHANGED <<written, doc>>
         \/ /\ status' = "reading" /\ UNCHANGED <<written, text, wstack>>
            /\ \E m \in 0 .. Len(written) : Follows(m, h[m], g[m])'
<1>1. status = "reading" /\ UNCHANGED <<written, wstack>>
  BY DEF Read, writerVars
<1>2. PICK t : NextToken(t) /\ ReadAt(t)
  BY DEF Read, ReadAt
<1>3. /\ text' = text
      /\ \/ pos < Len(text) /\ t = text[pos + 1]
         \/ pos = Len(text) /\ t = EndOfText
  BY <1>2 DEF NextToken
<1>4. PICK n \in Nat \ {0} : n = Len(written)
  OBVIOUS
<1>5. k \in 0 .. n
  BY <1>4
<1>6. /\ h \in [0 .. n -> Seq(WriterLevel)] /\ g \in [0 .. n -> Nat]
      /\ h[n] = <<>> /\ g[n] = Len(text)
      /\ \A i \in 1 .. n : /\ Chunk(written[i], h[i - 1], h[i], g[i - 1], g[i], text)
                           /\ h[i - 1] = <<>> => i = 1
  BY <1>4, Zenon DEF Trace
<1>7. PICK s \in Seq(WriterLevel) : s = h[k]
  BY <1>5, <1>6
<1>8. PICK p \in Nat : p = g[k]
  BY <1>5, <1>6
<1>9. Follows(k, s, p)
  BY <1>7, <1>8
<1>10. pos \in Nat /\ pos = (IF Marked THEN p + 1 ELSE p) /\ Len(text) \in Nat
  <2>1. pos \in Nat /\ Len(text) \in Nat
    BY DEF ReaderInv, ReaderTypes
  <2> QED BY <1>9, <2>1, Zenon DEF Follows
<1>11. Alike(s, frames, dstack) /\ doc = [i \in 1 .. k |-> ReadBack(written[i])]
  BY <1>9, Zenon DEF Follows
<1>12. CASE k = n
  <2>1. s = <<>> /\ p = Len(text)
    BY <1>6, <1>7, <1>8, <1>12
  <2>2. doc # <<>>
    <3>1. 1 \in 1 .. k /\ k \in Nat
      BY <1>12
    <3>2. Len(doc) = k
      BY <1>11, <3>1
    <3> QED BY <1>12, <3>2
  <2>3. frames = <<>> /\ want = "after"
    BY <1>1, <1>11, <2>1, <2>2, Places, Zenon
  <2>4. pos = Len(text)
    BY <1>10, <2>1, <2>3 DEF Marked
  <2>5. t = EndOfText
    BY <1>3, <1>10, <2>4
  <2>6. AfterValue(t)
    BY <1>2, <2>3 DEF ReadAt
  <2>7. Throw("PARSE_OK")
    BY <2>3, <2>5, <2>6 DEF AfterValue, InArray
  <2> QED BY <1>1, <1>4, <1>12, <2>7 DEF Throw, documentVars
<1>13. CASE k # n
  <2>1. k \in Nat /\ k < n /\ k + 1 \in 1 .. n /\ k + 1 \in 0 .. n /\ (k + 1) - 1 = k
    BY <1>4, <1>5, <1>13
  <2>2. PICK e \in WriterEvents : e = written[k + 1]
    BY <1>4, <2>1
  <2>2a. CanBeRead(e)
    <3>1. k + 1 \in DOMAIN written
      BY <1>4, <2>1
    <3> QED BY <2>2, <3>1, Zenon DEF AllCanBeRead
  <2>3. PICK r : r = h[k + 1]
    OBVIOUS
  <2>4. PICK q \in Nat : q = g[k + 1]
    BY <1>6, <2>1
  <2>5. Chunk(e, s, r, p, q, text) /\ (s = <<>> => k = 0)
    <3>1. /\ Chunk(written[k + 1], h[(k + 1) - 1], h[k + 1], g[(k + 1) - 1], g[k + 1], text)
          /\ h[(k + 1) - 1] = <<>> => k + 1 = 1
      BY <1>6, <2>1, Zenon
    <3>2. Chunk(e, s, r, p, q, text) /\ (s = <<>> => k + 1 = 1)
      BY <1>7, <1>8, <2>1, <2>2, <2>3, <2>4, <3>1, Zenon
    <3> QED BY <2>1, <3>2
  <2>6. DueOn(s, e) /\ r = StackAfter(s, e)
    BY <2>5, Zenon DEF Chunk
  <2>7. /\ q <= Len(text) /\ text[q] = Token(e)
        /\ MarkBefore(s, e) = "none" => q = p + 1
        /\ MarkBefore(s, e) # "none" => q = p + 2 /\ text[p + 1] = Mark(MarkBefore(s, e))
    BY <2>5, Zenon DEF Chunk
  <2>8. k < Len(written)
    BY <1>4, <2>1
  <2>9. CASE ~Marked /\ MarkBefore(s, e) # "none"
    <3>1. pos = p /\ p + 1 < q /\ p < Len(text)
      BY <1>10, <2>7, <2>9
    <3>2. t = Mark(MarkBefore(s, e))
      BY <1>3, <2>7, <2>9, <3>1
    <3>3. status' = "reading" /\ Follows(k, s, p)'
      BY <1>1, <1>2, <1>9, <2>1, <2>2, <2>6, <2>8, <2>9, <3>1, <3>2, ReadMark
    <3>4. Follows(k, h[k], g[k])'
      BY <1>7, <1>8, <3>3
    <3> QED BY <1>1, <1>3, <3>3, <3>4
  <2>10. CASE Marked \/ MarkBefore(s, e) = "none"
    <3>1. Marked => MarkBefore(s, e) # "none"
      <4>1. Marked => e.op \notin Ends /\ want \notin Firsts
        BY <1>9, <2>2 DEF Follows, Marked, Firsts
      <4>2. Marked => s # <<>>
        BY <1>1, <1>11, Places DEF Marked
      <4>3. s # <<>> => (want \in Firsts <=> s[Len(s)].valueCount = 0)
        BY <1>9, Zenon DEF Follows
      <4>4. s # <<>> => s[Len(s)].valueCount \in Nat
        BY <1>1, <1>11, Places
      <4>5. Marked => s[Len(s)].valueCount > 0
        BY <4>1, <4>2, <4>3, <4>4
      <4> QED BY <4>1, <4>2, <4>5 DEF MarkBefore, Separator
    <3>2. pos + 1 = q
      BY <1>10, <2>7, <2>10, <3>1
    <3>3. t = Token(e)
      <4>1. pos < Len(text)
        BY <1>10, <2>7, <3>2
      <4> QED BY <1>3, <2>7, <3>2, <4>1
    <3>4. status' = "reading" /\ Follows(k + 1, r, q)'
      BY <1>1, <1>2, <1>9, <2>1, <2>2, <2>2a, <2>5, <2>6, <2>8, <2>10, <3>2, <3>3, ReadEvent
    <3>5. Follows(k + 1, h[k + 1], g[k + 1])'
      BY <2>3, <2>4, <3>4
    <3>6. k + 1 \in 0 .. Len(written)
      BY <1>4, <2>1
    <3> QED BY <1>1, <1>3, <3>4, <3>5, <3>6
  <2> QED BY <2>9, <2>10
<1> QED BY <1>12, <1>13

\* What was written, and has been read of it.
Marshalled ==
  /\ ~Over /\ ~foreign /\ AllCanBeRead(written) =>
       \E h, g :
         /\ Trace(written, wstack, text, h, g)
         /\ status = "reading" =>
              /\ written # <<>> /\ wstack = <<>>
              /\ \E k \in 0 .. Len(written) : Follows(k, h[k], g[k])
  /\ RoundTrip

\* It is inductive, with what holds of every text.
LEMMA MarshalledInductive ==
  /\ StubInit => Marshalled
  /\ JacksonInv /\ JacksonInv' /\ Marshalled /\ [StubNext]_marshalVars => Marshalled'
<1>1. ASSUME StubInit PROVE Marshalled
  <2>1. status = "writing" /\ written = <<>> /\ wstack = <<>> /\ text = <<>>
    BY <1>1 DEF StubInit, JsonInit
  <2>2. PICK h : h = [i \in 0 .. 0 |-> <<>>]
    OBVIOUS
  <2>3. PICK g : g = [i \in 0 .. 0 |-> 0]
    OBVIOUS
  <2>4. PICK w : w = written /\ w = <<>> /\ Len(w) = 0
    BY <2>1
  <2>5. PICK x : x = text /\ Len(x) = 0
    BY <2>1
  <2>6. h \in [0 .. 0 -> Seq(WriterLevel)] /\ h[0] = <<>>
    BY <2>2
  <2>7. g \in [0 .. 0 -> Nat] /\ g[0] = 0
    BY <2>3
  <2>8. 1 .. 0 = {}
    OBVIOUS
  <2>9. Trace(w, wstack, x, h, g)
    BY <2>1, <2>4, <2>5, <2>6, <2>7, <2>8, Zenon DEF Trace
  <2>10. status # "reading" /\ ~Over
    BY <2>1 DEF Over
  <2> QED BY <2>4, <2>5, <2>9, <2>10 DEF Marshalled, RoundTrip
<1>2. ASSUME JacksonInv, JacksonInv', Marshalled, [StubNext]_marshalVars PROVE Marshalled'
  <2>0. written \in Seq(WriterEvents) /\ ReaderInv /\ ReaderTypes /\ ReaderTypes' /\ ReaderInv'
    BY <1>2 DEF JacksonInv, ReaderInv
  <2>1. ASSUME NEW e \in WriterEvents, Write(e) PROVE Marshalled'
    <3>1. status = "writing" /\ status' = "writing" /\ ~foreign
      BY <2>1 DEF Write
    <3>2. ~Over /\ ~Over'
      BY <3>1 DEF Over
    <3>3. ASSUME AllCanBeRead(written') PROVE AllCanBeRead(written) /\ CanBeRead(e)
      <4>1. PICK v : v = written'
        OBVIOUS
      <4>2. v = Append(written, e)
        BY <2>1, <4>1 DEF Write
      <4>3. Len(v) = Len(written) + 1 /\ v \in Seq(WriterEvents)
        BY <2>0, <2>1, <4>2, AppendProperties
      <4>4. \A i \in 1 .. Len(written) : v[i] = written[i]
        BY <2>0, <2>1, <4>2, AppendProperties
      <4>5. v[Len(written) + 1] = e
        BY <2>0, <2>1, <4>2, AppendProperties
      <4>6. DOMAIN v = 1 .. Len(written) + 1 /\ DOMAIN written = 1 .. Len(written)
        BY <2>0, <4>3
      <4>7. \A i \in DOMAIN v : CanBeRead(v[i])
        BY <3>3, <4>1, Zenon DEF AllCanBeRead
      <4>8. Len(written) \in Nat
        BY <2>0
      <4>9. Len(written) + 1 \in DOMAIN v /\ \A i \in DOMAIN written : i \in DOMAIN v
        BY <4>6, <4>8
      <4>10. AllCanBeRead(written)
        BY <4>4, <4>6, <4>7, <4>9, Zenon DEF AllCanBeRead
      <4> QED BY <4>5, <4>7, <4>9, <4>10, Zenon
    <3>4. ASSUME AllCanBeRead(written') PROVE \E h, g : Trace(written, wstack, text, h, g)'
      <4>1. AllCanBeRead(written) /\ CanBeRead(e)
        BY <3>3, <3>4
      <4>2. PICK h, g : Trace(written, wstack, text, h, g)
        BY <1>2, <3>1, <3>2, <4>1 DEF Marshalled
      <4>3. \E k, l : Trace(written', wstack', text', k, l)
        BY <2>0, <2>1, <4>1, <4>2, TraceStep
      <4> QED BY <4>3
    <3>5. status' # "reading"
      BY <3>1
    <3>6. RoundTrip'
      BY <3>2 DEF RoundTrip
    <3> QED BY <3>4, <3>5, <3>6 DEF Marshalled
  <2>2. CASE StartReading
    <3>1. /\ status = "writing" /\ status' = "reading"
          /\ foreign \/ (written # <<>> /\ wstack = <<>>)
          /\ UNCHANGED <<foreign, written, wstack, text, pos, frames, want, doc, dstack, key>>
      BY <2>2 DEF StartReading, writerVars, readerVars, documentVars
    <3>2. ~Over /\ ~Over'
      BY <3>1 DEF Over
    <3>3. ASSUME ~foreign, AllCanBeRead(written)
          PROVE  \E h, g : /\ Trace(written, wstack, text, h, g)'
                           /\ \E k \in 0 .. Len(written') : Follows(k, h[k], g[k])'
      <4>1. PICK h, g : Trace(written, wstack, text, h, g)
        BY <1>2, <3>2, <3>3 DEF Marshalled
      <4>2. h[0] = <<>> /\ g[0] = 0
        BY <4>1, Zenon DEF Trace
      <4>3. pos = 0 /\ frames = <<>> /\ want = "value" /\ doc = <<>> /\ Nested(frames, dstack)
        BY <2>0, <3>1 DEF ReaderInv
      <4>4. doc = [i \in 1 .. 0 |-> ReadBack(written[i])]
        BY <4>3
      <4>5. PICK s : s = <<>> /\ Len(s) = 0 /\ Len(frames) = 0
        BY <4>3
      <4>6. Alike(s, frames, dstack)
        <5>1. 1 .. 0 = {}
          OBVIOUS
        <5> QED BY <4>5, <5>1, Zenon DEF Alike
      <4>7. NewKey(s, dstack, key)
        BY <4>5 DEF NewKey, IsOdd, InObjectOf
      <4>8. ~Marked
        BY <4>3 DEF Marked
      <4>9. Follows(0, s, 0)
        BY <4>3, <4>4, <4>5, <4>6, <4>7, <4>8, Zenon DEF Follows
      <4>10. Follows(0, s, 0)'
        BY <3>1, <4>9 DEF Follows, Alike, NewKey, Marked
      <4>11. Follows(0, h[0], g[0])'
        BY <4>2, <4>5, <4>10
      <4>12. 0 \in 0 .. Len(written')
        BY <2>0, <3>1
      <4>13. Trace(written, wstack, text, h, g)'
        BY <3>1, <4>1
      <4> QED BY <4>11, <4>12, <4>13
    <3>4. RoundTrip'
      BY <3>2 DEF RoundTrip
    <3> QED BY <3>1, <3>2, <3>3, <3>4 DEF Marshalled
  <2>3. CASE Read
    <3>1. status = "reading" /\ UNCHANGED <<foreign, written, wstack>>
      BY <2>3 DEF Read, writerVars
    <3>2. ~Over
      BY <3>1 DEF Over
    <3>3. CASE foreign \/ ~AllCanBeRead(written)
      BY <3>1, <3>3 DEF Marshalled, RoundTrip, AllCanBeRead
    <3>4. CASE ~foreign /\ AllCanBeRead(written)
      <4>1. PICK h, g :
              /\ Trace(written, wstack, text, h, g)
              /\ written # <<>> /\ wstack = <<>>
              /\ \E k \in 0 .. Len(written) : Follows(k, h[k], g[k])
        BY <1>2, <3>1, <3>2, <3>4 DEF Marshalled
      <4>2. PICK k \in 0 .. Len(written) : Follows(k, h[k], g[k])
        BY <4>1
      <4>3. \/ status' = "PARSE_OK" /\ k = Len(written) /\ UNCHANGED <<written, doc>>
            \/ /\ status' = "reading" /\ UNCHANGED <<written, text, wstack>>
               /\ \E m \in 0 .. Len(written) : Follows(m, h[m], g[m])'
        BY <2>0, <2>3, <3>4, <4>1, <4>2, ReadNext
      <4>4. CASE status' = "PARSE_OK" /\ k = Len(written) /\ UNCHANGED <<written, doc>>
        <5>1. doc = [i \in 1 .. k |-> ReadBack(written[i])]
          BY <4>2, Zenon DEF Follows
        <5>2. 1 .. k = DOMAIN written
          BY <2>0, <4>4
        <5>3. doc' = [i \in DOMAIN written' |-> ReadBack(written'[i])]
          BY <4>4, <5>1, <5>2
        <5>4. RoundTrip'
          BY <4>4, <5>3 DEF RoundTrip
        <5>5. Over'
          BY <4>4 DEF Over
        <5> QED BY <5>4, <5>5 DEF Marshalled
      <4>5. CASE /\ status' = "reading" /\ UNCHANGED <<written, text, wstack>>
                 /\ \E m \in 0 .. Len(written) : Follows(m, h[m], g[m])'
        <5>1. Trace(written, wstack, text, h, g)'
          BY <4>1, <4>5
        <5>2. ~Over'
          BY <4>5 DEF Over
        <5>3. RoundTrip'
          BY <5>2 DEF RoundTrip
        <5>4. written' # <<>> /\ wstack' = <<>> /\ Len(written') = Len(written)
          BY <4>1, <4>5
        <5>5. \E m \in 0 .. Len(written') : Follows(m, h[m], g[m])'
          BY <4>5, <5>4
        <5> QED BY <5>1, <5>3, <5>4, <5>5 DEF Marshalled
      <4> QED BY <4>3, <4>4, <4>5
    <3> QED BY <3>3, <3>4
  <2>4. CASE UNCHANGED jsonVars
    <3>1. UNCHANGED <<status, foreign, written, wstack, text, pos, frames, want, doc, dstack, key>>
      BY <2>4 DEF jsonVars, writerVars, readerVars, documentVars
    <3> QED BY <1>2, <3>1 DEF Marshalled, RoundTrip, Over, AllCanBeRead, Follows, Alike, NewKey,
               Marked
  <2>5. \/ \E e \in WriterEvents : Write(e)
        \/ StartReading \/ Read \/ UNCHANGED jsonVars
    BY <1>2, JacksonStep DEF JacksonInv
  <2> QED BY <2>1, <2>2, <2>3, <2>4, <2>5
<1> QED BY <1>1, <1>2

\* A value that Writer wrote, of any depth and size and with any numbers of 64 bits,
\* is what Reader gives back, but for the losses of ReadBack, unless a key has to be
\* escaped.
THEOREM RoundTrips == StubSpec => []RoundTrip
<1>1. JacksonInv /\ Marshalled => RoundTrip
  BY DEF Marshalled
<1> QED BY <1>1, JacksonInductive, MarshalledInductive, PTL DEF StubSpec

-----------------------------------------------------------------------------
(* A call arrives.                                                         *)

\* What the server has of a call, event by event.
IsReceived(w, m) ==
  /\ Len(w) = m + 11 /\ DOMAIN w = 1 .. m + 11
  /\ w[1] = Plain("StartObject")
  /\ w[2] = KeyEvent("jsonrpc") /\ w[3] = String("2.0")
  /\ w[4] = KeyEvent("method") /\ w[5] = String("Test.Do")
  /\ w[6] = KeyEvent("params") /\ w[7] = Opening
  /\ \A i \in 1 .. m : w[7 + i] = Given[i]
  /\ w[m + 8] = Closing
  /\ w[m + 9] = KeyEvent("id") /\ w[m + 10].op \in {"Int32", "Int64"}
  /\ w[m + 11] = Plain("EndObject")

Lossless == \A i \in DOMAIN args : CanBeRead(args[i]) /\ ReadBack(args[i]) = args[i]

\* Events that come back as they were.
LEMMA Kept ==
  /\ \A op \in Structure : ReadBack(Plain(op)) = Plain(op)
  /\ \A s : ReadBack(KeyEvent(s)) = KeyEvent(s)
  /\ \A s : ReadBack(String(s)) = String(s)
<1>1. ASSUME NEW e, e.op \notin {"Int64", "Double"} PROVE ReadBack(e) = e
  BY <1>1 DEF ReadBack
<1>2. \A op \in Structure : Plain(op).op \notin {"Int64", "Double"}
  BY DEF Plain, Structure
<1>3. \A s : KeyEvent(s).op \notin {"Int64", "Double"}
  BY DEF KeyEvent
<1>4. \A s : String(s).op \notin {"Int64", "Double"}
  BY DEF String
<1> QED BY <1>1, <1>2, <1>3, <1>4

\* The parameters come back.
LEMMA GivenKept ==
  ASSUME StubTypes, call # "none", Lossless
  PROVE  \A i \in 1 .. Len(Given) : ReadBack(Given[i]) = Given[i]
<1>1. PICK n \in Nat : args \in [1 .. n -> Arguments]
  BY DEF StubTypes
<1>2. DOMAIN args = 1 .. n
  BY <1>1
<1>3. Len(args) = n
  <2>1. args \in Seq(Arguments)
    BY <1>1
  <2> QED BY <1>1, <2>1
<1>4. \A i \in 1 .. n : ReadBack(args[i]) = args[i]
  BY <1>2 DEF Lossless
<1>5. CASE call = "byPosition"
  BY <1>3, <1>4, <1>5 DEF Given
<1>6. CASE call # "byPosition"
  <2>1. PICK p : p = ParamMembers
    OBVIOUS
  <2>2. Len(p) = 2 * n /\ \A i \in 1 .. n : p[2 * i - 1] = KeyEvent(Name(i)) /\ p[2 * i] = args[i]
    BY <1>3, <2>1, ParamsType
  <2>3. ASSUME NEW i \in 1 .. 2 * n PROVE ReadBack(p[i]) = p[i]
    <3>1. PICK a \in 1 .. n : i = 2 * a - 1 \/ i = 2 * a
      <4>1. (i + 1) \div 2 \in 1 .. n
            /\ (i = 2 * ((i + 1) \div 2) - 1 \/ i = 2 * ((i + 1) \div 2))
        BY <1>1
      <4> QED BY <4>1
    <3>2. CASE i = 2 * a - 1
      BY <2>2, <3>2, Kept
    <3>3. CASE i = 2 * a
      BY <1>4, <2>2, <3>3
    <3> QED BY <3>1, <3>2, <3>3
  <2>4. Given = p
    BY <1>6, <2>1 DEF Given
  <2> QED BY <2>2, <2>3, <2>4
<1> QED BY <1>5, <1>6

\* A message that was written is received.
LEMMA Received ==
  ASSUME StubTypes, call # "none", kind # "notify", Lossless,
         written = [i \in 1 .. Len(Message) |-> Message[i]],
         doc = [i \in DOMAIN written |-> ReadBack(written[i])],
         NEW m \in Nat, m = Len(Given)
  PROVE  IsReceived(doc, m)
<1>1. PICK w : w = Message
  OBVIOUS
<1>2. w \in Seq(WriterEvents) /\ IsMessage(w, m)
  BY <1>1, MessageShape
<1>3. Len(w) = m + 11
  BY <1>2 DEF IsMessage
<1>4. PICK d : d = doc
  OBVIOUS
<1>5. d = [i \in 1 .. m + 11 |-> ReadBack(w[i])]
  <2>1. written = [i \in 1 .. m + 11 |-> w[i]]
    BY <1>1, <1>3
  <2>2. DOMAIN written = 1 .. m + 11 /\ \A i \in 1 .. m + 11 : written[i] = w[i]
    BY <2>1
  <2> QED BY <1>4, <2>2
<1>6. Len(d) = m + 11 /\ DOMAIN d = 1 .. m + 11
  BY <1>5
<1>7. \A i \in 1 .. m + 11 : d[i] = ReadBack(w[i])
  BY <1>5
<1>8. /\ 1 \in 1 .. m + 11 /\ 2 \in 1 .. m + 11 /\ 3 \in 1 .. m + 11 /\ 4 \in 1 .. m + 11
      /\ 5 \in 1 .. m + 11 /\ 6 \in 1 .. m + 11 /\ 7 \in 1 .. m + 11
      /\ m + 8 \in 1 .. m + 11 /\ m + 9 \in 1 .. m + 11 /\ m + 10 \in 1 .. m + 11
      /\ m + 11 \in 1 .. m + 11
  OBVIOUS
<1>9. /\ d[1] = Plain("StartObject")
      /\ d[2] = KeyEvent("jsonrpc") /\ d[3] = String("2.0")
      /\ d[4] = KeyEvent("method") /\ d[5] = String("Test.Do")
      /\ d[6] = KeyEvent("params") /\ d[7] = Opening
  <2>1. "StartObject" \in Structure /\ ReadBack(Opening) = Opening
    <3>1. "StartObject" \in Structure /\ "StartArray" \in Structure
      BY DEF Structure
    <3> QED BY <3>1, Kept DEF Opening
  <2>2. /\ w[1] = Plain("StartObject")
        /\ w[2] = KeyEvent("jsonrpc") /\ w[3] = String("2.0")
        /\ w[4] = KeyEvent("method") /\ w[5] = String("Test.Do")
        /\ w[6] = KeyEvent("params") /\ w[7] = Opening
    BY <1>2, Zenon DEF IsMessage
  <2>3. /\ d[1] = ReadBack(w[1]) /\ d[2] = ReadBack(w[2]) /\ d[3] = ReadBack(w[3])
        /\ d[4] = ReadBack(w[4]) /\ d[5] = ReadBack(w[5]) /\ d[6] = ReadBack(w[6])
        /\ d[7] = ReadBack(w[7])
    BY <1>7, <1>8, Zenon
  <2>4. d[1] = Plain("StartObject") /\ d[7] = Opening
    BY <2>1, <2>2, <2>3, Kept, Zenon
  <2>5. d[2] = KeyEvent("jsonrpc") /\ d[4] = KeyEvent("method") /\ d[6] = KeyEvent("params")
    BY <2>2, <2>3, Kept, Zenon
  <2>6. d[3] = String("2.0") /\ d[5] = String("Test.Do")
    BY <2>2, <2>3, Kept, Zenon
  <2> QED BY <2>4, <2>5, <2>6
<1>10. d[m + 8] = Closing /\ d[m + 9] = KeyEvent("id") /\ d[m + 11] = Plain("EndObject")
  <2>1. "EndObject" \in Structure /\ ReadBack(Closing) = Closing
    <3>1. "EndObject" \in Structure /\ "EndArray" \in Structure
      BY DEF Structure
    <3> QED BY <3>1, Kept DEF Closing
  <2> QED BY <1>2, <1>7, <1>8, <2>1, Kept, Zenon DEF IsMessage
<1>11. d[m + 10].op \in {"Int32", "Int64"}
  <2>1. PICK x : x = [op |-> "Int64", n |-> 0]
    OBVIOUS
  <2>2. d[m + 10] = ReadBack(x)
    BY <1>2, <1>7, <1>8, <2>1, Zenon DEF IsMessage
  <2>3. x.op = "Int64" /\ x.n = 0
    BY <2>1
  <2>4. ReadBack(x) = IF IsInt32(0) THEN [op |-> "Int32", n |-> 0] ELSE x
    BY <2>3 DEF ReadBack
  <2> QED BY <2>2, <2>3, <2>4
<1>12. \A i \in 1 .. m : d[7 + i] = Given[i]
  <2>1. \A i \in 1 .. m : 7 + i \in 1 .. m + 11
    OBVIOUS
  <2>2. \A i \in 1 .. m : w[7 + i] = Given[i]
    BY <1>2, Zenon DEF IsMessage
  <2> QED BY <1>7, <2>1, <2>2, GivenKept, Zenon
<1> QED BY <1>4, <1>6, <1>9, <1>10, <1>11, <1>12, Zenon DEF IsReceived

\* An argument is a scalar.
LEMMA ArgumentOps ==
  ASSUME NEW x \in Arguments
  PROVE  x.op \notin Starts \cup Ends \cup {"Key"}
BY StubAssumption, ScalarsAreEvents, ScalarOps

\* The parameters that the server has, and where keys and ends are among them.
LEMMA GivenEvents ==
  ASSUME StubTypes, call # "none", NEW n \in Nat, args \in [1 .. n -> Arguments],
         NEW m \in Nat, m = Len(Given)
  PROVE  /\ \A i \in 1 .. m : Given[i].op \notin Starts \cup Ends
         /\ call = "byPosition" =>
              m = n /\ \A i \in 1 .. n : Given[i] = args[i] /\ Given[i].op # "Key"
         /\ call # "byPosition" =>
              /\ m = 2 * n
              /\ \A i \in 1 .. n : /\ Given[2 * i - 1] = KeyEvent(Name(i))
                                   /\ Given[2 * i] = args[i]
              /\ \A i \in 1 .. m : Given[i].op = "Key" =>
                   \E a \in 1 .. n : i = 2 * a - 1 /\ Given[i] = KeyEvent(Name(a))
<1>1. Len(args) = n
  <2>1. args \in Seq(Arguments)
    OBVIOUS
  <2> QED BY <2>1
<1>2. \A i \in 1 .. n : args[i].op \notin Starts \cup Ends \cup {"Key"}
  BY ArgumentOps
<1>3. CASE call = "byPosition"
  BY <1>1, <1>2, <1>3 DEF Given
<1>4. CASE call # "byPosition"
  <2>1. PICK p : p = Given
    OBVIOUS
  <2>2. /\ Len(p) = 2 * n
        /\ \A i \in 1 .. n : p[2 * i - 1] = KeyEvent(Name(i)) /\ p[2 * i] = args[i]
    BY <1>1, <1>4, <2>1, ParamsType DEF Given
  <2>3. \A s : KeyEvent(s).op = "Key"
    BY DEF KeyEvent
  <2>4. ASSUME NEW i \in 1 .. 2 * n
        PROVE  /\ p[i].op \notin Starts \cup Ends
               /\ p[i].op = "Key" =>
                    \E a \in 1 .. n : i = 2 * a - 1 /\ p[i] = KeyEvent(Name(a))
    <3>1. PICK a \in 1 .. n : i = 2 * a - 1 \/ i = 2 * a
      <4>1. (i + 1) \div 2 \in 1 .. n
            /\ (i = 2 * ((i + 1) \div 2) - 1 \/ i = 2 * ((i + 1) \div 2))
        OBVIOUS
      <4> QED BY <4>1
    <3>2. CASE i = 2 * a - 1
      <4>1. p[i] = KeyEvent(Name(a))
        BY <2>2, <3>2
      <4>2. p[i].op = "Key"
        BY <2>3, <4>1, Zenon
      <4> QED BY <3>2, <4>1, <4>2 DEF Starts, Ends
    <3>3. CASE i = 2 * a
      BY <1>2, <2>2, <3>3
    <3> QED BY <3>1, <3>2, <3>3
  <2>5. m = 2 * n
    BY <2>1, <2>2
  <2>6. 1 .. m = 1 .. 2 * n
    BY <2>5
  <2>7. /\ \A i \in 1 .. m : Given[i].op \notin Starts \cup Ends
        /\ \A i \in 1 .. n : /\ Given[2 * i - 1] = KeyEvent(Name(i))
                             /\ Given[2 * i] = args[i]
        /\ \A i \in 1 .. m : Given[i].op = "Key" =>
             \E a \in 1 .. n : i = 2 * a - 1 /\ Given[i] = KeyEvent(Name(a))
    BY <2>1, <2>2, <2>4, <2>6, Zenon
  <2> QED BY <1>4, <2>5, <2>7
<1> QED BY <1>3, <1>4

\* The keys of a call of n parameters, whose message has m events for them.
IsKeyOfCall(w, m, n, i) ==
  \/ i = 2 /\ w[i] = KeyEvent("jsonrpc")
  \/ i = 4 /\ w[i] = KeyEvent("method")
  \/ i = 6 /\ w[i] = KeyEvent("params")
  \/ i = m + 9 /\ w[i] = KeyEvent("id")
  \/ call # "byPosition" /\ \E a \in 1 .. n :
       i = 7 + (2 * a - 1) /\ w[i] = KeyEvent(Name(a))

LEMMA KeysOfCall ==
  ASSUME StubTypes, call # "none", NEW n \in Nat, args \in [1 .. n -> Arguments],
         NEW m \in Nat, m = Len(Given), NEW w, IsReceived(w, m),
         NEW i \in 1 .. m + 11, w[i].op = "Key"
  PROVE  IsKeyOfCall(w, m, n, i)
<1>1. \/ i = 1 \/ i = 2 \/ i = 3 \/ i = 4 \/ i = 5 \/ i = 6 \/ i = 7
      \/ i - 7 \in 1 .. m
      \/ i = m + 8 \/ i = m + 9 \/ i = m + 10 \/ i = m + 11
  OBVIOUS
<1>2. /\ \A op : Plain(op).op = op
      /\ \A s : String(s).op = "String"
  BY DEF Plain, String
<1>3. /\ w[1] = Plain("StartObject") /\ w[3] = String("2.0") /\ w[5] = String("Test.Do")
      /\ w[7] = Opening /\ w[m + 8] = Closing /\ w[m + 11] = Plain("EndObject")
      /\ w[m + 10].op \in {"Int32", "Int64"}
  BY Zenon DEF IsReceived
<1>4. w[1].op = "StartObject" /\ w[3].op = "String" /\ w[5].op = "String"
      /\ w[m + 11].op = "EndObject"
  BY <1>2, <1>3, Zenon
<1>5. Opening.op # "Key" /\ Closing.op # "Key"
  BY <1>2 DEF Opening, Closing
<1>6. i \notin {1, 3, 5, 7, m + 8, m + 10, m + 11}
  BY <1>3, <1>4, <1>5
<1>7. /\ w[2] = KeyEvent("jsonrpc") /\ w[4] = KeyEvent("method")
      /\ w[6] = KeyEvent("params") /\ w[m + 9] = KeyEvent("id")
  BY Zenon DEF IsReceived
<1>8. CASE i - 7 \in 1 .. m
  <2>1. PICK j \in 1 .. m : i = 7 + j
    BY <1>8
  <2>2. w[i] = Given[j]
    BY <2>1, Zenon DEF IsReceived
  <2>3. call # "byPosition"
    BY <2>2, GivenEvents
  <2>4. \A x \in 1 .. m : Given[x].op = "Key" =>
             \E a \in 1 .. n : x = 2 * a - 1 /\ Given[x] = KeyEvent(Name(a))
    BY <2>3, GivenEvents, Zenon
  <2>5. PICK a \in 1 .. n : j = 2 * a - 1 /\ Given[j] = KeyEvent(Name(a))
    BY <2>2, <2>4, Zenon
  <2>6. i = 7 + (2 * a - 1) /\ w[i] = KeyEvent(Name(a))
    BY <2>1, <2>2, <2>5
  <2> QED BY <2>3, <2>6 DEF IsKeyOfCall
<1> QED BY <1>1, <1>6, <1>7, <1>8 DEF IsKeyOfCall

\* The first of several places is found.
LEMMA FirstFound ==
  ASSUME NEW s, NEW name, NEW k \in Nat, k \in At(s, name),
         \A i \in At(s, name) : i \in Int /\ k <= i
  PROVE  Find(s, name) = k
<1>1. \A i \in At(s, name) : (\A j \in At(s, name) : i <= j) => i = k
  <2> SUFFICES ASSUME NEW i \in At(s, name), \A j \in At(s, name) : i <= j PROVE i = k
    OBVIOUS
  <2>1. i <= k /\ k <= i /\ i \in Int
    OBVIOUS
  <2> QED BY <2>1
<1>2. \E i \in At(s, name) : \A j \in At(s, name) : i <= j
  OBVIOUS
<1>3. PICK S : S = At(s, name)
  OBVIOUS
<1>4. (CHOOSE i \in S : \A j \in S : i <= j) = k
  BY <1>1, <1>2, <1>3, Zenon
<1> QED BY <1>3, <1>4, Zenon DEF Find

\* The names of a call's parameters.
LEMMA NamesOfCall ==
  ASSUME StubTypes, call # "none", NEW n \in Nat, args \in [1 .. n -> Arguments]
  PROVE  /\ \A i \in 1 .. n : Name(i) \in STRING /\ Name(i) # Quoted
         /\ \A i, j \in 1 .. n : Name(i) = Name(j) => i = j
<1>1. PICK k \in Nat : /\ \A i \in 1 .. k : Name(i) \in STRING /\ Name(i) # Quoted
                       /\ \A i, j \in 1 .. k : Name(i) = Name(j) => i = j
                       /\ args \in [1 .. k -> Arguments]
  BY DEF StubTypes
<1>2. 1 .. n = 1 .. k
  BY <1>1
<1> QED BY <1>1, <1>2, Zenon

\* Where the server finds them.
LEMMA Found ==
  ASSUME StubTypes, call # "none", NEW n \in Nat, args \in [1 .. n -> Arguments],
         NEW m \in Nat, m = Len(Given), IsReceived(doc, m)
  PROVE  /\ Find(doc, "method") = 4
         /\ At(doc, "params") # {} /\ Find(doc, "params") = 6
<1>1. DOMAIN doc = 1 .. m + 11
  BY Zenon DEF IsReceived
<1>2. \A s : KeyEvent(s).op = "Key" /\ KeyEvent(s).s = s
  BY DEF KeyEvent
<1>5. ASSUME NEW s, NEW i \in DOMAIN doc, doc[i] = KeyEvent(s)
      PROVE  \/ i = 2 /\ s = "jsonrpc"
             \/ i = 4 /\ s = "method"
             \/ i = 6 /\ s = "params"
             \/ i = m + 9 /\ s = "id"
             \/ call # "byPosition" /\ \E a \in 1 .. n : i = 7 + (2 * a - 1) /\ s = Name(a)
  <2>1. i \in 1 .. m + 11 /\ doc[i].op = "Key" /\ doc[i].s = s
    BY <1>1, <1>2, <1>5, Zenon
  <2>2. \/ i = 2 /\ doc[i] = KeyEvent("jsonrpc")
        \/ i = 4 /\ doc[i] = KeyEvent("method")
        \/ i = 6 /\ doc[i] = KeyEvent("params")
        \/ i = m + 9 /\ doc[i] = KeyEvent("id")
        \/ call # "byPosition" /\ \E a \in 1 .. n :
             i = 7 + (2 * a - 1) /\ doc[i] = KeyEvent(Name(a))
    <3>1. IsKeyOfCall(doc, m, n, i)
      BY <2>1, KeysOfCall
    <3> QED BY <3>1, Zenon DEF IsKeyOfCall
  <2>3. \A x : doc[i] = KeyEvent(x) => s = x
    BY <1>2, <2>1, Zenon
  <2>4. call # "byPosition" /\ (\E a \in 1 .. n :
             i = 7 + (2 * a - 1) /\ doc[i] = KeyEvent(Name(a)))
        => call # "byPosition" /\ \E a \in 1 .. n : i = 7 + (2 * a - 1) /\ s = Name(a)
    BY <2>3, Zenon
  <2>5. /\ doc[i] = KeyEvent("jsonrpc") => s = "jsonrpc"
        /\ doc[i] = KeyEvent("method") => s = "method"
        /\ doc[i] = KeyEvent("params") => s = "params"
        /\ doc[i] = KeyEvent("id") => s = "id"
    BY <2>3, Zenon
  <2>6. CASE i = 2 /\ doc[i] = KeyEvent("jsonrpc")
    BY <2>5, <2>6
  <2>7. CASE i = 4 /\ doc[i] = KeyEvent("method")
    BY <2>5, <2>7
  <2>8. CASE i = 6 /\ doc[i] = KeyEvent("params")
    BY <2>5, <2>8
  <2>9. CASE i = m + 9 /\ doc[i] = KeyEvent("id")
    BY <2>5, <2>9
  <2>10. CASE call # "byPosition" /\ \E a \in 1 .. n :
             i = 7 + (2 * a - 1) /\ doc[i] = KeyEvent(Name(a))
    BY <2>4, <2>10, Zenon
  <2> QED BY <2>2, <2>6, <2>7, <2>8, <2>9, <2>10, Zenon
<1>6. 4 \in DOMAIN doc /\ 6 \in DOMAIN doc
  BY <1>1
<1>7. doc[4] = KeyEvent("method") /\ doc[6] = KeyEvent("params")
  BY Zenon DEF IsReceived
<1>8. Find(doc, "method") = 4
  <2>1. 4 \in At(doc, "method")
    BY <1>6, <1>7, Zenon DEF At
  <2>2. ASSUME NEW i \in At(doc, "method") PROVE i \in Int /\ 4 <= i
    <3>1. i \in DOMAIN doc /\ doc[i] = KeyEvent("method")
      BY DEF At
    <3>2. \/ i = 2 /\ "method" = "jsonrpc"
          \/ i = 4 /\ "method" = "method"
          \/ i = 6 /\ "method" = "params"
          \/ i = m + 9 /\ "method" = "id"
          \/ call # "byPosition" /\ \E a \in 1 .. n : i = 7 + (2 * a - 1) /\ "method" = Name(a)
      BY <1>5, <3>1
    <3> QED BY <3>2
  <2> QED BY <2>1, <2>2, FirstFound
<1>9. At(doc, "params") # {} /\ Find(doc, "params") = 6
  <2>1. 6 \in At(doc, "params")
    BY <1>6, <1>7, Zenon DEF At
  <2>2. ASSUME NEW i \in At(doc, "params") PROVE i \in Int /\ 6 <= i
    <3>1. i \in DOMAIN doc /\ doc[i] = KeyEvent("params")
      BY DEF At
    <3>2. \/ i = 2 /\ "params" = "jsonrpc"
          \/ i = 4 /\ "params" = "method"
          \/ i = 6 /\ "params" = "params"
          \/ i = m + 9 /\ "params" = "id"
          \/ call # "byPosition" /\ \E a \in 1 .. n : i = 7 + (2 * a - 1) /\ "params" = Name(a)
      BY <1>5, <3>1
    <3> QED BY <3>2
  <2> QED BY <2>1, <2>2, FirstFound
<1> QED BY <1>8, <1>9

\* Where it finds the parameters among the members of params, whatever their names.
LEMMA FoundWithin ==
  ASSUME StubTypes, call # "none", call # "byPosition",
         NEW n \in Nat, args \in [1 .. n -> Arguments], NEW a \in 1 .. n
  PROVE  At(Given, Name(a)) # {} /\ Value(Given, Name(a)) = args[a]
<1>1. PICK g : g = Given
  OBVIOUS
<1>2. PICK m \in Nat : m = Len(g)
  BY <1>1, MessageShape
<1>3. DOMAIN g = 1 .. m
  <2>1. g \in Seq(WriterEvents)
    BY <1>1, ParamsMember
  <2> QED BY <1>2, <2>1
<1>4. /\ m = 2 * n
      /\ \A i \in 1 .. n : g[2 * i - 1] = KeyEvent(Name(i)) /\ g[2 * i] = args[i]
      /\ \A i \in 1 .. m : g[i].op = "Key" =>
           \E b \in 1 .. n : i = 2 * b - 1 /\ g[i] = KeyEvent(Name(b))
  <2>1. m = Len(Given)
    BY <1>1, <1>2
  <2>2. /\ m = 2 * n
        /\ \A i \in 1 .. n : /\ Given[2 * i - 1] = KeyEvent(Name(i))
                             /\ Given[2 * i] = args[i]
        /\ \A i \in 1 .. m : Given[i].op = "Key" =>
             \E b \in 1 .. n : i = 2 * b - 1 /\ Given[i] = KeyEvent(Name(b))
    BY <2>1, GivenEvents, Zenon
  <2> QED BY <1>1, <2>2, Zenon
<1>5. \A s : KeyEvent(s).op = "Key" /\ KeyEvent(s).s = s
  BY DEF KeyEvent
<1>6. PICK k \in Nat : k = 2 * a - 1
  OBVIOUS
<1>7. k \in At(g, Name(a))
  <2>1. k \in 1 .. m
    BY <1>4, <1>6
  <2>2. g[k] = KeyEvent(Name(a))
    BY <1>4, <1>6
  <2> QED BY <1>3, <2>1, <2>2, Zenon DEF At
<1>8. ASSUME NEW i \in At(g, Name(a)) PROVE i \in Int /\ k <= i
  <2>1. i \in 1 .. m /\ g[i] = KeyEvent(Name(a))
    BY <1>3 DEF At
  <2>2. g[i].op = "Key" /\ g[i].s = Name(a)
    BY <1>5, <2>1, Zenon
  <2>3. PICK b \in 1 .. n : i = 2 * b - 1 /\ g[i] = KeyEvent(Name(b))
    BY <1>4, <2>1, <2>2, Zenon
  <2>4. Name(a) = Name(b)
    BY <1>5, <2>2, <2>3, Zenon
  <2>5. a = b
    BY <2>4, NamesOfCall
  <2> QED BY <1>6, <2>3, <2>5
<1>9. Find(g, Name(a)) = k
  BY <1>7, <1>8, FirstFound
<1>10. Value(g, Name(a)) = g[1 + k]
  BY <1>9, Zenon DEF Value
<1>11. 1 + k = 2 * a /\ g[2 * a] = args[a]
  BY <1>4, <1>6
<1> QED BY <1>1, <1>7, <1>10, <1>11

\* The elements or members of params.
LEMMA WithinGiven ==
  ASSUME StubTypes, call # "none", NEW n \in Nat, args \in [1 .. n -> Arguments],
         NEW m \in Nat, m = Len(Given), IsReceived(doc, m)
  PROVE  ParamsAt = 7 /\ (IsArray <=> call = "byPosition") /\ Within = Given
<1>1. ParamsAt = 7
  <2>1. Find(doc, "params") = 6
    BY Found
  <2> QED BY <2>1 DEF ParamsAt
<1>2. doc[7] = Opening /\ doc[m + 8] = Closing /\ Len(doc) = m + 11
  BY Zenon DEF IsReceived
<1>3. \A op : Plain(op).op = op
  BY DEF Plain
<1>4. IsArray <=> call = "byPosition"
  <2>1. IsArray <=> Opening.op = "StartArray"
    BY <1>1, <1>2, Zenon DEF IsArray
  <2> QED BY <1>3, <2>1 DEF Opening
<1>5. \A i \in 1 .. m : doc[7 + i] = Given[i]
  BY Zenon DEF IsReceived
<1>6. \A i \in 7 .. m + 7 : doc[i].op \notin {"EndArray", "EndObject"}
  <2>1. Opening.op \notin {"EndArray", "EndObject"}
    BY <1>3 DEF Opening
  <2>2. ASSUME NEW i \in 8 .. m + 7 PROVE doc[i].op \notin {"EndArray", "EndObject"}
    <3>1. PICK j \in 1 .. m : i = 7 + j
      <4>1. i - 7 \in 1 .. m /\ i = 7 + (i - 7)
        OBVIOUS
      <4> QED BY <4>1
    <3>2. doc[i] = Given[j]
      BY <1>5, <3>1
    <3>3. Given[j].op \notin Starts \cup Ends
      BY GivenEvents
    <3> QED BY <3>2, <3>3 DEF Ends
  <2>3. \A i \in 7 .. m + 7 : i = 7 \/ i \in 8 .. m + 7
    OBVIOUS
  <2> QED BY <1>2, <2>1, <2>2, <2>3, Zenon
<1>7. doc[m + 8].op \in {"EndArray", "EndObject"}
  BY <1>2, <1>3 DEF Closing
<1>8. PICK end : end = CHOOSE j \in ParamsAt .. Len(doc) :
               /\ doc[j].op \in {"EndArray", "EndObject"}
               /\ \A i \in ParamsAt .. j - 1 : doc[i].op \notin {"EndArray", "EndObject"}
  OBVIOUS
<1>9. end = m + 8
  <2> DEFINE P(j) == /\ doc[j].op \in {"EndArray", "EndObject"}
                     /\ \A i \in 7 .. j - 1 : doc[i].op \notin {"EndArray", "EndObject"}
  <2>1. end = CHOOSE j \in 7 .. m + 11 : P(j)
    BY <1>1, <1>2, <1>8, Zenon
  <2>2. m + 8 \in 7 .. m + 11 /\ P(m + 8)
    <3>1. m + 8 - 1 = m + 7 /\ m + 8 \in 7 .. m + 11
      OBVIOUS
    <3> QED BY <1>6, <1>7, <3>1
  <2>3. \A j \in 7 .. m + 11 : P(j) => j = m + 8
    <3> SUFFICES ASSUME NEW j \in 7 .. m + 11, P(j) PROVE j = m + 8
      OBVIOUS
    <3>1. ~(j \in 7 .. m + 7)
      BY <1>6
    <3>2. j \in m + 9 .. m + 11 => m + 8 \in 7 .. j - 1
      OBVIOUS
    <3>3. ~(j \in m + 9 .. m + 11)
      BY <1>7, <3>2
    <3> QED BY <3>1, <3>3
  <2> HIDE DEF P
  <2> QED BY <2>1, <2>2, <2>3
<1>10. Within = SubSeq(doc, 8, m + 7)
  <2>1. ParamsAt + 1 = 8 /\ end - 1 = m + 7
    BY <1>1, <1>9
  <2> QED BY <1>8, <2>1, Zenon DEF Within
<1>11. SubSeq(doc, 8, m + 7) = Given
  <2>1. PICK S : S = {doc[i] : i \in 1 .. m + 11}
    OBVIOUS
  <2>2. \A i \in 8 .. m + 7 : doc[i] \in S
    <3>1. \A i \in 8 .. m + 7 : i \in 1 .. m + 11
      OBVIOUS
    <3> QED BY <2>1, <3>1
  <2>3. PICK f : f = SubSeq(doc, 8, m + 7)
    OBVIOUS
  <2>4. /\ f \in Seq(S)
        /\ Len(f) = IF 8 <= m + 7 THEN m + 7 - 8 + 1 ELSE 0
        /\ \A i \in 1 .. m + 7 - 8 + 1 : f[i] = doc[8 + i - 1]
    BY <2>2, <2>3, SubSeqProperties
  <2>5. Len(f) = m /\ m + 7 - 8 + 1 = m
    BY <2>4
  <2>6. \A i \in 1 .. m : f[i] = Given[i]
    <3>1. \A i \in 1 .. m : 8 + i - 1 = 7 + i
      OBVIOUS
    <3> QED BY <1>5, <2>4, <2>5, <3>1
  <2>7. PICK gv : gv = Given /\ gv \in Seq(WriterEvents) /\ Len(gv) = m
    BY ParamsMember
  <2>8. f = gv
    <3>1. f = [i \in 1 .. m |-> f[i]]
      BY <2>4, <2>5
    <3>2. gv = [i \in 1 .. m |-> gv[i]]
      BY <2>7
    <3> QED BY <2>6, <2>7, <3>1, <3>2
  <2> QED BY <2>3, <2>7, <2>8
<1> QED BY <1>1, <1>4, <1>10, <1>11

\* What the server does with a call that it has: it validates, and it hands on the
\* arguments in their order.
LEMMA Served ==
  ASSUME StubTypes, call # "none", params_ # <<>>,
         NEW m \in Nat, m = Len(Given), IsReceived(doc, m)
  PROVE  Value(doc, "method") = String("Test.Do") /\ Validates /\ Picked = args
<1>1. PICK n \in Nat :
        /\ params_ = [i \in 1 .. n |-> params_[i]]
        /\ args \in [1 .. n -> Arguments]
        /\ \A i \in 1 .. n : TypeOf(args[i]) = params_[i].paramType
  BY DEF StubTypes
<1>2. n > 0
  <2>1. n = 0 => params_ = <<>>
    BY <1>1
  <2> QED BY <2>1
<1>3. DOMAIN params_ = 1 .. n
  BY <1>1, Zenon
<1>4. Len(params_) = n
  BY <1>1, <1>3
<1>5. Find(doc, "method") = 4 /\ At(doc, "params") # {}
  BY <1>1, Found
<1>6. (IsArray <=> call = "byPosition") /\ Within = Given
  BY <1>1, WithinGiven
<1>7. /\ call = "byPosition" =>
           m = n /\ \A i \in 1 .. n : Given[i] = args[i]
      /\ call # "byPosition" =>
           m = 2 * n /\ \A i \in 1 .. n : Given[2 * i] = args[i]
  BY <1>1, GivenEvents
<1>9. Value(doc, "method") = String("Test.Do")
  <2>1. Value(doc, "method") = doc[1 + 4]
    BY <1>5, Zenon DEF Value
  <2>2. 1 + 4 = 5
    OBVIOUS
  <2> QED BY <2>1, <2>2, Zenon DEF IsReceived
<1>10. ASSUME call # "byPosition", NEW i \in 1 .. n
       PROVE  /\ At(Within, params_[i].paramName) # {}
              /\ Value(Within, params_[i].paramName) = args[i]
  <2>1. At(Given, Name(i)) # {} /\ Value(Given, Name(i)) = args[i]
    BY <1>1, <1>10, FoundWithin
  <2> QED BY <1>6, <2>1, Zenon DEF Name
<1>11. Size = n
  <2>1. IsArray => Size = m
    BY <1>6, Zenon DEF Size
  <2>2. ~IsArray => Size = m \div 2
    BY <1>6, Zenon DEF Size
  <2>3. (2 * n) \div 2 = n
    OBVIOUS
  <2> QED BY <1>6, <1>7, <2>1, <2>2, <2>3
<1>12. Validates
  <2>1. At(doc, "params") # {}
    BY <1>5
  <2>2. Size # 0 /\ Size = Len(params_)
    BY <1>2, <1>4, <1>11
  <2>3. ASSUME NEW i \in 1 .. n, IsArray
        PROVE  TypeOf(Within[i]) = params_[i].paramType
    BY <1>1, <1>6, <1>7, <2>3, Zenon
  <2>4. ASSUME NEW i \in 1 .. n, ~IsArray
        PROVE  At(Within, params_[i].paramName) # {}
               /\ TypeOf(Value(Within, params_[i].paramName)) = params_[i].paramType
    BY <1>1, <1>6, <1>10, <2>4, Zenon
  <2> QED BY <1>3, <2>1, <2>2, <2>3, <2>4, Zenon DEF Validates
<1>13. Picked = args
  <2>1. ASSUME NEW i \in 1 .. n
        PROVE  (IF IsArray THEN FromArray(i) ELSE FromObject(i)) = args[i]
    <3>1. CASE IsArray
      BY <1>6, <1>7, <3>1, Zenon DEF FromArray
    <3>2. CASE ~IsArray
      BY <1>1, <1>6, <1>10, <3>2, Zenon DEF FromObject
    <3> QED BY <3>1, <3>2
  <2>2. Picked = [i \in 1 .. n |-> IF IsArray THEN FromArray(i) ELSE FromObject(i)]
    BY <1>3, Zenon DEF Picked
  <2>3. Picked = [i \in 1 .. n |-> args[i]]
    BY <2>1, <2>2, Zenon
  <2> QED BY <1>1, <2>3
<1> QED BY <1>9, <1>12, <1>13

\* Until the user calls, nothing is written; then the client writes its message, and
\* all of it before the server reads.
Sent ==
  /\ kind # "any" /\ call = "none" => written = <<>> /\ status = "writing"
  /\ call # "none" =>
       /\ Len(written) <= Len(Message)
       /\ \A i \in 1 .. Len(written) : written[i] = Message[i]
       /\ status # "writing" => Len(written) = Len(Message)

\* All of a call can be read, if the arguments can.
LEMMA CallCanBeRead ==
  ASSUME StubTypes, call # "none", Lossless,
         NEW m \in Nat, m = Len(Given), NEW w, IsReceived(w, m)
  PROVE  AllCanBeRead(w)
<1>1. PICK n \in Nat : args \in [1 .. n -> Arguments]
  BY DEF StubTypes
<1>2. \A s : KeyEvent(s).op = "Key" /\ KeyEvent(s).s = s
  BY DEF KeyEvent
<1>3. \A a \in 1 .. n : CanBeRead(args[a])
  BY <1>1 DEF Lossless
<1>4. ASSUME NEW i \in 1 .. m + 11 PROVE w[i] # KeyEvent(Quoted)
  <2> SUFFICES ASSUME w[i] = KeyEvent(Quoted) PROVE FALSE
    OBVIOUS
  <2>1. w[i].op = "Key" /\ w[i].s = Quoted
    BY <1>2, Zenon
  <2>2. \/ w[i] = KeyEvent("jsonrpc") \/ w[i] = KeyEvent("method")
        \/ w[i] = KeyEvent("params") \/ w[i] = KeyEvent("id")
        \/ \E a \in 1 .. n : w[i] = KeyEvent(Name(a))
    <3>1. IsKeyOfCall(w, m, n, i)
      BY <1>1, <2>1, KeysOfCall
    <3> QED BY <3>1, Zenon DEF IsKeyOfCall
  <2>3. Quoted \in {"jsonrpc", "method", "params", "id"} \/ \E a \in 1 .. n : Quoted = Name(a)
    <3>1. \A s : w[i] = KeyEvent(s) => Quoted = s
      BY <1>2, <2>1, Zenon
    <3> QED BY <2>2, <3>1, Zenon
  <2>4. Quoted \notin {"jsonrpc", "method", "params", "id"}
    BY DEF Quoted
  <2>5. \A a \in 1 .. n : Name(a) # Quoted
    BY <1>1, NamesOfCall
  <2> QED BY <2>3, <2>4, <2>5
<1>5. ASSUME NEW i \in 1 .. m + 11 PROVE w[i].op = "Double" => w[i].class # "denormal"
  <2>1. \/ i = 1 \/ i = 2 \/ i = 3 \/ i = 4 \/ i = 5 \/ i = 6 \/ i = 7
        \/ i - 7 \in 1 .. m
        \/ i = m + 8 \/ i = m + 9 \/ i = m + 10 \/ i = m + 11
    OBVIOUS
  <2>2. \A op : Plain(op).op = op
    BY DEF Plain
  <2>3. \A s : String(s).op = "String"
    BY DEF String
  <2>4. Opening.op # "Double" /\ Closing.op # "Double"
    BY <2>2 DEF Opening, Closing
  <2>5. /\ w[1].op = "StartObject" /\ w[2].op = "Key" /\ w[3].op = "String"
        /\ w[4].op = "Key" /\ w[5].op = "String" /\ w[6].op = "Key" /\ w[7] = Opening
        /\ w[m + 8] = Closing /\ w[m + 9].op = "Key" /\ w[m + 10].op \in {"Int32", "Int64"}
        /\ w[m + 11].op = "EndObject"
    BY <1>2, <2>2, <2>3, Zenon DEF IsReceived
  <2>6. CASE i - 7 \in 1 .. m
    <3>1. PICK j \in 1 .. m : i = 7 + j
      BY <2>6
    <3>2. w[i] = Given[j]
      BY <3>1, Zenon DEF IsReceived
    <3>3. Given[j].op = "Key" \/ \E a \in 1 .. n : Given[j] = args[a]
      <4>1. CASE call = "byPosition"
        BY <1>1, <4>1, GivenEvents
      <4>2. CASE call # "byPosition"
        <5>1. m = 2 * n /\ \A a \in 1 .. n : /\ Given[2 * a - 1] = KeyEvent(Name(a))
                                             /\ Given[2 * a] = args[a]
          BY <1>1, <4>2, GivenEvents
        <5>2. PICK a \in 1 .. n : j = 2 * a - 1 \/ j = 2 * a
          <6>1. (j + 1) \div 2 \in 1 .. n
                /\ (j = 2 * ((j + 1) \div 2) - 1 \/ j = 2 * ((j + 1) \div 2))
            BY <5>1
          <6> QED BY <6>1
        <5>3. Given[j] = KeyEvent(Name(a)) \/ Given[j] = args[a]
          BY <5>1, <5>2
        <5>4. Given[j] = KeyEvent(Name(a)) => Given[j].op = "Key"
          BY <1>2, Zenon
        <5> QED BY <5>3, <5>4, Zenon
      <4> QED BY <4>1, <4>2
    <3> QED BY <1>3, <3>2, <3>3 DEF CanBeRead
  <2> QED BY <2>1, <2>4, <2>5, <2>6
<1>6. DOMAIN w = 1 .. m + 11
  BY Zenon DEF IsReceived
<1> QED BY <1>4, <1>5, <1>6 DEF AllCanBeRead, CanBeRead

\* What the server reads of a call has no error, and is the call.
LEMMA CallRead ==
  /\ StubTypes /\ written \in Seq(WriterEvents) /\ RoundTrip /\ Sent
  /\ IsCall /\ Over /\ Lossless
  => status = "PARSE_OK" /\ IsReceived(doc, Len(Given))
<1> SUFFICES ASSUME StubTypes, written \in Seq(WriterEvents), RoundTrip, Sent,
                    IsCall, Over, Lossless
             PROVE  status = "PARSE_OK" /\ IsReceived(doc, Len(Given))
  OBVIOUS
<1>1. call # "none" /\ kind = "procedure" /\ kind # "notify" /\ kind # "any" /\ status # "writing"
  BY DEF IsCall, Over
<1>2. ~foreign
  BY <1>1 DEF StubTypes
<1>3. PICK m \in Nat : m = Len(Given)
  BY <1>1, MessageShape
<1>4. PICK w : w = Message
  OBVIOUS
<1>5. w \in Seq(WriterEvents) /\ IsMessage(w, m)
  BY <1>1, <1>3, <1>4, MessageShape
<1>6. Len(written) = Len(w) /\ \A i \in 1 .. Len(w) : written[i] = w[i]
  BY <1>1, <1>4, Zenon DEF Sent
<1>7. written = w
  <2>1. written = [i \in 1 .. Len(written) |-> written[i]]
    OBVIOUS
  <2>2. w = [i \in 1 .. Len(w) |-> w[i]]
    BY <1>5
  <2> QED BY <1>6, <2>1, <2>2, Zenon
<1>8. IsReceived(w, m)
  <2>1. Len(w) = m + 11 /\ DOMAIN w = 1 .. m + 11
    BY <1>5 DEF IsMessage
  <2>2. w[m + 10].op = "Int64"
    BY <1>5 DEF IsMessage
  <2> QED BY <1>5, <2>1, <2>2 DEF IsMessage, IsReceived
<1>9. AllCanBeRead(written)
  BY <1>1, <1>3, <1>7, <1>8, CallCanBeRead
<1>10. /\ status = "PARSE_OK"
       /\ doc = [i \in DOMAIN written |-> ReadBack(written[i])]
  BY <1>2, <1>9 DEF RoundTrip, AllCanBeRead
<1>11. IsReceived(doc, m)
  <2>1. written = [i \in 1 .. Len(Message) |-> Message[i]]
    BY <1>4, <1>5, <1>7
  <2> QED BY <1>1, <1>3, <1>10, <2>1, Received
<1> QED BY <1>3, <1>10, <1>11

\* A message is the same as long as the call is.
LEMMA MessageStays ==
  ASSUME UNCHANGED <<kind, params_, call, args>>
  PROVE  Message' = Message
BY DEF Message, NotifyMessage, CallMessage, Params, ParamMembers, Member, Plain, KeyEvent,
       String

\* The user's step gives a message, of some length.
LEMMA MessageLength ==
  StubTypes /\ call # "none" => Message \in Seq(WriterEvents) /\ Len(Message) \in Nat
<1> SUFFICES ASSUME StubTypes, call # "none"
             PROVE  Message \in Seq(WriterEvents) /\ Len(Message) \in Nat
  OBVIOUS
<1>1. PICK w : w = Message
  OBVIOUS
<1>2. w \in Seq(WriterEvents)
  BY <1>1, MessageShape
<1>3. Len(w) \in Nat
  BY <1>2
<1> QED BY <1>1, <1>2, <1>3

\* Every step keeps to the message.
LEMMA SentStep ==
  ASSUME StubTypes, StubTypes', written \in Seq(WriterEvents), Sent, [StubNext]_marshalVars
  PROVE  Sent'
<1>1. (StubTypes /\ call # "none" => Message \in Seq(WriterEvents) /\ Len(Message) \in Nat)'
  BY MessageLength, PTL
<1>2. CASE UNCHANGED <<kind, params_, call, args, written>> /\ status' = status
  <2>1. Message' = Message
    BY <1>2, MessageStays
  <2> QED BY <1>2, <2>1 DEF Sent
<1>3. CASE kind = "any" /\ UNCHANGED stubVars
  BY <1>3 DEF Sent, stubVars, StubTypes
<1>4. CASE call # "none" /\ Len(written) = Len(Message) /\ StartReading /\ UNCHANGED stubVars
  <2>1. Message' = Message
    BY <1>4, MessageStays DEF stubVars
  <2>2. UNCHANGED <<kind, call, args, written>>
    BY <1>4 DEF stubVars, StartReading, writerVars
  <2> QED BY <1>4, <2>1, <2>2 DEF Sent
<1>5. CASE Read /\ UNCHANGED stubVars
  <2>1. Message' = Message
    BY <1>5, MessageStays DEF stubVars
  <2>2. UNCHANGED <<kind, call, args, written>> /\ status = "reading"
    BY <1>5 DEF stubVars, Read, writerVars
  <2> QED BY <2>1, <2>2 DEF Sent
<1>6. CASE Generate
  <2>1. kind = "rpc" /\ UNCHANGED <<jsonVars, call>>
    BY <1>6 DEF Generate
  <2>2. call = "none"
    BY <2>1 DEF StubTypes
  <2> QED BY <2>1, <2>2 DEF Sent, jsonVars, writerVars
<1>7. CASE UserCalls
  <2>1. /\ kind # "any" /\ call = "none" /\ call' # "none" /\ kind' # "any"
        /\ UNCHANGED jsonVars
    BY <1>7 DEF UserCalls
  <2>2. written' = <<>> /\ status' = "writing"
    BY <2>1 DEF Sent, jsonVars, writerVars
  <2>3. PICK w : w = Message' /\ w \in Seq(WriterEvents) /\ Len(w) \in Nat
    BY <1>1, <2>1
  <2>4. Len(written') = 0 /\ Len(written') <= Len(Message')
    BY <2>2, <2>3
  <2>5. \A i \in 1 .. Len(written') : written'[i] = Message'[i]
    BY <2>4
  <2> QED BY <2>1, <2>2, <2>4, <2>5, Zenon DEF Sent
<1>8. CASE ClientWrites
  <2>1. call # "none" /\ call' # "none"
    BY <1>8 DEF ClientWrites, stubVars
  <2>2. Message' = Message
    BY <1>8, MessageStays DEF ClientWrites, stubVars
  <2>3. PICK w : w = Message /\ w \in Seq(WriterEvents) /\ Len(w) \in Nat
    BY <2>1, MessageLength
  <2>4. Len(written) < Len(w) /\ Write(w[Len(written) + 1])
    BY <1>8, <2>3, Zenon DEF ClientWrites
  <2>5. PICK x : x = w[Len(written) + 1]
    OBVIOUS
  <2>6. written' = Append(written, x) /\ status' = "writing"
    BY <2>4, <2>5 DEF Write
  <2>7. Len(written') = Len(written) + 1 /\ Len(written') <= Len(w)
    BY <2>4, <2>6
  <2>8. ASSUME NEW i \in 1 .. Len(written') PROVE written'[i] = w[i]
    <3>1. CASE i = Len(written) + 1
      BY <2>5, <2>6, <3>1
    <3>2. CASE i # Len(written) + 1
      <4>1. i \in 1 .. Len(written)
        BY <2>7, <3>2
      <4>2. written[i] = w[i]
        BY <2>1, <2>3, <4>1 DEF Sent
      <4> QED BY <2>6, <4>1, <4>2
    <3> QED BY <3>1, <3>2
  <2> QED BY <2>1, <2>2, <2>3, <2>6, <2>7, <2>8, Zenon DEF Sent
<1>9. CASE ServerCalls
  BY <1>2, <1>9 DEF ServerCalls, jsonVars, writerVars
<1>10. CASE UNCHANGED marshalVars
  BY <1>2, <1>10 DEF marshalVars, jsonVars, writerVars, stubVars
<1> QED BY <1>3, <1>4, <1>5, <1>6, <1>7, <1>8, <1>9, <1>10 DEF StubNext

\* The invariant of a call.
Called == Sent /\ CallArrives

\* It is inductive, with what holds of every text and of every value written.
LEMMA CalledInductive ==
  /\ StubInit => Called
  /\ /\ JacksonInv /\ JacksonInv' /\ Marshalled /\ Marshalled' /\ Called
     /\ [StubNext]_marshalVars
     => Called'
<1>1. ASSUME StubInit PROVE Called
  <2>1. call = "none" /\ written = <<>> /\ status = "writing"
    BY <1>1 DEF StubInit, JsonInit
  <2> QED BY <2>1 DEF Called, Sent, CallArrives, IsCall
<1>2. ASSUME JacksonInv, JacksonInv', Marshalled, Marshalled', Called, [StubNext]_marshalVars
      PROVE  Called'
  <2>1. StubTypes /\ StubTypes' /\ written \in Seq(WriterEvents) /\ written' \in Seq(WriterEvents)
    BY <1>2 DEF JacksonInv
  <2>2. RoundTrip /\ RoundTrip' /\ Sent /\ CallArrives
    BY <1>2 DEF Marshalled, Called
  <2>3. Sent'
    BY <1>2, <2>1, <2>2, SentStep
  <2>4. (/\ StubTypes /\ written \in Seq(WriterEvents) /\ RoundTrip /\ Sent
         /\ IsCall /\ Over /\ Lossless
         => status = "PARSE_OK" /\ IsReceived(doc, Len(Given)))'
    BY CallRead, PTL
  <2>5. CallArrives'
    <3> SUFFICES ASSUME Ended', IsCall', Lossless'
                 PROVE  outcome' = "called" /\ received' = args'
      BY DEF CallArrives, Lossless
    <3>1. call' # "none" /\ kind' = "procedure" /\ params_' # <<>>
      BY DEF IsCall
    <3>2. Over' => status' = "PARSE_OK"
      BY <2>1, <2>2, <2>3, <2>4
    <3>3. outcome' # "none"
      BY <3>2 DEF Ended
    <3>4. CASE UNCHANGED stubVars
      <4>1. UNCHANGED <<kind, params_, call, args, outcome, received>>
        BY <3>4 DEF stubVars
      <4>2. Ended /\ IsCall /\ \A i \in DOMAIN args : CanBeRead(args[i]) /\ ReadBack(args[i]) = args[i]
        BY <3>3, <4>1 DEF Ended, IsCall, Lossless
      <4> QED BY <2>2, <4>1, <4>2 DEF CallArrives
    <3>5. CASE Generate
      <4>1. kind = "rpc" /\ call' = call
        BY <3>5 DEF Generate
      <4> QED BY <2>1, <3>1, <4>1 DEF StubTypes
    <3>6. CASE UserCalls
      BY <3>3, <3>6 DEF UserCalls
    <3>7. CASE ServerCalls
      <4>1. /\ status = "PARSE_OK" /\ UNCHANGED <<kind, params_, call, args>>
            /\ outcome' = IF Value(doc, "method") # String("Test.Do") THEN "not found"
                          ELSE IF Validates THEN "called" ELSE "params name or type mismatch"
            /\ received' = IF outcome' = "called" THEN Picked ELSE <<>>
        BY <3>7 DEF ServerCalls
      <4>2. IsCall /\ Over /\ Lossless /\ call # "none" /\ params_ # <<>>
        BY <3>1, <4>1 DEF IsCall, Over, Lossless
      <4>3. PICK m \in Nat : m = Len(Given)
        BY <2>1, <4>2, MessageShape
      <4>4. IsReceived(doc, m)
        BY <2>1, <2>2, <4>2, <4>3, CallRead
      <4>5. Value(doc, "method") = String("Test.Do") /\ Validates /\ Picked = args
        BY <2>1, <4>2, <4>3, <4>4, Served
      <4> QED BY <4>1, <4>5, Zenon
    <3> QED BY <1>2, <3>4, <3>5, <3>6, <3>7 DEF StubNext, ClientWrites, marshalVars
  <2> QED BY <2>3, <2>5 DEF Called
<1> QED BY <1>1, <1>2

\* A call of a procedure with parameters, for any definition and any arguments, by name
\* or by position, reaches the user's method with those arguments in their order, as
\* long as jackson loses nothing of them.
THEOREM CallsArrive == StubSpec => []CallArrives
<1>1. Called => CallArrives
  BY DEF Called
<1> QED BY <1>1, JacksonInductive, MarshalledInductive, CalledInductive, PTL DEF StubSpec

=============================================================================
