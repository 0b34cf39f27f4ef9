----------------------------- MODULE TcpClient ------------------------------
(***************************************************************************)
(* net/TcpClient.cpp with net/Connector.cpp: a client that attempts to     *)
(* connect until it succeeds, waiting longer after each failure, and       *)
(* starts again when its connection closes if enableRetry was called.      *)
(*                                                                         *)
(* Everything happens on one loop: the connector's channel, the timers of  *)
(* retry and the connection's channel are handled first (todo), then the   *)
(* functors.  connect, stop and disconnect may be called from any thread.  *)
(* An attempt's channel is removed when it is handled, but channel_ is     *)
(* reset by a functor only.                                                *)
(***************************************************************************)
EXTENDS Naturals, Sequences

CONSTANTS
  InitDelay, MaxDelay,  \* KInitRetryDelayMs and kMaxRetryDelayMs
  MaxConns,             \* bound on the connections
  MaxFailures,          \* bound on the attempts that fail
  MaxCalls              \* bound on the calls of connect, stop and forceClose

ASSUME DelayAssumption ==
  InitDelay \in Nat \ {0} /\ MaxDelay \in Nat /\ InitDelay <= MaxDelay
ASSUME BoundAssumption ==
  MaxConns \in Nat \ {0} /\ MaxFailures \in Nat /\ MaxCalls \in Nat

Conns == 1 .. MaxConns

VARIABLES
  retry,                \* TcpClient::retry_
  wanted,               \* TcpClient::connect_
  connection,           \* connection_, 0 if there is none
  nextConnId,           \* nextConnId_
  connect,              \* Connector::connect_
  channel,              \* channel_: null, registered, or removed and not reset
  delay,                \* retryDelatMs_
  timers,               \* timers that will call startInLoop
  conn,                 \* the state of each TcpConnection
  peerClosed,           \* connections whose peer has closed
  pc,                   \* the loop: in epoll_wait, events, functors
  todo,                 \* activeChannels_
  pending, batch,       \* functors queued, and swapped out
  failures, calls,      \* what has been used of the bounds
  careful,              \* ghost: no call was made that the code cannot handle
  aborted               \* an assertion failed or a null pointer was followed

connectorVars == <<connect, channel, delay, timers>>
clientVars == <<retry, wanted, connection, nextConnId>>
loopVars == <<pc, todo, batch>>
boundVars == <<failures, calls, careful>>
tcpVars == <<clientVars, connectorVars, conn, peerClosed, loopVars, pending,
             boundVars, aborted>>

TcpTypeOK ==
  /\ retry \in BOOLEAN /\ wanted \in BOOLEAN /\ connect \in BOOLEAN
  /\ connection \in 0 .. MaxConns /\ nextConnId \in 1 .. MaxConns + 1
  /\ channel \in {"null", "registered", "removed"}
  /\ delay \in InitDelay .. MaxDelay /\ timers \in Nat
  /\ conn \in [Conns -> {"none", "up", "closed", "down"}]
  /\ peerClosed \subseteq Conns
  /\ pc \in {"poll", "events", "functors"}
  /\ careful \in BOOLEAN /\ aborted \in BOOLEAN

TcpInit ==
  /\ retry \in BOOLEAN
  /\ wanted = TRUE
  /\ connection = 0
  /\ nextConnId = 1
  /\ connect = FALSE
  /\ channel = "null"
  /\ delay = InitDelay
  /\ timers = 0
  /\ conn = [k \in Conns |-> "none"]
  /\ peerClosed = {}
  /\ pc = "poll"
  /\ todo = {}
  /\ pending = <<>> /\ batch = <<>>
  /\ failures = 0 /\ calls = 0
  /\ careful = TRUE
  /\ aborted = FALSE

Functor(op, k) == [op |-> op, k |-> k]
Queue(op, k) == pending' = Append(pending, Functor(op, k))

-----------------------------------------------------------------------------
(* Connector. *)

\* removeAndResetChannel: the channel is reset by a functor.
\* A mistake: it is never reset.
RemoveChannel_Kept == channel' = "removed" /\ UNCHANGED pending
RemoveChannel == channel' = "removed" /\ Queue("resetChannel", 0)

\* connect and connecting, which asserts that there is no channel.
ConnectNow ==
  IF channel # "null" THEN aborted' = TRUE /\ UNCHANGED channel
  ELSE channel' = "registered" /\ UNCHANGED aborted

StartInLoop == IF connect THEN ConnectNow ELSE UNCHANGED <<channel, aborted>>

\* retry: the next attempt is made by a timer, later every time.
\* A mistake: the timer is not started.
RetryTimers_None == timers
RetryTimers == timers + 1
Retry ==
  IF connect
    THEN /\ timers' = RetryTimers
         /\ delay' = IF 2 * delay < MaxDelay THEN 2 * delay ELSE MaxDelay
    ELSE UNCHANGED <<timers, delay>>

\* restart, without a functor.
Restart ==
  /\ delay' = InitDelay
  /\ connect' = TRUE
  /\ ConnectNow

-----------------------------------------------------------------------------
(* The loop. *)

Event(what, k) == [what |-> what, k |-> k]
Ready ==
  (IF channel = "registered" THEN {Event("connector", 0)} ELSE {}) \cup
  (IF timers > 0 THEN {Event("timer", 0)} ELSE {}) \cup
  {Event("conn", k) : k \in {n \in Conns : conn[n] = "up" /\ n \in peerClosed}}

\* Any of what is ready by now is reported together.
Poll(ready) ==
  /\ pc = "poll" /\ ~aborted
  /\ todo' \in SUBSET ready
  /\ todo' # {} \/ pending # <<>>
  /\ pc' = "events"
  /\ UNCHANGED <<clientVars, connectorVars, conn, peerClosed, pending, batch,
                 boundVars, aborted>>

Handle(what, k) ==
  /\ pc = "events" /\ ~aborted
  /\ Event(what, k) \in todo
  /\ todo' = todo \ {Event(what, k)}
  /\ UNCHANGED <<pc, batch>>

\* handleWrite of an attempt that failed.
HandleWriteError ==
  /\ Handle("connector", 0)
  /\ failures < MaxFailures
  /\ failures' = failures + 1
  /\ RemoveChannel
  /\ Retry
  /\ UNCHANGED <<clientVars, connect, conn, peerClosed, calls, careful, aborted>>

\* handleWrite of an attempt that succeeded, and newConnection.
HandleWrite ==
  /\ Handle("connector", 0)
  /\ RemoveChannel
  /\ IF connect
       THEN /\ nextConnId <= MaxConns
            /\ nextConnId' = nextConnId + 1
            /\ connection' = nextConnId
            /\ conn' = [conn EXCEPT ![nextConnId] = "up"]
       ELSE UNCHANGED <<nextConnId, connection, conn>>
  /\ UNCHANGED <<retry, wanted, connect, delay, timers, peerClosed, boundVars,
                 aborted>>

TimerFires ==
  /\ Handle("timer", 0)
  /\ timers' = timers - 1
  /\ StartInLoop
  /\ UNCHANGED <<clientVars, connect, delay, conn, peerClosed, pending, boundVars>>

\* handleClose asserts that the connection is up; removeConnection lets go of
\* it, has it destroyed and may start again.
CloseConnection(k) ==
  IF conn[k] \notin {"up", "closed"}
  THEN aborted' = TRUE /\ UNCHANGED <<connection, conn, pending, connectorVars>>
  ELSE /\ connection' = 0
       /\ conn' = [conn EXCEPT ![k] = "closed"]
       /\ Queue("connectDestroyed", k)
       /\ IF retry /\ wanted THEN Restart /\ UNCHANGED timers
          ELSE UNCHANGED <<connectorVars, aborted>>

HandleClose(k) ==
  /\ Handle("conn", k)
  /\ CloseConnection(k)
  /\ UNCHANGED <<retry, wanted, nextConnId, peerClosed, boundVars>>

StartFunctors ==
  /\ pc = "events" /\ todo = {} /\ ~aborted
  /\ pc' = "functors"
  /\ batch' = pending
  /\ pending' = <<>>
  /\ UNCHANGED <<clientVars, connectorVars, conn, peerClosed, todo, boundVars, aborted>>

\* stopInLoop does not look whether there is a channel, and retry connects
\* again, because nothing resets connect_.
StopInLoop ==
  IF channel = "null"
  THEN aborted' = TRUE /\ UNCHANGED <<channel, pending, timers, delay>>
  ELSE /\ RemoveChannel
       /\ Retry
       /\ UNCHANGED aborted

RunFunctor ==
  /\ pc = "functors" /\ batch # <<>> /\ ~aborted
  /\ batch' = Tail(batch)
  /\ LET f == Head(batch) IN
     \/ /\ f.op = "startInLoop" /\ StartInLoop
        /\ UNCHANGED <<connect, delay, timers, connection, conn, pending>>
     \/ /\ f.op = "stopInLoop" /\ StopInLoop
        /\ UNCHANGED <<connect, connection, conn>>
     \/ /\ f.op = "resetChannel" /\ channel' = "null"
        /\ UNCHANGED <<connect, delay, timers, connection, conn, pending, aborted>>
     \/ /\ f.op = "handleClose" /\ CloseConnection(f.k)
     \/ /\ f.op = "connectDestroyed" /\ conn' = [conn EXCEPT ![f.k] = "down"]
        /\ UNCHANGED <<connectorVars, connection, pending, aborted>>
  /\ UNCHANGED <<retry, wanted, nextConnId, peerClosed, pc, todo, boundVars>>

FinishFunctors ==
  /\ pc = "functors" /\ batch = <<>> /\ ~aborted
  /\ pc' = "poll"
  /\ UNCHANGED <<clientVars, connectorVars, conn, peerClosed, todo, pending,
                 batch, boundVars, aborted>>

-----------------------------------------------------------------------------
(* The user, on any thread, and the peer. *)

Call == calls < MaxCalls /\ calls' = calls + 1 /\ ~aborted

\* connect; the code cannot handle a second call.
Connect ==
  /\ Call
  /\ wanted' = TRUE /\ connect' = TRUE
  /\ careful' = (careful /\ ~connect)
  /\ Queue("startInLoop", 0)
  /\ UNCHANGED <<retry, connection, nextConnId, channel, delay, timers, conn,
                 peerClosed, loopVars, failures, aborted>>

\* stop; the code handles it while an attempt is under way only, and then
\* goes on.
Stop ==
  /\ Call
  /\ wanted' = FALSE
  /\ careful' = FALSE
  /\ Queue("stopInLoop", 0)
  /\ UNCHANGED <<retry, connection, nextConnId, connectorVars, conn, peerClosed,
                 loopVars, failures, aborted>>

\* disconnect shuts the connection down, and the peer closes it then.
Disconnect ==
  /\ wanted /\ ~aborted
  /\ wanted' = FALSE
  /\ peerClosed' = IF connection # 0 THEN peerClosed \cup {connection} ELSE peerClosed
  /\ UNCHANGED <<retry, connection, nextConnId, connectorVars, conn, loopVars,
                 pending, boundVars, aborted>>

\* TcpConnection::forceClose; with an end of file in the same turn of the loop
\* the connection is closed, and the client restarted, twice.
ForceClose ==
  /\ Call
  /\ connection # 0
  /\ careful' = FALSE
  /\ Queue("handleClose", connection)
  /\ UNCHANGED <<clientVars, connectorVars, conn, peerClosed, loopVars, failures, aborted>>

\* With the last connection of the bound the peer stays.
PeerClose(k) ==
  /\ conn[k] = "up" /\ k \notin peerClosed
  /\ k < MaxConns \/ ~retry
  /\ peerClosed' = peerClosed \cup {k}
  /\ UNCHANGED <<clientVars, connectorVars, conn, loopVars, pending, boundVars, aborted>>

-----------------------------------------------------------------------------
\* What the loop does but for the wait and a connection's own events.
LoopStep ==
  \/ HandleWriteError \/ HandleWrite \/ TimerFires
  \/ StartFunctors \/ RunFunctor \/ FinishFunctors

-----------------------------------------------------------------------------
\* One attempt, one timer for the next one or one connection at a time, counting
\* those under way between callbacks; no attempt ever finds the channel of the
\* one before.  As long as connect is called once and neither stop nor forceClose.
OneAtATime ==
  careful =>
    /\ ~aborted
    /\ timers <= 1
    /\ (channel = "registered") => timers = 0 /\ connection = 0
    /\ timers > 0 => connection = 0
    /\ \A k \in Conns : conn[k] = "up" => connection = k

\* Attempts go on until one succeeds, and start again when the connection is
\* lost, if that was asked for.
Wants == connect /\ wanted /\ (retry \/ nextConnId = 1)
Connects == Wants ~> connection # 0 \/ ~wanted \/ ~careful

=============================================================================
