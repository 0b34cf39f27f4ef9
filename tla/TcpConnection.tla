--------------------------- MODULE TcpConnection ----------------------------
(***************************************************************************)
(* net/TcpConnection.cpp with what TcpServer, Channel and Poller do for    *)
(* it: one accepted connection from newConnection until connectDestroyed.  *)
(*                                                                         *)
(* Three kinds of threads act on it.  The IO loop polls the socket, calls  *)
(* Channel::handleEvent and then runs the functors queued on it, in order  *)
(* (module EventLoop); user code runs there too, in any callback.  The     *)
(* base loop owns TcpServer::connection_ and runs destroyConnectionInLoop. *)
(* Workers hold the TcpConnectionPtr and call send and shutdown: they test *)
(* state_, and only then act on it (SendCheck / SendQueue, ShutdownCheck / *)
(* ShutdownSet / ShutdownQueue).                                           *)
(*                                                                         *)
(* A message is a sequence of numbered units; the kernel takes any prefix  *)
(* of what it is offered.                                                  *)
(***************************************************************************)
EXTENDS Integers, Sequences, SequencesExt

CONSTANTS
  Workers,              \* threads other than the two loops
  Messages,             \* the messages of a run, each sent once
  MessageLen,           \* units in a message
  HighWaterMark,        \* highWaterMark_
  LateForceClose,       \* user code may call forceClose on a closed connection
  MaxCloses             \* bound on how often handleClose may run

ASSUME MessagesAssumption == Messages # {}
ASSUME MessageLenAssumption == MessageLen \in Nat \ {0}
ASSUME HighWaterMarkAssumption == HighWaterMark \in Nat
ASSUME LateForceCloseAssumption == LateForceClose \in BOOLEAN
ASSUME MaxClosesAssumption == MaxCloses \in Nat

Units(m) == [i \in 1 .. MessageLen |-> <<m, i>>]
Unit == Messages \X (1 .. MessageLen)

VARIABLES
  state,                \* state_
  registered,           \* the channel is in the Poller's epoll set
  writing,              \* Channel::isWriting
  output,               \* outputBuffer_
  wire,                 \* what the kernel has taken from ::write
  fin,                  \* Socket::shutdownWrite has been called
  peerClosed,           \* the peer has closed its end
  pc,                   \* the IO loop: in epoll_wait, events, functors
  revents,              \* Channel::revents_, callbacks still to be called
  pending,              \* the IO loop's pendingFunctors_
  batch,                \* the functors it has swapped out
  destroys,             \* destroyConnectionInLoop calls queued on the base loop
  mapped,               \* TcpServer::connection_ holds the connection
  ups,                  \* connectionCallback_ calls of connectEstablished
  downs,                \* connectionCallback_ calls of connectDestroyed
  closes,               \* handleClose calls
  aborted,              \* an assertion has failed; nothing after it matters
  wpc,                  \* where each worker is in send or shutdown
  wmsg,                 \* the message it is sending
  unsent,               \* messages nobody has sent yet
  accepted              \* messages that sendInLoop was called with, in order

socketVars == <<wire, fin, peerClosed>>
channelVars == <<registered, writing>>
loopVars == <<pc, revents, batch>>
serverVars == <<destroys, mapped>>
callbackVars == <<ups, downs>>
closeVars == <<closes, aborted>>
workerVars == <<wpc, wmsg>>
vars == <<state, channelVars, output, socketVars, loopVars, pending, serverVars,
          callbackVars, closeVars, workerVars, unsent, accepted>>

States == {"Connecting", "Connected", "Disconnecting", "Disconnected"}

Functor ==
  [op : {"sendInLoop"}, msg : Messages] \cup
  [op : {"connectEstablished", "connectDestroyed", "shutdownInLoop",
         "handleClose", "writeComplete", "highWaterMark"}]

\* The types.  Only the functor phase works on a batch, and only the event
\* phase on revents_.
TypeOK ==
  /\ state \in States
  /\ registered \in BOOLEAN
  /\ writing \in BOOLEAN
  /\ output \in Seq(Unit)
  /\ wire \in Seq(Unit)
  /\ fin \in BOOLEAN
  /\ peerClosed \in BOOLEAN
  /\ pc \in {"poll", "events", "functors"}
  /\ revents \subseteq {"IN", "OUT"}
  /\ pending \in Seq(Functor)
  /\ batch \in Seq(Functor)
  /\ destroys \in Nat
  /\ mapped \in BOOLEAN
  /\ ups \in Nat
  /\ downs \in Nat
  /\ closes \in Nat
  /\ aborted \in BOOLEAN
  /\ wpc \in [Workers -> {"idle", "send", "shutdownSet", "shutdownQueue"}]
  /\ wmsg \in [Workers -> Messages]
  /\ unsent \subseteq Messages
  /\ accepted \in Seq(Messages)
  /\ revents # {} => pc = "events"
  /\ batch # <<>> => pc = "functors"

\* TcpServer::newConnection has put the connection in the map and called
\* runInLoop(connectEstablished) on its IO loop.  No constructor sets state_.
Init ==
  /\ state \in States
  /\ registered = FALSE
  /\ writing = FALSE
  /\ output = <<>>
  /\ wire = <<>>
  /\ fin = FALSE
  /\ peerClosed = FALSE
  /\ pc = "poll"
  /\ revents = {}
  /\ pending = <<[op |-> "connectEstablished"]>>
  /\ batch = <<>>
  /\ destroys = 0
  /\ mapped = TRUE
  /\ ups = 0
  /\ downs = 0
  /\ closes = 0
  /\ aborted = FALSE
  /\ wpc = [w \in Workers |-> "idle"]
  /\ wmsg = [w \in Workers |-> CHOOSE m \in Messages : TRUE]
  /\ unsent = Messages
  /\ accepted = <<>>

-----------------------------------------------------------------------------
(* The member functions that run on the IO loop.                           *)

Drop(s, n) == SubSeq(s, n + 1, Len(s))

\* How much of a direct ::write the kernel may take.  Taking nothing stands
\* for the error return too, which sendInLoop treats alike; a socket whose
\* write side is shut down takes nothing.
WriteResult(len) == IF fin THEN {0} ELSE 0 .. len

\* sendInLoop appends what ::write left over, and does so a second time in
\* its last block: remaining > 0 and n < message.size() are the same test.
Leftover_Forgotten(rest) == <<>>
Leftover(rest) == rest \o rest

DirectWrite_Always == TRUE
DirectWrite == ~writing /\ output = <<>>

SendInLoop(m) ==
  \E n \in IF DirectWrite THEN WriteResult(MessageLen) ELSE {0} :
    LET rest == Drop(Units(m), n)
        old == Len(output)
        complete == DirectWrite /\ rest = <<>>
        high == /\ rest # <<>>
                /\ old + Len(rest) > HighWaterMark
                /\ old < HighWaterMark
    IN
    /\ wire' = wire \o SubSeq(Units(m), 1, n)
    /\ output' = output \o Leftover(rest)
    /\ writing' = (writing \/ rest # <<>>)
    /\ pending' = pending \o
         (IF complete THEN <<[op |-> "writeComplete"]>> ELSE <<>>) \o
         (IF high THEN <<[op |-> "highWaterMark"]>> ELSE <<>>)
    /\ accepted' = Append(accepted, m)
    /\ UNCHANGED <<state, registered, fin, serverVars, callbackVars, closeVars>>

ShutdownInLoop_Unconditional(isWriting) == fin' = TRUE
ShutdownInLoop(isWriting) == fin' = (fin \/ ~isWriting)

\* handleClose asserts that the connection is up; disableAll leaves events_
\* as it is, so the channel stays registered and state_ is not changed.  The
\* close callback has the base loop run destroyConnectionInLoop.
HandleClose ==
  /\ closes' = closes + 1
  /\ IF state \in {"Connected", "Disconnecting"}
       THEN destroys' = destroys + 1 /\ UNCHANGED aborted
       ELSE aborted' = TRUE /\ UNCHANGED destroys
  /\ UNCHANGED <<state, channelVars, output, wire, fin, pending, mapped,
                 callbackVars, accepted>>

\* setState, enableReading, connectionCallback_.
ConnectEstablished ==
  /\ state' = "Connected"
  /\ registered' = TRUE
  /\ ups' = ups + 1
  /\ UNCHANGED <<writing, output, wire, fin, pending, serverVars, downs,
                 closeVars, accepted>>

\* setState, disableAll (which puts a removed channel back), the callback,
\* removeChannel.
ConnectDestroyed_NotRemoved ==
  /\ state' = "Disconnected"
  /\ registered' = TRUE
  /\ downs' = downs + 1
  /\ UNCHANGED <<writing, output, wire, fin, pending, serverVars, ups,
                 closeVars, accepted>>
ConnectDestroyed ==
  /\ state' = "Disconnected"
  /\ registered' = FALSE
  /\ downs' = downs + 1
  /\ UNCHANGED <<writing, output, wire, fin, pending, serverVars, ups,
                 closeVars, accepted>>

-----------------------------------------------------------------------------
(* The IO loop.                                                            *)

MayClose == closes < MaxCloses

\* epoll_wait, level triggered: end of file is reported every time, other
\* input and room in the send buffer whenever there is some.
Poll ==
  /\ pc = "poll"
  /\ pc' = "events"
  /\ \E in, out \in BOOLEAN :
       /\ in => registered /\ (peerClosed => MayClose)
       /\ registered /\ peerClosed /\ MayClose => in
       /\ out => registered /\ writing
       /\ revents' = (IF in THEN {"IN"} ELSE {}) \cup
                     (IF out THEN {"OUT"} ELSE {})
  /\ UNCHANGED <<state, channelVars, output, socketVars, pending, batch,
                 serverVars, callbackVars, closeVars, workerVars, unsent,
                 accepted>>

\* handleRead: input goes to the message callback (user code, see UserSend
\* and UserShutdown); end of file is handleClose.
HandleRead ==
  /\ pc = "events"
  /\ "IN" \in revents
  /\ revents' = revents \ {"IN"}
  /\ IF peerClosed
       THEN HandleClose
       ELSE UNCHANGED <<state, channelVars, output, wire, fin, pending,
                        serverVars, callbackVars, closeVars, accepted>>
  /\ UNCHANGED <<peerClosed, pc, batch, workerVars, unsent>>

FinishShutdown_Forgotten(drained) == UNCHANGED fin
FinishShutdown(drained) ==
  IF drained /\ state = "Disconnecting"
    THEN ShutdownInLoop(writing')
    ELSE UNCHANGED fin

StillWriting(drained) == writing /\ ~drained

\* handleWrite: write what the kernel takes; when the buffer has drained stop
\* watching for room, and finish a shutdown that was waiting for this.
HandleWrite ==
  /\ pc = "events"
  /\ revents = {"OUT"}
  /\ revents' = {}
  /\ \E n \in 0 .. Len(output) :
       /\ n = 0 <=> fin \/ ~writing
       /\ wire' = wire \o SubSeq(output, 1, n)
       /\ output' = Drop(output, n)
       /\ LET drained == n > 0 /\ output' = <<>> IN
            writing' = StillWriting(drained) /\ FinishShutdown(drained)
  /\ UNCHANGED <<state, registered, peerClosed, pc, pending, batch, serverVars,
                 callbackVars, closeVars, workerVars, unsent, accepted>>

\* The peer is gone: ::write fails and handleWrite only logs it.
HandleWriteError ==
  /\ pc = "events"
  /\ revents = {"OUT"}
  /\ peerClosed
  /\ revents' = {}
  /\ UNCHANGED <<state, channelVars, output, socketVars, pc, pending, batch,
                 serverVars, callbackVars, closeVars, workerVars, unsent,
                 accepted>>

EventsHandled == revents = {}

StartFunctors ==
  /\ pc = "events"
  /\ EventsHandled
  /\ pc' = "functors"
  /\ batch' = pending
  /\ pending' = <<>>
  /\ UNCHANGED <<state, channelVars, output, socketVars, revents, serverVars,
                 callbackVars, closeVars, workerVars, unsent, accepted>>

Run(f) ==
  \/ f.op = "sendInLoop" /\ SendInLoop(f.msg)
  \/ f.op = "connectEstablished" /\ ConnectEstablished
  \/ f.op = "connectDestroyed" /\ ConnectDestroyed
  \/ f.op = "handleClose" /\ HandleClose
  \/ /\ f.op = "shutdownInLoop"
     /\ ShutdownInLoop(writing)
     /\ UNCHANGED <<state, channelVars, output, wire, pending, serverVars,
                    callbackVars, closeVars, accepted>>
  \/ /\ f.op \in {"writeComplete", "highWaterMark"}     \* user code
     /\ UNCHANGED <<state, channelVars, output, wire, fin, pending, serverVars,
                    callbackVars, closeVars, accepted>>

RunFunctor ==
  /\ pc = "functors"
  /\ batch # <<>>
  /\ batch' = Tail(batch)
  /\ Run(Head(batch))
  /\ UNCHANGED <<peerClosed, pc, revents, workerVars, unsent>>

FinishFunctors ==
  /\ pc = "functors"
  /\ batch = <<>>
  /\ pc' = "poll"
  /\ UNCHANGED <<state, channelVars, output, socketVars, revents, pending,
                 batch, serverVars, callbackVars, closeVars, workerVars, unsent,
                 accepted>>

\* User code in a callback on the IO loop: send writes at once.
UserSend(m) ==
  /\ ups > 0
  /\ pc # "poll"
  /\ m \in unsent
  /\ unsent' = unsent \ {m}
  /\ state = "Connected"
  /\ SendInLoop(m)
  /\ UNCHANGED <<peerClosed, loopVars, workerVars>>

UserShutdown ==
  /\ ups > 0
  /\ pc # "poll"
  /\ state = "Connected"
  /\ state' = "Disconnecting"
  /\ ShutdownInLoop(writing)
  /\ UNCHANGED <<channelVars, output, wire, peerClosed, loopVars, pending,
                 serverVars, callbackVars, closeVars, workerVars, unsent,
                 accepted>>

-----------------------------------------------------------------------------
(* The base loop.                                                          *)

\* destroyConnectionInLoop: erase the connection, have its loop destroy it.
DestroyConnectionInLoop_OnlyErased ==
  /\ destroys > 0
  /\ destroys' = destroys - 1
  /\ mapped' = FALSE
  /\ UNCHANGED <<state, channelVars, output, socketVars, loopVars, pending,
                 callbackVars, closeVars, workerVars, unsent, accepted>>
DestroyConnectionInLoop ==
  /\ destroys > 0
  /\ destroys' = destroys - 1
  /\ mapped' = FALSE
  /\ pending' = Append(pending, [op |-> "connectDestroyed"])
  /\ UNCHANGED <<state, channelVars, output, socketVars, loopVars, callbackVars,
                 closeVars, workerVars, unsent, accepted>>

-----------------------------------------------------------------------------
(* Workers.                                                                *)

workerUnchanged == <<channelVars, output, socketVars, loopVars, serverVars,
                     callbackVars, closeVars, accepted>>

SendCheck(w, m) ==
  /\ ups > 0
  /\ wpc[w] = "idle"
  /\ m \in unsent
  /\ state = "Connected"
  /\ unsent' = unsent \ {m}
  /\ wpc' = [wpc EXCEPT ![w] = "send"]
  /\ wmsg' = [wmsg EXCEPT ![w] = m]
  /\ UNCHANGED <<workerUnchanged, state, pending>>

SendQueue(w) ==
  /\ wpc[w] = "send"
  /\ wpc' = [wpc EXCEPT ![w] = "idle"]
  /\ pending' = Append(pending, [op |-> "sendInLoop", msg |-> wmsg[w]])
  /\ UNCHANGED <<workerUnchanged, state, wmsg, unsent>>

ShutdownCheck(w) ==
  /\ ups > 0
  /\ wpc[w] = "idle"
  /\ state = "Connected"
  /\ wpc' = [wpc EXCEPT ![w] = "shutdownSet"]
  /\ UNCHANGED <<workerUnchanged, state, pending, wmsg, unsent>>

ShutdownSet(w) ==
  /\ wpc[w] = "shutdownSet"
  /\ wpc' = [wpc EXCEPT ![w] = "shutdownQueue"]
  /\ state' = "Disconnecting"
  /\ UNCHANGED <<workerUnchanged, pending, wmsg, unsent>>

ShutdownQueue(w) ==
  /\ wpc[w] = "shutdownQueue"
  /\ wpc' = [wpc EXCEPT ![w] = "idle"]
  /\ pending' = Append(pending, [op |-> "shutdownInLoop"])
  /\ UNCHANGED <<workerUnchanged, state, wmsg, unsent>>

\* forceClose queues handleClose, whatever the state and from any thread; the
\* model queues one at a time.  Unless LateForceClose, user code calls it only
\* before the loop has noticed a close (it has no way to tell).
ForceClose ==
  /\ closes = 0 \/ LateForceClose
  /\ ups > 0
  /\ MayClose
  /\ \A f \in Range(pending \o batch) : f.op # "handleClose"
  /\ pending' = Append(pending, [op |-> "handleClose"])
  /\ UNCHANGED <<workerUnchanged, state, workerVars, unsent>>

PeerClose ==
  /\ registered
  /\ ~peerClosed
  /\ peerClosed' = TRUE
  /\ UNCHANGED <<state, channelVars, output, wire, fin, loopVars, pending,
                 serverVars, callbackVars, closeVars, workerVars, unsent,
                 accepted>>

-----------------------------------------------------------------------------
LoopStep ==
  \/ Poll \/ HandleRead \/ HandleWrite \/ HandleWriteError
  \/ StartFunctors \/ RunFunctor \/ FinishFunctors

WorkerStep(w) ==
  \/ \E m \in Messages : SendCheck(w, m)
  \/ SendQueue(w)
  \/ ShutdownCheck(w) \/ ShutdownSet(w) \/ ShutdownQueue(w)

Next ==
  \/ LoopStep
  \/ \E m \in Messages : UserSend(m)
  \/ UserShutdown
  \/ DestroyConnectionInLoop
  \/ \E w \in Workers : WorkerStep(w)
  \/ ForceClose
  \/ PeerClose

Spec == Init /\ [][Next]_vars

\* Both loops keep running, and a worker inside a call finishes it.  The
\* socket has room again and again: the peer reads, or is gone.
Fairness ==
  /\ WF_vars(LoopStep)
  /\ WF_vars(DestroyConnectionInLoop)
  /\ SF_vars(Poll /\ "OUT" \in revents')
  /\ \A w \in Workers :
       WF_vars((SendQueue(w) \/ ShutdownSet(w) \/ ShutdownQueue(w)))

FairSpec == Spec /\ Fairness

-----------------------------------------------------------------------------
Index(m) == CHOOSE i \in DOMAIN accepted : accepted[i] = m

\* Messages reach the kernel whole and in the order of the sendInLoop calls:
\* a direct write never overtakes what is still buffered.
SentInOrder ==
  LET sent == wire \o output IN
  \A i, j \in DOMAIN sent :
    i < j => Index(sent[i][1]) <= Index(sent[j][1])

\* No part of a message given to sendInLoop is lost between the kernel and
\* the buffer, whatever prefixes the kernel takes.
NothingLost ==
  \A i \in DOMAIN accepted :
    Range(Units(accepted[i])) \subseteq Range(wire) \cup Range(output)

\* The write side is shut down only when nothing is buffered, even though
\* shutdown sets the state on one thread while the other is still sending.
FinAfterDrain == [][fin' /\ ~fin => output' = <<>>]_vars

\* Once the user has been told that the connection is down, neither the
\* Poller nor the server's map refers to it any more, however often level
\* triggering has made handleClose run before and connectDestroyed after.
Released == downs > 0 => ~registered /\ ~mapped

\* A peer that closes is noticed: the server forgets the connection and the
\* user's callback is told.
PeerCloseNoticed == registered /\ peerClosed ~> ~mapped /\ downs > 0

\* A shutdown is completed once the peer has read what was buffered, unless
\* the connection goes down first.
ShutdownCompletes ==
  (ups > 0 /\ state = "Disconnecting") ~> fin \/ peerClosed \/ downs > 0

\* What is sent arrives once: the accuracy that sendInLoop's comment promises.
NothingSentTwice ==
  LET sent == wire \o output IN
  \A i, j \in DOMAIN sent : i # j => sent[i] # sent[j]

=============================================================================
