----------------------------- MODULE TcpServer ------------------------------
(***************************************************************************)
(* net/TcpServer.cpp with Acceptor, EventLoopThreadPool and the Poller's   *)
(* map: several connections, from the backlog of the listening socket to   *)
(* the destructor that closes the descriptor.  The base loop (0) accepts,  *)
(* hands each connection to the next loop of the pool and keeps it in      *)
(* connection_; a close goes from the connection's loop to the base loop   *)
(* and back.  What passes over one connection is module TcpConnection.     *)
(*                                                                         *)
(* A TcpConnection lives while a TcpConnectionPtr to it does: in           *)
(* connection_, in a functor bound to one (Bound), in the hands of a       *)
(* worker.  The Poller, the channel's callbacks and sendInLoop's functor   *)
(* have its address only; a functor that runs on a TcpConnection that is   *)
(* gone is undefined, and does nothing here.                               *)
(***************************************************************************)
EXTENDS Naturals, Sequences, FiniteSets, Functions

CONSTANTS
  MaxClients,           \* bound on the peers, each connects once
  Shared,               \* the connections that are passed on to a worker
  Acceptor,             \* acceptChannel_
  MaxLoops,             \* bound on the loops of the pool
  ThreadNums,           \* what setThreadNums may be called with
  Fds,                  \* the descriptors left to connections
  MaxRepeats            \* bound on the ends of file that are handled again

ASSUME MaxAssumption ==
  MaxClients \in Nat /\ MaxLoops \in Nat /\ MaxRepeats \in Nat
ASSUME ThreadNumsAssumption == ThreadNums \subseteq 0 .. MaxLoops

Loops == 0 .. MaxLoops
Clients == 1 .. MaxClients      \* in the order in which they connect

ASSUME AcceptorAssumption == Acceptor \notin Clients

VARIABLES
  nums,                 \* numThreads_
  listening,            \* listenning_
  backlog,              \* clients whose connection has not been accepted
  refused,              \* clients whose connection was accepted and closed
  connId,               \* connId_
  next,                 \* next_
  conn,                 \* the TcpConnections: name, fd, loop
  connection,           \* connection_, from names to TcpConnections
  state,                \* state_
  index,                \* Channel::index_
  channels,             \* Poller::channels_ of each loop
  epoll,                \* the channels registered with each loop's epoll
  peerClosed,           \* clients that have closed
  noticed,              \* connections on which handleClose has been called
  repeats,              \* handleClose calls beside the first ones
  pc,                   \* each loop: in epoll_wait, events, functors
  active,               \* activeChannels_
  pending,              \* pendingFunctors_
  batch,                \* the functors swapped out and not run yet
  ran,                  \* those already run, in the same vector
  held                  \* connections a worker has a TcpConnectionPtr to

poolVars == <<nums, listening, next>>
acceptVars == <<backlog, refused, connId, conn>>
pollerVars == <<index, channels, epoll>>
closeVars == <<noticed, repeats>>
loopVars == <<pc, active, batch, ran>>
vars == <<poolVars, acceptVars, connection, state, pollerVars, peerClosed,
          closeVars, loopVars, pending, held>>

Accepted == DOMAIN conn
Functor == [op : {"connectEstablished", "destroyConnectionInLoop",
                  "connectDestroyed", "sendInLoop"}, c : Clients]

TypeOK ==
  /\ nums \in Loops /\ next \in Loops /\ listening \in BOOLEAN
  /\ backlog \in Seq(Clients)
  /\ refused \subseteq Clients /\ peerClosed \subseteq Clients
  /\ connId \in Nat
  /\ Accepted \subseteq Clients
  /\ \A c \in Accepted : conn[c] \in [name : Nat, fd : Fds, loop : Loops]
  /\ Range(connection) \subseteq Accepted
  /\ state \in [Clients -> {"Connecting", "Connected", "Disconnected"}]
  /\ index \in [Clients -> {"New", "Add", "Deleted"}]
  /\ \A l \in Loops : DOMAIN channels[l] \subseteq Fds
  /\ epoll \in [Loops -> SUBSET Accepted]
  /\ noticed \subseteq Accepted /\ repeats \in Nat
  /\ pc \in [Loops -> {"poll", "events", "functors"}]
  /\ active \in [Loops -> SUBSET (Accepted \cup {Acceptor})]
  /\ pending \in [Loops -> Seq(Functor)]
  /\ batch \in [Loops -> Seq(Functor)]
  /\ ran \in [Loops -> Seq(Functor)]
  /\ held \subseteq Accepted

Init ==
  /\ nums \in ThreadNums
  /\ listening = FALSE
  /\ backlog = <<>>
  /\ refused = {}
  /\ connId = 1
  /\ next = 0
  /\ conn = <<>>
  /\ connection = <<>>
  /\ state = [c \in Clients |-> "Connecting"]
  /\ index = [c \in Clients |-> "New"]
  /\ channels = [l \in Loops |-> <<>>]
  /\ epoll = [l \in Loops |-> {}]
  /\ peerClosed = {}
  /\ noticed = {}
  /\ repeats = 0
  /\ pc = [l \in Loops |-> "poll"]
  /\ active = [l \in Loops |-> {}]
  /\ pending = [l \in Loops |-> <<>>]
  /\ batch = pending
  /\ ran = pending
  /\ held = {}

-----------------------------------------------------------------------------
(* Who owns a TcpConnection. *)

Bound(f) == f.op # "sendInLoop"
Functors(l) == Range(pending[l]) \cup Range(batch[l]) \cup Range(ran[l])
Alive ==
  Range(connection) \cup held \cup
  {f.c : f \in {g \in UNION {Functors(l) : l \in Loops} : Bound(g)}}

\* ~Socket closes the descriptor; the kernel gives it out again.
FreeFds == Fds \ {conn[c].fd : c \in Alive}

Queue(l, op, c) ==
  pending' = [pending EXCEPT ![l] = Append(@, [op |-> op, c |-> c])]

-----------------------------------------------------------------------------
(* Channel and Poller. *)

Restrict_(f, S) == [x \in S |-> f[x]]
Put(f, x, y) == [z \in DOMAIN f \cup {x} |-> IF z = x THEN y ELSE f[z]]

\* updateChannel for a channel that is interested in input: enableReading, and
\* disableAll, which does not change that.
UpdateChannel(c) ==
  LET l == conn[c].loop IN
  IF index[c] = "Add" THEN UNCHANGED pollerVars
  ELSE /\ channels' = IF index[c] = "New"
                        THEN [channels EXCEPT ![l] = Put(@, conn[c].fd, c)]
                        ELSE channels
       /\ index' = [index EXCEPT ![c] = "Add"]
       /\ epoll' = [epoll EXCEPT ![l] = @ \cup {c}]

\* disableAll, which adds a channel that is not registered, and removeChannel.
UpdateAndRemoveChannel(c) ==
  LET l == conn[c].loop IN
  /\ channels' = [channels EXCEPT ![l] = Restrict_(@, DOMAIN @ \ {conn[c].fd})]
  /\ epoll' = [epoll EXCEPT ![l] = @ \ {c}]
  /\ index' = [index EXCEPT ![c] = "New"]

-----------------------------------------------------------------------------
(* The base loop's side of TcpServer. *)

\* start: the pool's threads are up when it returns, the socket listens.
Start ==
  /\ ~listening
  /\ listening' = TRUE
  /\ UNCHANGED <<nums, next, acceptVars, connection, state, pollerVars,
                 peerClosed, closeVars, loopVars, pending, held>>

\* A mistake: the index is tested before it is incremented.
Wrapped_Late(n) == IF n > nums THEN 0 ELSE n
Wrapped(n) == IF n >= nums THEN 0 ELSE n

\* getNextLoop: the base loop if the pool is empty.
NextLoop == IF nums = 0 THEN 0 ELSE next + 1

\* A mistake: names are used again.
NextId_Same == connId
NextId == connId + 1

\* connectEstablished: setState, enableReading.
ConnectEstablished(c) ==
  /\ state' = [state EXCEPT ![c] = "Connected"]
  /\ UpdateChannel(c)

\* newConnection, with accept's descriptor.
NewConnection(c, fd) ==
  LET l == NextLoop IN
  /\ connId' = NextId
  /\ next' = IF nums = 0 THEN next ELSE Wrapped(next + 1)
  /\ conn' = Put(conn, c, [name |-> connId, fd |-> fd, loop |-> l])
  /\ connection' = Put(connection, connId, c)
  /\ IF l = 0
       THEN /\ state' = [state EXCEPT ![c] = "Connected"]
            /\ channels' = [channels EXCEPT ![0] = Put(@, fd, c)]
            /\ epoll' = [epoll EXCEPT ![0] = @ \cup {c}]
            /\ index' = [index EXCEPT ![c] = "Add"]
            /\ UNCHANGED pending
       ELSE Queue(l, "connectEstablished", c) /\ UNCHANGED <<state, pollerVars>>

\* A mistake: nothing is done when the descriptors have run out.
Refuse_Not(c) == UNCHANGED <<backlog, refused>>
\* EMFILE: the idle descriptor is given up for the connection, which is closed.
Refuse(c) == backlog' = Tail(backlog) /\ refused' = refused \cup {c}

\* Acceptor::handleRead takes one connection off the backlog.
AcceptorHandleRead ==
  /\ pc[0] = "events" /\ Acceptor \in active[0]
  /\ active' = [active EXCEPT ![0] = @ \ {Acceptor}]
  /\ LET c == Head(backlog) IN
     IF FreeFds = {}
       THEN /\ Refuse(c)
            /\ UNCHANGED <<connId, next, conn, connection, state, pollerVars, pending>>
       ELSE /\ backlog' = Tail(backlog)
            /\ NewConnection(c, CHOOSE fd \in FreeFds : TRUE)
            /\ UNCHANGED refused
  /\ UNCHANGED <<nums, listening, peerClosed, closeVars, pc, batch, ran, held>>

\* A mistake: connection_ keeps the pointer.
Erase_Kept(c) == connection
Erase(c) == Restrict_(connection, DOMAIN connection \ {conn[c].name})

\* destroyConnectionInLoop
DestroyConnectionInLoop(c) ==
  /\ connection' = Erase(c)
  /\ Queue(conn[c].loop, "connectDestroyed", c)

-----------------------------------------------------------------------------
(* Every loop. *)

\* What epoll reports: the channels at end of file, as often as they are
\* registered, and the listening socket.
Readable(l) ==
  {c \in epoll[l] : 
     c \in peerClosed /\ (c \in noticed => repeats < MaxRepeats)} \cup
  (IF l = 0 /\ backlog # <<>> THEN {Acceptor} ELSE {})

Poll(l) ==
  /\ pc[l] = "poll"
  /\ Readable(l) # {}
  /\ pc' = [pc EXCEPT ![l] = "events"]
  /\ active' = [active EXCEPT ![l] = Readable(l)]
  /\ UNCHANGED <<poolVars, acceptVars, connection, state, pollerVars,
                 peerClosed, closeVars, batch, ran, pending, held>>

\* handleClose; destroyConnection runs destroyConnectionInLoop at once on the
\* base loop.
HandleClose(l, c) ==
  /\ pc[l] = "events"
  /\ c \in active[l]
  /\ active' = [active EXCEPT ![l] = @ \ {c}]
  /\ noticed' = noticed \cup {c}
  /\ repeats' = IF c \in noticed THEN repeats + 1 ELSE repeats
  /\ UpdateChannel(c)
  /\ IF l = 0 THEN DestroyConnectionInLoop(c)
     ELSE Queue(0, "destroyConnectionInLoop", c) /\ UNCHANGED connection
  /\ UNCHANGED <<poolVars, acceptVars, state, peerClosed, pc, batch, ran, held>>

\* The functors are taken over after the events, or because a wake-up was all
\* that epoll_wait had to report (module EventLoop).
StartFunctors(l) ==
  /\ \/ pc[l] = "events" /\ active[l] = {}
     \/ pc[l] = "poll" /\ Readable(l) = {} /\ pending[l] # <<>>
  /\ pc' = [pc EXCEPT ![l] = "functors"]
  /\ batch' = [batch EXCEPT ![l] = pending[l]]
  /\ pending' = [pending EXCEPT ![l] = <<>>]
  /\ UNCHANGED <<poolVars, acceptVars, connection, state, pollerVars,
                 peerClosed, closeVars, active, ran, held>>

RunFunctor(l) ==
  /\ pc[l] = "functors" /\ batch[l] # <<>>
  /\ batch' = [batch EXCEPT ![l] = Tail(@)]
  /\ ran' = [ran EXCEPT ![l] = Append(@, Head(batch[l]))]
  /\ LET f == Head(batch[l]) IN
     \/ /\ f.op = "connectEstablished" /\ ConnectEstablished(f.c)
        /\ UNCHANGED <<connection, pending>>
     \/ /\ f.op = "destroyConnectionInLoop" /\ DestroyConnectionInLoop(f.c)
        /\ UNCHANGED <<state, pollerVars>>
     \/ /\ f.op = "connectDestroyed"
        /\ state' = [state EXCEPT ![f.c] = "Disconnected"]
        /\ UpdateAndRemoveChannel(f.c)
        /\ UNCHANGED <<connection, pending>>
     \/ /\ f.op = "sendInLoop"
        /\ UNCHANGED <<connection, state, pollerVars, pending>>
  /\ UNCHANGED <<poolVars, acceptVars, peerClosed, closeVars, pc, active, held>>

\* The end of doPendingFunctor destroys the functors and what they own.
FinishFunctors(l) ==
  /\ pc[l] = "functors" /\ batch[l] = <<>>
  /\ pc' = [pc EXCEPT ![l] = "poll"]
  /\ ran' = [ran EXCEPT ![l] = <<>>]
  /\ UNCHANGED <<poolVars, acceptVars, connection, state, pollerVars,
                 peerClosed, closeVars, active, batch, pending, held>>

-----------------------------------------------------------------------------
(* The peers, and a worker that was given connections. *)

Connect(c) ==
  /\ listening
  /\ c \notin Range(backlog) \cup refused \cup Accepted
  /\ c > 1 => c - 1 \in Range(backlog) \cup refused \cup Accepted
  /\ backlog' = Append(backlog, c)
  /\ UNCHANGED <<poolVars, refused, connId, conn, connection, state, pollerVars,
                 peerClosed, closeVars, loopVars, pending, held>>

PeerClose(c) ==
  /\ c \in Accepted /\ c \notin peerClosed
  /\ peerClosed' = peerClosed \cup {c}
  /\ UNCHANGED <<poolVars, acceptVars, connection, state, pollerVars, closeVars,
                 loopVars, pending, held>>

\* A callback on the connection's loop passes its TcpConnectionPtr on.
Hold(c) ==
  /\ c \in (Accepted \cap Shared) \ held /\ c \notin peerClosed
  /\ state[c] = "Connected"
  /\ held' = held \cup {c}
  /\ UNCHANGED <<poolVars, acceptVars, connection, state, pollerVars,
                 peerClosed, closeVars, loopVars, pending>>

Sending(c) ==
  \E f \in UNION {Range(pending[l]) \cup Range(batch[l]) : l \in Loops} :
    f.c = c /\ ~Bound(f)

\* TcpConnection::send from the worker.
Send(c) ==
  /\ c \in held
  /\ state[c] = "Connected" /\ ~Sending(c)
  /\ Queue(conn[c].loop, "sendInLoop", c)
  /\ UNCHANGED <<poolVars, acceptVars, connection, state, pollerVars,
                 peerClosed, closeVars, loopVars, held>>

\* The worker is done with it, whether or not its send has run: the lambda of
\* BaseServer ends with the send.
Drop(c) ==
  /\ c \in held
  /\ held' = held \ {c}
  /\ UNCHANGED <<poolVars, acceptVars, connection, state, pollerVars,
                 peerClosed, closeVars, loopVars, pending>>

-----------------------------------------------------------------------------
LoopStep(l) ==
  \/ Poll(l) \/ StartFunctors(l) \/ RunFunctor(l) \/ FinishFunctors(l)
  \/ \E c \in Clients : HandleClose(l, c)
  \/ l = 0 /\ AcceptorHandleRead

Next ==
  \/ Start
  \/ \E l \in Loops : LoopStep(l)
  \/ \E c \in Clients : Connect(c) \/ PeerClose(c) \/ Hold(c) \/ Send(c) \/ Drop(c)

Spec == Init /\ [][Next]_vars

\* The loops run, and a worker drops its pointer in the end.
Fairness ==
  /\ \A l \in Loops : WF_vars(LoopStep(l))
  /\ \A c \in Clients : WF_vars(Drop(c))

FairSpec == Spec /\ Fairness

-----------------------------------------------------------------------------
\* What is used by address: the channels registered with a poller or about to
\* be handled live, and no two live connections have the same descriptor, so
\* Poller::channels_ finds the right one.  No connection is destroyed before
\* connectDestroyed has run on it: whoever closes, drops or answers when, the
\* only functor that can find its connection gone is the raw sendInLoop of a
\* worker that has dropped its pointer and whose connection has closed.
AliveWhenUsed ==
  /\ \A l \in Loops :
       /\ epoll[l] \cup (active[l] \ {Acceptor}) \subseteq Alive
       /\ \A fd \in DOMAIN channels[l] :
            channels[l][fd] \in epoll[l] /\ conn[channels[l][fd]].fd = fd
  /\ \A c, d \in Alive : conn[c].fd = conn[d].fd => c = d
  /\ \A c \in Accepted \ Alive : c \in noticed /\ state[c] = "Disconnected"

\* The pool's loops take turns, next_ never leaves loops_ and none is ever two
\* connections ahead of another; without a pool the base loop has them all.
Balanced ==
  LET given(l) == Cardinality({c \in Accepted : conn[c].loop = l})
  IN  /\ \A c \in Accepted : conn[c].loop \in IF nums = 0 THEN {0} ELSE 1 .. nums
      /\ \A k, l \in 1 .. nums : given(k) <= given(l) + 1

\* A connection whose peer has closed is let go of by everyone: over both loops,
\* however often its end of file is reported, and its descriptor is free again.
\* (Each peer closes once, so this says it of every one.)
ClosedReleased == []<>(peerClosed \cap Alive = {})

\* Nobody waits in the backlog for ever, even when the descriptors have run out.
BacklogDrained == []<>(backlog = <<>>)

=============================================================================
