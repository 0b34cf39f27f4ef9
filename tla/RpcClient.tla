----------------------------- MODULE RpcClient ------------------------------
(***************************************************************************)
(* zrpc/client/RpcClient.cpp on its TcpClient: calls are numbered, their   *)
(* callbacks kept under the number, and an answer is a line with a length  *)
(* and a JSON body with the number it answers.  The client of a "tcp" user *)
(* may retry and be stopped; RpcClient offers neither, and no locks: calls *)
(* are made on the loop.                                                   *)
(*                                                                         *)
(* What arrives is cut into heads and bodies.  handleMessage takes all     *)
(* that has arrived for one body, and there is no message after it.        *)
(***************************************************************************)
EXTENDS TcpClient, FiniteSets

CONSTANTS
  MaxIds,               \* bound on the calls
  MaxStrange            \* bound on the answers that are no single right one

ASSUME RpcBoundAssumption == MaxIds \in Nat \ {0} /\ MaxStrange \in Nat

Ids == 1 .. MaxIds

VARIABLES
  user,                 \* whose TcpClient it is: an RpcClient's or not
  id,                   \* id_, from 1
  callbacks,            \* callbacks_
  sentOn,               \* ghost: the connection of each call, 0 before it
  unanswered,           \* calls the peer has to answer
  wire,                 \* tokens on their way to the client
  inbuf,                \* the connection's input buffer
  called,               \* how often each callback was called
  strange,              \* how many strange answers there were
  disorderly            \* ghost: connections with a strange answer, or with a
                        \* call made before the one before was called back

callVars == <<id, callbacks, sentOn, unanswered, called>>
rpcVars == <<user, callVars, wire, inbuf, strange, disorderly>>
vars == <<tcpVars, rpcVars>>

Init ==
  /\ TcpInit
  /\ user \in {"tcp", "rpc"}
  /\ user = "rpc" => ~retry
  /\ id = 1
  /\ callbacks = {} /\ unanswered = {}
  /\ sentOn = [i \in Ids |-> 0]
  /\ called = [i \in Ids |-> 0]
  /\ wire = [k \in Conns |-> <<>>]
  /\ inbuf = [k \in Conns |-> <<>>]
  /\ strange = 0
  /\ disorderly = {}

HeadOf(form) == [part |-> "head", form |-> form]
Body(ids) == [part |-> "body", ids |-> ids]

-----------------------------------------------------------------------------
(* Calls.  cbs are the callbacks kept when the call is made. *)

\* sendCall, on the loop: from a callback of the user, or of an answer.
MakeCall(k, cbs, pending_) ==
  /\ id' = id + 1
  /\ callbacks' = cbs \cup {id}
  /\ sentOn' = [sentOn EXCEPT ![id] = k]
  /\ unanswered' = pending_ \cup {id}
  /\ disorderly' = IF \E i \in pending_ \cup cbs : sentOn[i] = k
                   THEN disorderly \cup {k} ELSE disorderly

\* A timer or connection callback of the user makes a call.
SendCall(k) ==
  /\ user = "rpc" /\ pc = "poll" /\ ~aborted
  /\ conn[k] = "up" /\ id <= MaxIds
  /\ MakeCall(k, callbacks, unanswered)
  /\ UNCHANGED <<tcpVars, user, wire, inbuf, called, strange>>

-----------------------------------------------------------------------------
(* Answers: onMessage.  An id of 0 stands for a response that throws. *)

\* The calls an answer calls back, up to what throws.
Taken(ids) ==
  {i \in callbacks : \E n \in 1 .. Len(ids) :
                       ids[n] = i /\ \A m \in 1 .. n : ids[m] # 0}

\* A mistake: the callback stays.
Erased_Not(cbs, taken) == cbs
Erased(cbs, taken) == cbs \ taken

HandleResponse(k, ids) ==
  LET taken == Taken(ids)
      left == Erased(callbacks, taken) IN
  /\ called' = [i \in Ids |-> called[i] + (IF i \in taken THEN 1 ELSE 0)]
  /\ \/ /\ callbacks' = left
        /\ UNCHANGED <<id, sentOn, unanswered, disorderly>>
     \/ /\ taken # {} /\ id <= MaxIds
        /\ MakeCall(k, left, unanswered)

\* A mistake: a head is taken for a whole message.
HasMessage_Head(buf) == Len(buf) >= 1
HasMessage(buf) == Len(buf) >= 2

\* A line that is no length is skipped, one that is too long stays for ever;
\* the rest of the buffer, not the length, is the text that is parsed.
HandleMessage(k, buf) ==
  LET line == buf[1]
      keep(rest) == inbuf' = [inbuf EXCEPT ![k] = rest]
      text == SubSeq(buf, 2, Len(buf)) IN
  \/ /\ line.part = "body" \/ (line.part = "head" /\ line.form = "bad")
     /\ keep(Tail(buf)) /\ UNCHANGED <<callVars, disorderly>>
  \/ /\ line.part = "head" /\ line.form # "bad"
     /\ line.form = "tooLong" \/ ~HasMessage(buf)
     /\ keep(buf) /\ UNCHANGED <<callVars, disorderly>>
  \/ /\ line.part = "head" /\ line.form = "fine" /\ HasMessage(buf)
     /\ keep(<<>>)
     /\ IF Len(text) = 1 /\ text[1].part = "body"
          THEN HandleResponse(k, text[1].ids)
          ELSE UNCHANGED <<callVars, disorderly>>

\* The connection reads what has arrived by now.
HandleRead(k) ==
  /\ Handle("conn", k)
  /\ conn[k] = "up"
  /\ \E n \in 1 .. Len(wire[k]) :
       /\ wire' = [wire EXCEPT ![k] = SubSeq(@, n + 1, Len(@))]
       /\ HandleMessage(k, inbuf[k] \o SubSeq(wire[k], 1, n))
  /\ UNCHANGED <<clientVars, connectorVars, conn, peerClosed, pending,
                 boundVars, aborted, user, strange>>

-----------------------------------------------------------------------------
(* The peer. *)

Peer(k) == conn[k] = "up" /\ k \notin peerClosed /\ ~aborted

Respond(i) ==
  /\ i \in unanswered /\ Peer(sentOn[i])
  /\ unanswered' = unanswered \ {i}
  /\ wire' = [wire EXCEPT ![sentOn[i]] = @ \o <<HeadOf("fine"), Body(<<i>>)>>]
  /\ UNCHANGED <<tcpVars, user, id, callbacks, sentOn, called, inbuf, strange,
                 disorderly>>

\* An answer with a length or a body that is not right, of a batch, or to a call
\* that was answered before or never made.
StrangeAnswer ==
  {<<HeadOf("bad"), Body(<<1>>)>>, <<HeadOf("tooLong"), Body(<<1>>)>>} \cup
  {<<HeadOf("fine"), Body(ids)>> : ids \in {<<1>>, <<MaxIds, 1>>, <<1, 0, MaxIds>>}}

Misbehave(k) ==
  /\ Peer(k) /\ user = "rpc" /\ strange < MaxStrange
  /\ strange' = strange + 1
  /\ disorderly' = disorderly \cup {k}
  /\ \E a \in StrangeAnswer : wire' = [wire EXCEPT ![k] = @ \o a]
  /\ UNCHANGED <<tcpVars, user, callVars, inbuf>>

-----------------------------------------------------------------------------
\* A connection is ready while it has something to read.
Readable == {k \in Conns : conn[k] = "up" /\ wire[k] # <<>>}

Loop ==
  \/ /\ \/ LoopStep
        \/ Poll(Ready \cup {Event("conn", k) : k \in Readable})
        \/ \E k \in Conns : k \notin Readable /\ HandleClose(k)
     /\ UNCHANGED rpcVars
  \/ \E k \in Conns : HandleRead(k)

Next ==
  \/ Loop
  \/ /\ \/ Connect \/ ForceClose
        \/ user = "tcp" /\ (Stop \/ Disconnect)
        \/ \E k \in Conns : PeerClose(k)
     /\ UNCHANGED rpcVars
  \/ \E k \in Conns : SendCall(k) \/ Misbehave(k)
  \/ \E i \in Ids : Respond(i)

Spec == Init /\ [][Next]_vars

\* The loop does not stop.
FairSpec == Spec /\ WF_vars(Loop)

-----------------------------------------------------------------------------
\* Whatever the peer answers, in whatever portions: a callback is called at
\* most once, only for a call that was made, and is kept until it is called.
CalledOnce ==
  \A i \in Ids :
    /\ called[i] <= 1
    /\ called[i] = 1 => i < id
    /\ i < id => (i \in callbacks <=> called[i] = 0)

\* The answer of a call that was made alone on its connection calls it back,
\* unless the connection closes first.
Answered(i) == i < id /\ i \notin unanswered
CalledBack ==
  \A i \in Ids :
    Answered(i) ~> \/ called[i] = 1
                   \/ sentOn[i] \in disorderly
                   \/ \E k \in Conns : sentOn[i] = k /\ conn[k] # "up"
                   \/ ~careful

=============================================================================
