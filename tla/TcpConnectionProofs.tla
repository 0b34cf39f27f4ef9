------------------------- MODULE TcpConnectionProofs ------------------------
(***************************************************************************)
(* For any number of workers and messages, any message length and any      *)
(* high-water mark: the write side is shut down only when nothing is       *)
(* buffered, what sendInLoop is given reaches the kernel whole and in      *)
(* order, and a connection reported down is referred to by nobody.         *)
(***************************************************************************)
EXTENDS TcpConnection, SequenceTheorems, TLAPS

-----------------------------------------------------------------------------
(* Sequences.                                                              *)

\* A message is a sequence of units, and not an empty one.
LEMMA UnitsType ==
  ASSUME NEW m \in Messages
  PROVE  /\ Units(m) \in Seq(Unit)
         /\ Len(Units(m)) = MessageLen
         /\ \A i \in 1 .. MessageLen : Units(m)[i] = <<m, i>>
<1>1. MessageLen \in Nat
  BY MessageLenAssumption
<1>2. \A i \in 1 .. MessageLen : <<m, i>> \in Unit
  BY DEF Unit
<1>3. QED
  BY <1>1, <1>2 DEF Units

\* What the kernel takes and what is left over are the two parts of what it
\* was offered.
LEMMA Split ==
  ASSUME NEW S, NEW s \in Seq(S), NEW n \in 0 .. Len(s)
  PROVE  /\ SubSeq(s, 1, n) \in Seq(S)
         /\ Drop(s, n) \in Seq(S)
         /\ SubSeq(s, 1, n) \o Drop(s, n) = s
         /\ Len(SubSeq(s, 1, n)) = n
         /\ Len(Drop(s, n)) = Len(s) - n
<1>1. /\ SubSeq(s, 1, n) \in Seq(S) /\ Len(SubSeq(s, 1, n)) = n
      /\ \A i \in 1 .. n : SubSeq(s, 1, n)[i] = s[i]
  BY SMT
<1>2. /\ Drop(s, n) \in Seq(S) /\ Len(Drop(s, n)) = Len(s) - n
      /\ \A i \in 1 .. Len(s) - n : Drop(s, n)[i] = s[n + i]
  BY SMT DEF Drop
<1>3. SubSeq(s, 1, n) \o Drop(s, n) = s
  <2> DEFINE p == SubSeq(s, 1, n)
             q == Drop(s, n)
             r == p \o q
  <2>1. /\ p \in Seq(S) /\ q \in Seq(S) /\ Len(p) = n /\ Len(q) = Len(s) - n
        /\ \A i \in 1 .. n : p[i] = s[i]
        /\ \A i \in 1 .. Len(s) - n : q[i] = s[n + i]
    BY <1>1, <1>2
  <2> HIDE DEF p, q
  <2>2. /\ r \in Seq(S) /\ Len(r) = Len(s)
        /\ \A i \in 1 .. Len(s) : r[i] = s[i]
    <3>1. /\ r \in Seq(S) /\ Len(r) = Len(s)
          /\ \A i \in 1 .. Len(s) :
               r[i] = IF i <= n THEN p[i] ELSE q[i - n]
      BY <2>1, ConcatProperties
    <3>2. ASSUME NEW i \in 1 .. Len(s), i > n
          PROVE  q[i - n] = s[i]
      <4>1. i - n \in 1 .. Len(s) - n /\ n + (i - n) = i
        BY <3>2
      <4>2. QED
        BY <2>1, <4>1
    <3>3. QED
      BY <2>1, <3>1, <3>2
  <2>3. r = s
    <3> HIDE DEF r
    <3> QED BY <2>2, SeqEqual
  <2> QED BY <2>3 DEF p, q
<1>4. QED
  BY <1>1, <1>2, <1>3

-----------------------------------------------------------------------------
(* The types.                                                              *)

\* The effect of sendInLoop: some prefix of the message goes to the kernel,
\* the rest behind the output buffer, and callbacks behind the functors.
LEMMA SendInLoopEffect ==
  ASSUME TypeOK, NEW m \in Messages, SendInLoop(m)
  PROVE  \E n \in 0 .. MessageLen, calls \in Seq(Functor) :
           /\ n # 0 => ~writing /\ output = <<>>
           /\ wire' = wire \o SubSeq(Units(m), 1, n)
           /\ output' = output \o (Drop(Units(m), n) \o Drop(Units(m), n))
           /\ writing' = (writing \/ Drop(Units(m), n) # <<>>)
           /\ pending' = pending \o calls
           /\ \A i \in DOMAIN calls :
                calls[i].op \in {"writeComplete", "highWaterMark"}
           /\ accepted' = Append(accepted, m)
           /\ UNCHANGED <<state, registered, fin, serverVars, callbackVars,
                          closeVars>>
<1> DEFINE rest(n) == Drop(Units(m), n)
           high(n) == /\ rest(n) # <<>>
                      /\ Len(output) + Len(rest(n)) > HighWaterMark
                      /\ Len(output) < HighWaterMark
           a(n) == IF DirectWrite /\ rest(n) = <<>>
                     THEN <<[op |-> "writeComplete"]>> ELSE <<>>
           b(n) == IF high(n) THEN <<[op |-> "highWaterMark"]>> ELSE <<>>
<1>1. PICK n \in IF DirectWrite THEN WriteResult(MessageLen) ELSE {0} :
        /\ wire' = wire \o SubSeq(Units(m), 1, n)
        /\ output' = output \o Leftover(rest(n))
        /\ writing' = (writing \/ rest(n) # <<>>)
        /\ pending' = pending \o a(n) \o b(n)
        /\ accepted' = Append(accepted, m)
        /\ UNCHANGED <<state, registered, fin, serverVars, callbackVars,
                       closeVars>>
  BY DEF SendInLoop
<1>2. n \in 0 .. MessageLen /\ (n # 0 => ~writing /\ output = <<>>)
  BY MessageLenAssumption DEF DirectWrite, WriteResult
<1>3. /\ a(n) \in Seq(Functor) /\ b(n) \in Seq(Functor)
      /\ \A i \in DOMAIN a(n) : a(n)[i].op = "writeComplete"
      /\ \A i \in DOMAIN b(n) : b(n)[i].op = "highWaterMark"
  <2>1. /\ [op |-> "writeComplete"] \in Functor
        /\ [op |-> "highWaterMark"] \in Functor
    BY DEF Functor
  <2>2. QED
    BY <2>1
<1>4. PICK p, q : p = a(n) /\ q = b(n)
  OBVIOUS
<1>5. /\ p \o q \in Seq(Functor)
      /\ \A i \in DOMAIN (p \o q) :
           (p \o q)[i].op \in {"writeComplete", "highWaterMark"}
      /\ (pending \o p) \o q = pending \o (p \o q)
  <2>1. /\ p \in Seq(Functor) /\ q \in Seq(Functor) /\ pending \in Seq(Functor)
        /\ \A i \in DOMAIN p : p[i].op = "writeComplete"
        /\ \A i \in DOMAIN q : q[i].op = "highWaterMark"
    BY <1>3, <1>4 DEF TypeOK
  <2>2. (pending \o p) \o q = pending \o (p \o q)
    BY <2>1, ConcatAssociative
  <2>3. QED
    BY <2>1, <2>2
<1>6. QED
  <2> HIDE DEF a, b, high
  <2>1. pending' = pending \o (p \o q)
    BY <1>1, <1>4, <1>5
  <2>2. output' = output \o (rest(n) \o rest(n))
    BY <1>1 DEF Leftover
  <2>3. QED
    BY <1>1, <1>2, <1>5, <2>1, <2>2
\* A member function called on the IO loop keeps the types of what it touches.
ConnectionTypeOK ==
  /\ state \in States
  /\ registered \in BOOLEAN
  /\ writing \in BOOLEAN
  /\ output \in Seq(Unit)
  /\ wire \in Seq(Unit)
  /\ fin \in BOOLEAN
  /\ pending \in Seq(Functor)
  /\ destroys \in Nat
  /\ mapped \in BOOLEAN
  /\ ups \in Nat
  /\ downs \in Nat
  /\ closes \in Nat
  /\ aborted \in BOOLEAN
  /\ accepted \in Seq(Messages)

\* sendInLoop keeps the types.
LEMMA SendInLoopType ==
  ASSUME TypeOK, NEW m \in Messages, SendInLoop(m)
  PROVE  ConnectionTypeOK'
<1>1. PICK n \in 0 .. MessageLen, calls \in Seq(Functor) :
        /\ wire' = wire \o SubSeq(Units(m), 1, n)
        /\ output' = output \o (Drop(Units(m), n) \o Drop(Units(m), n))
        /\ writing' = (writing \/ Drop(Units(m), n) # <<>>)
        /\ pending' = pending \o calls
        /\ accepted' = Append(accepted, m)
        /\ UNCHANGED <<state, registered, fin, serverVars, callbackVars,
                       closeVars>>
  BY SendInLoopEffect
<1>2. PICK taken, rest \in Seq(Unit) :
        /\ taken = SubSeq(Units(m), 1, n)
        /\ rest = Drop(Units(m), n)
  BY UnitsType, Split
<1>3. /\ wire' \in Seq(Unit) /\ output' \in Seq(Unit)
      /\ pending' \in Seq(Functor) /\ accepted' \in Seq(Messages)
  BY <1>1, <1>2 DEF TypeOK
<1>4. writing' \in BOOLEAN
  BY <1>1, Zenon DEF TypeOK
<1>5. QED
  BY <1>1, <1>3, <1>4
     DEF TypeOK, ConnectionTypeOK, serverVars, callbackVars, closeVars

\* handleClose keeps the types.
LEMMA HandleCloseType ==
  ASSUME ConnectionTypeOK, HandleClose
  PROVE  ConnectionTypeOK'
<1>1. /\ destroys' \in Nat /\ closes' \in Nat /\ aborted' \in BOOLEAN
  <2>1. destroys \in Nat /\ closes \in Nat /\ aborted \in BOOLEAN
    BY DEF ConnectionTypeOK
  <2>2. destroys' \in Nat /\ closes' \in Nat
    BY <2>1 DEF HandleClose
  <2>3. aborted' \in BOOLEAN
    BY <2>1 DEF HandleClose
  <2>4. QED
    BY <2>2, <2>3
<1>2. QED
  BY <1>1 DEF HandleClose, ConnectionTypeOK, channelVars, callbackVars

\* Every functor keeps the types.
LEMMA RunType ==
  ASSUME TypeOK, NEW f \in Functor, Run(f)
  PROVE  ConnectionTypeOK'
<1>0. ConnectionTypeOK
  BY DEF TypeOK, ConnectionTypeOK
<1> USE <1>0 DEF ConnectionTypeOK
<1>1. CASE f.op = "sendInLoop" /\ SendInLoop(f.msg)
  <2>1. f.msg \in Messages
    BY <1>1 DEF Functor
  <2>2. QED
    BY <1>1, <2>1, SendInLoopType
<1>2. CASE ConnectEstablished
  BY <1>2 DEF ConnectEstablished, States, serverVars, closeVars
<1>3. CASE ConnectDestroyed
  <2>1. state' \in States /\ registered' \in BOOLEAN /\ downs' \in Nat
    <3>1. downs \in Nat
      OBVIOUS
    <3>2. /\ state' = "Disconnected" /\ registered' = FALSE
          /\ downs' = downs + 1
      BY <1>3 DEF ConnectDestroyed
    <3>3. state' \in States /\ registered' \in BOOLEAN
      BY <3>2, Zenon DEF States
    <3>4. downs' \in Nat
      BY <3>1, <3>2
    <3>5. QED
      BY <3>3, <3>4
  <2>2. QED
    BY <1>3, <2>1 DEF ConnectDestroyed, serverVars, closeVars
<1>4. CASE HandleClose
  BY <1>4, HandleCloseType
<1>5. CASE /\ ShutdownInLoop(writing)
           /\ UNCHANGED <<state, channelVars, output, wire, pending,
                          serverVars, callbackVars, closeVars, accepted>>
  BY <1>5 DEF ShutdownInLoop, channelVars, serverVars, callbackVars, closeVars
<1>6. CASE UNCHANGED <<state, channelVars, output, wire, fin, pending,
                       serverVars, callbackVars, closeVars, accepted>>
  BY <1>6 DEF channelVars, serverVars, callbackVars, closeVars
<1>7. QED
  BY <1>1, <1>2, <1>3, <1>4, <1>5, <1>6 DEF Run

\* What handleWrite leaves: the kernel has a prefix of the buffer, the buffer
\* the rest.
LEMMA HandleWriteEffect ==
  ASSUME TypeOK, HandleWrite
  PROVE  /\ wire' \in Seq(Unit) /\ output' \in Seq(Unit)
         /\ wire' \o output' = wire \o output
         /\ Len(output') <= Len(output)
         /\ writing' = (writing /\ (output' # <<>> \/ output = <<>>))
         /\ fin' # fin => output' = <<>> /\ fin' = TRUE
<1>1. PICK n \in 0 .. Len(output) :
        /\ n = 0 <=> fin \/ ~writing
        /\ wire' = wire \o SubSeq(output, 1, n)
        /\ output' = Drop(output, n)
        /\ writing' = StillWriting(n > 0 /\ output' = <<>>)
        /\ FinishShutdown(n > 0 /\ output' = <<>>)
  BY DEF HandleWrite
<1> DEFINE taken == SubSeq(output, 1, n)
           rest == Drop(output, n)
<1>2. /\ taken \in Seq(Unit) /\ rest \in Seq(Unit)
      /\ taken \o rest = output
      /\ Len(taken) = n /\ Len(rest) = Len(output) - n
  <2>1. output \in Seq(Unit)
    BY DEF TypeOK
  <2>2. QED
    BY <2>1, Split
<1> HIDE DEF taken, rest
<1>2a. wire' = wire \o taken /\ output' = rest
  BY <1>1 DEF taken, rest
<1>3. /\ wire' \in Seq(Unit) /\ output' \in Seq(Unit)
  BY <1>2a, <1>2 DEF TypeOK
<1>3a. Len(output') <= Len(output)
  <2>1. Len(output) \in Nat
    BY DEF TypeOK
  <2>2. QED
    BY <1>2a, <1>2, <2>1
<1>4. wire' \o output' = wire \o output
  <2>1. (wire \o taken) \o rest = wire \o (taken \o rest)
    <3>1. wire \in Seq(Unit) /\ taken \in Seq(Unit) /\ rest \in Seq(Unit)
      BY <1>2 DEF TypeOK
    <3>2. QED
      BY <3>1, ConcatAssociative
  <2>2. QED
    BY <1>2a, <1>2, <2>1
<1>5. (n > 0 /\ output' = <<>>) <=> (output' = <<>> /\ output # <<>>)
  <2>1. output = <<>> => n = 0
    BY <1>1
  <2>2. output # <<>> /\ output' = <<>> => n > 0
    BY <1>2a, <1>2 DEF TypeOK
  <2>3. QED
    BY <2>1, <2>2
<1>6. writing' = (writing /\ (output' # <<>> \/ output = <<>>))
  BY <1>1, <1>5, Zenon DEF StillWriting, TypeOK
<1>7. fin' # fin => output' = <<>> /\ fin' = TRUE
  BY <1>1 DEF FinishShutdown, ShutdownInLoop, TypeOK
<1>8. QED
  BY <1>3, <1>3a, <1>4, <1>6, <1>7

\* Every step of the IO loop, the base loop, the workers and the peer keeps
\* the types.
LEMMA TypeStep == TypeOK /\ [Next]_vars => TypeOK'
<1> SUFFICES ASSUME TypeOK, [Next]_vars
             PROVE  TypeOK'
  OBVIOUS
<1> USE DEF channelVars, socketVars, loopVars, serverVars, callbackVars,
            closeVars, workerVars, workerUnchanged
<1>1. CASE Poll
  BY <1>1 DEF Poll, TypeOK
<1>2. CASE HandleRead
  <2>1. ConnectionTypeOK'
    <3>1. ConnectionTypeOK
      BY DEF TypeOK, ConnectionTypeOK
    <3>2. CASE HandleClose
      BY <3>1, <3>2, HandleCloseType
    <3>3. CASE ~HandleClose
      BY <1>2, <3>1, <3>3 DEF HandleRead, ConnectionTypeOK
    <3>4. QED
      BY <3>2, <3>3
  <2>2. QED
    BY <1>2, <2>1 DEF HandleRead, TypeOK, ConnectionTypeOK
<1>3. CASE HandleWrite
  <2>1. /\ wire' \in Seq(Unit) /\ output' \in Seq(Unit)
        /\ writing' = (writing /\ (output' # <<>> \/ output = <<>>))
        /\ fin' # fin => fin' = TRUE
    BY <1>3, HandleWriteEffect
  <2>2. writing' \in BOOLEAN /\ fin' \in BOOLEAN
    BY <2>1, Zenon DEF TypeOK
  <2>3. QED
    BY <1>3, <2>1, <2>2 DEF HandleWrite, TypeOK
<1>4. CASE HandleWriteError
  BY <1>4 DEF HandleWriteError, TypeOK
<1>5. CASE StartFunctors
  BY <1>5 DEF StartFunctors, EventsHandled, TypeOK
<1>6. CASE RunFunctor
  <2>1. Head(batch) \in Functor /\ Tail(batch) \in Seq(Functor)
    BY <1>6 DEF RunFunctor, TypeOK
  <2>2. ConnectionTypeOK'
    BY <1>6, <2>1, RunType DEF RunFunctor
  <2>3. QED
    BY <1>6, <2>1, <2>2 DEF RunFunctor, TypeOK, ConnectionTypeOK
<1>7. CASE FinishFunctors
  BY <1>7 DEF FinishFunctors, TypeOK
<1>8. ASSUME NEW m \in Messages, UserSend(m)
      PROVE  TypeOK'
  <2>1. ConnectionTypeOK'
    BY <1>8, SendInLoopType DEF UserSend
  <2>2. QED
    BY <1>8, <2>1 DEF UserSend, TypeOK, ConnectionTypeOK
<1>9. CASE UserShutdown
  BY <1>9 DEF UserShutdown, ShutdownInLoop, TypeOK, States
<1>10. CASE DestroyConnectionInLoop
  <2>1. [op |-> "connectDestroyed"] \in Functor
    BY DEF Functor
  <2>2. destroys' \in Nat
    <3>1. destroys \in Nat
      BY DEF TypeOK
    <3>2. QED
      BY <1>10, <3>1 DEF DestroyConnectionInLoop
  <2>3. pending' \in Seq(Functor) /\ mapped' \in BOOLEAN
    <3>1. pending \in Seq(Functor)
      BY DEF TypeOK
    <3>2. /\ pending' = Append(pending, [op |-> "connectDestroyed"])
          /\ mapped' = FALSE
      BY <1>10 DEF DestroyConnectionInLoop
    <3>3. pending' \in Seq(Functor)
      BY <2>1, <3>1, <3>2
    <3>4. QED
      BY <3>2, <3>3
  <2>4. UNCHANGED <<state, registered, writing, output, wire, fin, peerClosed,
                    pc, revents, batch, ups, downs, closes, aborted, wpc, wmsg,
                    unsent, accepted>>
    BY <1>10 DEF DestroyConnectionInLoop
  <2>5. QED
    BY <2>2, <2>3, <2>4 DEF TypeOK
<1>11. ASSUME NEW w \in Workers, NEW m \in Messages, SendCheck(w, m)
       PROVE  TypeOK'
  BY <1>11 DEF SendCheck, TypeOK
<1>12. ASSUME NEW w \in Workers, SendQueue(w)
       PROVE  TypeOK'
  <2>1. [op |-> "sendInLoop", msg |-> wmsg[w]] \in Functor
    BY DEF Functor, TypeOK
  <2>2. QED
    BY <1>12, <2>1 DEF SendQueue, TypeOK
<1>13. ASSUME NEW w \in Workers, ShutdownCheck(w)
       PROVE  TypeOK'
  BY <1>13 DEF ShutdownCheck, TypeOK
<1>14. ASSUME NEW w \in Workers, ShutdownSet(w)
       PROVE  TypeOK'
  BY <1>14 DEF ShutdownSet, TypeOK, States
<1>15. ASSUME NEW w \in Workers, ShutdownQueue(w)
       PROVE  TypeOK'
  <2>1. [op |-> "shutdownInLoop"] \in Functor
    BY DEF Functor
  <2>2. QED
    BY <1>15, <2>1 DEF ShutdownQueue, TypeOK
<1>16. CASE ForceClose
  <2>1. [op |-> "handleClose"] \in Functor
    BY DEF Functor
  <2>2. QED
    BY <1>16, <2>1 DEF ForceClose, TypeOK
<1>17. CASE PeerClose
  BY <1>17 DEF PeerClose, TypeOK
<1>18. CASE UNCHANGED vars
  BY <1>18 DEF vars, TypeOK
<1>19. QED
  BY <1>1, <1>2, <1>3, <1>4, <1>5, <1>6, <1>7, <1>8, <1>9, <1>10, <1>11,
     <1>12, <1>13, <1>14, <1>15, <1>16, <1>17, <1>18
     DEF Next, LoopStep, WorkerStep

\* The loop works on revents_ and on its functors in different phases, and
\* every variable has its type.
THEOREM TypeCorrect == Spec => []TypeOK
<1>1. ASSUME Init
      PROVE  TypeOK
  <2>1. [op |-> "connectEstablished"] \in Functor
    BY DEF Functor
  <2>2. pending \in Seq(Functor) /\ accepted \in Seq(Messages)
    BY <1>1, <2>1 DEF Init
  <2>3. /\ wpc \in [Workers -> {"idle", "send", "shutdownSet",
                                "shutdownQueue"}]
        /\ wmsg \in [Workers -> Messages]
    BY <1>1, MessagesAssumption DEF Init
  <2>4. output \in Seq(Unit) /\ wire \in Seq(Unit) /\ batch \in Seq(Functor)
    BY <1>1 DEF Init
  <2>5. /\ state \in States /\ revents = {} /\ batch = <<>> /\ pc = "poll"
        /\ unsent = Messages
        /\ registered = FALSE /\ writing = FALSE /\ fin = FALSE
        /\ peerClosed = FALSE /\ mapped = TRUE /\ aborted = FALSE
    BY <1>1, Zenon DEF Init
  <2>6. /\ destroys \in Nat /\ ups \in Nat /\ downs \in Nat
        /\ closes \in Nat
    BY <1>1 DEF Init
  <2>7. QED
    BY <2>2, <2>3, <2>4, <2>5, <2>6 DEF TypeOK
<1>2. QED
  BY <1>1, TypeStep, PTL DEF Spec

\* Only sendInLoop and handleWrite move data.
LEMMA TransferStep ==
  TypeOK /\ [Next]_vars =>
    \/ \E m \in Messages : SendInLoop(m)
    \/ HandleWrite
    \/ UNCHANGED <<writing, output, wire, accepted>>
<1> SUFFICES ASSUME TypeOK, [Next]_vars, ~HandleWrite,
                    \A m \in Messages : ~SendInLoop(m)
             PROVE  UNCHANGED <<writing, output, wire, accepted>>
  OBVIOUS
<1>1. CASE RunFunctor
  <2>1. Head(batch) \in Functor
    BY <1>1 DEF RunFunctor, TypeOK
  <2>2. ~(Head(batch).op = "sendInLoop" /\ SendInLoop(Head(batch).msg))
    BY <2>1 DEF Functor
  <2>3. QED
    BY <1>1, <2>2 DEF RunFunctor, Run, ConnectEstablished, ConnectDestroyed,
                      HandleClose, channelVars
<1>2. CASE UserShutdown \/ HandleRead
  BY <1>2 DEF UserShutdown, HandleRead, HandleClose, channelVars
<1>3. CASE \/ Poll \/ HandleWriteError \/ StartFunctors \/ FinishFunctors
           \/ DestroyConnectionInLoop \/ ForceClose \/ PeerClose
           \/ UNCHANGED vars
  BY <1>3 DEF Poll, HandleWriteError, StartFunctors, FinishFunctors,
              DestroyConnectionInLoop, ForceClose, PeerClose, vars,
              channelVars, socketVars, workerUnchanged
<1>4. ASSUME NEW w \in Workers, WorkerStep(w)
      PROVE  UNCHANGED <<writing, output, wire, accepted>>
  BY <1>4 DEF WorkerStep, SendCheck, SendQueue, ShutdownCheck, ShutdownSet,
              ShutdownQueue, workerUnchanged, channelVars, socketVars
<1>5. QED
  BY <1>1, <1>2, <1>3, <1>4 DEF Next, LoopStep, UserSend

-----------------------------------------------------------------------------
(* Shutting down.                                                          *)

\* The loop waits for room exactly while something is buffered.
Watching == writing <=> output # <<>>

\* sendInLoop asks for room when it leaves something over; only handleWrite
\* stops asking, when the buffer has drained.
LEMMA WatchingStep == TypeOK /\ Watching /\ [Next]_vars => Watching'
<1> SUFFICES ASSUME TypeOK, Watching, [Next]_vars
             PROVE  Watching'
  OBVIOUS
<1>1. ASSUME NEW m \in Messages, SendInLoop(m)
      PROVE  Watching'
  <2>1. PICK n \in 0 .. MessageLen :
          /\ output' = output \o (Drop(Units(m), n) \o Drop(Units(m), n))
          /\ writing' = (writing \/ Drop(Units(m), n) # <<>>)
    BY <1>1, SendInLoopEffect
  <2>2. PICK rest \in Seq(Unit) : rest = Drop(Units(m), n)
    BY UnitsType, Split
  <2>3. output' # <<>> <=> output # <<>> \/ rest # <<>>
    BY <2>1, <2>2 DEF TypeOK
  <2>4. QED
    BY <2>1, <2>2, <2>3, Zenon DEF Watching
<1>2. CASE UNCHANGED <<writing, output>>
  BY <1>2 DEF Watching
<1>3. CASE HandleWrite
  <2>1. /\ writing' = (writing /\ (output' # <<>> \/ output = <<>>))
        /\ output' \in Seq(Unit)
        /\ Len(output') <= Len(output)
    BY <1>3, HandleWriteEffect
  <2>2. output = <<>> => output' = <<>>
    BY <2>1
  <2>3. QED
    BY <2>1, <2>2, Zenon DEF Watching
<1>4. QED
  BY <1>1, <1>2, <1>3, TransferStep

\* The loop always waits for room exactly while something is buffered.
LEMMA WatchingCorrect == Spec => []Watching
<1>1. Init => Watching
  BY DEF Init, Watching
<1>2. QED
  BY <1>1, WatchingStep, TypeCorrect, PTL DEF Spec

\* handleWrite shuts the write side down after the buffer has drained;
\* shutdownInLoop only while the loop is not waiting for room.
LEMMA ShutdownStep ==
  TypeOK /\ Watching /\ [Next]_vars => (fin' /\ ~fin => output' = <<>>)
<1> SUFFICES ASSUME TypeOK, Watching, Next, fin', ~fin
             PROVE  output' = <<>>
  BY DEF vars, socketVars
<1>1. CASE ShutdownInLoop(writing) /\ UNCHANGED output
  BY <1>1, Zenon DEF ShutdownInLoop, Watching
<1>2. fin' # fin
  OBVIOUS
<1>3. CASE HandleWrite
  BY <1>2, <1>3, HandleWriteEffect
<1>4. CASE RunFunctor
  BY <1>1, <1>2, <1>4
     DEF RunFunctor, Run, SendInLoop, ConnectEstablished, ConnectDestroyed,
         HandleClose
<1>5. CASE UserShutdown
  BY <1>1, <1>5 DEF UserShutdown
<1>6. ~HandleRead
  BY <1>2 DEF HandleRead, HandleClose
<1>7. ~(\/ Poll \/ HandleWriteError \/ StartFunctors \/ FinishFunctors
        \/ DestroyConnectionInLoop \/ ForceClose \/ PeerClose)
  BY <1>2 DEF Poll, HandleWriteError, StartFunctors, FinishFunctors,
              DestroyConnectionInLoop, ForceClose, PeerClose, socketVars,
              workerUnchanged
<1>8. ASSUME NEW w \in Workers
      PROVE  ~WorkerStep(w)
  BY <1>2 DEF WorkerStep, SendCheck, SendQueue, ShutdownCheck, ShutdownSet,
              ShutdownQueue, workerUnchanged, socketVars
<1>9. ASSUME NEW m \in Messages
      PROVE  ~UserSend(m)
  BY <1>2 DEF UserSend, SendInLoop
<1>10. QED
  BY <1>3, <1>4, <1>5, <1>6, <1>7, <1>8, <1>9 DEF Next, LoopStep

\* FinAfterDrain, for every message length, high-water mark and number of
\* workers: a shutdown requested by any thread waits for the buffer.
THEOREM DrainedFirst == Spec => FinAfterDrain
<1>1. TypeOK /\ Watching /\ [Next]_vars =>
        [fin' /\ ~fin => output' = <<>>]_vars
  BY ShutdownStep
<1>2. QED
  BY <1>1, TypeCorrect, WatchingCorrect, PTL DEF Spec, FinAfterDrain

-----------------------------------------------------------------------------
(* Sending.                                                                *)

\* sendInLoop leaves the new message in the kernel and the buffer, handleWrite
\* only moves units from the one to the other.
LEMMA NothingLostStep ==
  TypeOK /\ NothingLost /\ [Next]_vars => NothingLost'
<1> SUFFICES ASSUME TypeOK, NothingLost, [Next]_vars
             PROVE  NothingLost'
  OBVIOUS
<1>1. wire \in Seq(Unit) /\ output \in Seq(Unit) /\ accepted \in Seq(Messages)
  BY DEF TypeOK
<1>2. ASSUME NEW m \in Messages, SendInLoop(m)
      PROVE  NothingLost'
  <2>1. PICK n \in 0 .. MessageLen :
          /\ wire' = wire \o SubSeq(Units(m), 1, n)
          /\ output' = output \o (Drop(Units(m), n) \o Drop(Units(m), n))
          /\ accepted' = Append(accepted, m)
    BY <1>2, SendInLoopEffect
  <2> DEFINE taken == SubSeq(Units(m), 1, n)
             rest == Drop(Units(m), n)
  <2>2. /\ taken \in Seq(Unit) /\ rest \in Seq(Unit)
        /\ Units(m) = taken \o rest
    BY UnitsType, Split
  <2>3. wire' = wire \o taken /\ output' = output \o (rest \o rest)
    BY <2>1
  <2> HIDE DEF taken, rest
  <2>4. Range(wire') = Range(wire) \cup Range(taken)
    BY <1>1, <2>2, <2>3, RangeConcatenation
  <2>5. Range(output') = Range(output) \cup Range(rest)
    <3>1. rest \o rest \in Seq(Unit)
      BY <2>2
    <3>2. Range(rest \o rest) = Range(rest) \cup Range(rest)
      BY <2>2, RangeConcatenation
    <3>3. PICK both : both = rest \o rest
      OBVIOUS
    <3>4. both \in Seq(Unit)
      BY <3>1, <3>3
    <3>5. Range(output \o both) = Range(output) \cup Range(both)
      BY <1>1, <3>4, RangeConcatenation
    <3>6. QED
      BY <2>3, <3>2, <3>3, <3>5
  <2>6. Range(Units(m)) = Range(taken) \cup Range(rest)
    BY <2>2, RangeConcatenation
  <2>7. ASSUME NEW i \in DOMAIN accepted'
        PROVE  Range(Units(accepted'[i])) \subseteq
                 Range(wire') \cup Range(output')
    <3>1. CASE i \in DOMAIN accepted
      <4>1. accepted'[i] = accepted[i]
        BY <1>1, <2>1, <3>1
      <4>2. Range(Units(accepted[i])) \subseteq Range(wire) \cup Range(output)
        BY <3>1 DEF NothingLost
      <4>3. QED
        BY <2>4, <2>5, <4>1, <4>2
    <3>2. CASE i \notin DOMAIN accepted
      <4>1. accepted'[i] = m
        BY <1>1, <2>1, <2>7, <3>2
      <4>2. QED
        BY <2>4, <2>5, <2>6, <4>1
    <3>3. QED
      BY <3>1, <3>2
  <2>8. QED
    BY <2>7 DEF NothingLost
<1>3. CASE HandleWrite
  <2>1. /\ wire' \in Seq(Unit) /\ output' \in Seq(Unit)
        /\ wire' \o output' = wire \o output
    BY <1>3, HandleWriteEffect
  <2>2. PICK u, v : u = wire' /\ v = output'
    OBVIOUS
  <2>3. Range(u) \cup Range(v) = Range(wire) \cup Range(output)
    <3>1. u \in Seq(Unit) /\ v \in Seq(Unit) /\ u \o v = wire \o output
      BY <2>1, <2>2
    <3>2. Range(u \o v) = Range(u) \cup Range(v)
      <4>1. u \in Seq(Unit) /\ v \in Seq(Unit)
        BY <3>1
      <4>2. QED
        BY <4>1, RangeConcatenation
    <3>3. Range(wire \o output) = Range(wire) \cup Range(output)
      BY <1>1, RangeConcatenation
    <3>4. QED
      BY <3>1, <3>2, <3>3
  <2>4. accepted' = accepted
    BY <1>3 DEF HandleWrite
  <2>5. QED
    BY <2>2, <2>3, <2>4 DEF NothingLost
<1>4. CASE UNCHANGED <<writing, output, wire, accepted>>
  BY <1>4 DEF NothingLost
<1>5. QED
  BY <1>2, <1>3, <1>4, TransferStep

\* NothingLost, whatever prefixes the kernel takes of messages of any length.
THEOREM NothingIsLost == Spec => []NothingLost
<1>1. Init => NothingLost
  BY DEF Init, NothingLost
<1>2. QED
  BY <1>1, NothingLostStep, TypeCorrect, PTL DEF Spec

-----------------------------------------------------------------------------
(* The functors.                                                           *)

\* The functors that the loop has still to run, in order.
Queue == batch \o pending

\* queueInLoop puts a functor behind all others.
LEMMA Pushed ==
  ASSUME TypeOK, NEW calls \in Seq(Functor),
         pending' = pending \o calls, batch' = batch
  PROVE  \A i \in DOMAIN Queue' :
           \/ i \in DOMAIN Queue /\ Queue'[i] = Queue[i]
           \/ \E k \in DOMAIN calls : /\ i = Len(Queue) + k
                                      /\ Queue'[i] = calls[k]
<1>1. batch \in Seq(Functor) /\ pending \in Seq(Functor)
  BY DEF TypeOK
<1>2. Queue \in Seq(Functor)
  BY <1>1 DEF Queue
<1>3. Queue' = Queue \o calls
  <2>1. Queue' = batch \o (pending \o calls)
    BY DEF Queue
  <2>2. QED
    BY <1>1, <2>1, ConcatAssociative DEF Queue
<1>4. PICK q, r : q = Queue /\ r = Queue'
  OBVIOUS
<1>5. \A i \in DOMAIN r :
        \/ i \in DOMAIN q /\ r[i] = q[i]
        \/ \E k \in DOMAIN calls : i = Len(q) + k /\ r[i] = calls[k]
  <2>1. q \in Seq(Functor) /\ r = q \o calls
    BY <1>2, <1>3, <1>4
  <2>2. TAKE i \in DOMAIN r
  <2>3. CASE i <= Len(q)
    BY <2>1, <2>2, <2>3
  <2>4. CASE i > Len(q)
    <3>1. /\ i - Len(q) \in DOMAIN calls
          /\ i = Len(q) + (i - Len(q))
          /\ r[i] = calls[i - Len(q)]
      BY <2>1, <2>2, <2>4
    <3>2. QED
      BY <3>1
  <2>5. QED
    BY <2>1, <2>2, <2>3, <2>4
<1>6. QED
  BY <1>4, <1>5

\* The queue after one functor was pushed.
LEMMA PushedOne ==
  ASSUME TypeOK, NEW f \in Functor, pending' = Append(pending, f), batch' = batch
  PROVE  \A i \in DOMAIN Queue' :
           \/ i \in DOMAIN Queue /\ Queue'[i] = Queue[i]
           \/ i = Len(Queue) + 1 /\ Queue'[i] = f
<1>1. <<f>> \in Seq(Functor) /\ DOMAIN <<f>> = {1} /\ <<f>>[1] = f
  OBVIOUS
<1>2. pending' = pending \o <<f>>
  BY AppendIsConcat DEF TypeOK
<1>3. PICK calls \in Seq(Functor) : calls = <<f>>
  BY <1>1
<1>4. \A i \in DOMAIN Queue' :
        \/ i \in DOMAIN Queue /\ Queue'[i] = Queue[i]
        \/ \E k \in DOMAIN calls : i = Len(Queue) + k /\ Queue'[i] = calls[k]
  BY <1>2, <1>3, Pushed
<1>5. QED
  BY <1>1, <1>3, <1>4

\* What a functor may add to pendingFunctors_ while it runs.
LEMMA CallbacksOnly ==
  ASSUME TypeOK, NEW f \in Functor, Run(f)
  PROVE  \E calls \in Seq(Functor) :
           /\ pending' = pending \o calls
           /\ \A i \in DOMAIN calls :
                calls[i].op \in {"writeComplete", "highWaterMark"}
<1>1. CASE f.op = "sendInLoop" /\ SendInLoop(f.msg)
  <2>1. f.msg \in Messages
    BY <1>1 DEF Functor
  <2>2. QED
    BY <1>1, <2>1, SendInLoopEffect
<1>2. CASE ~(f.op = "sendInLoop" /\ SendInLoop(f.msg))
  <2>1. UNCHANGED pending
    BY <1>2 DEF Run, ConnectEstablished, ConnectDestroyed, HandleClose
  <2>2. pending' = pending \o << >> /\ << >> \in Seq(Functor)
    BY <2>1 DEF TypeOK
  <2>3. DOMAIN << >> = {}
    OBVIOUS
  <2>4. WITNESS << >> \in Seq(Functor)
  <2>5. QED
    BY <2>2, <2>3
<1>3. QED
  BY <1>1, <1>2

\* doPendingFunctors runs the oldest functor; what that queues comes last.
LEMMA Popped ==
  ASSUME TypeOK, RunFunctor
  PROVE  /\ 1 \in DOMAIN Queue /\ Queue[1] = Head(batch)
         /\ DOMAIN Queue' \subseteq Nat \ {0}
         /\ \A i \in DOMAIN Queue' :
              \/ i + 1 \in DOMAIN Queue /\ Queue'[i] = Queue[i + 1]
              \/ Queue'[i].op \in {"writeComplete", "highWaterMark"}
<1>1. PICK calls \in Seq(Functor) :
        /\ pending' = pending \o calls
        /\ \A i \in DOMAIN calls :
             calls[i].op \in {"writeComplete", "highWaterMark"}
  <2>1. Head(batch) \in Functor
    BY DEF RunFunctor, TypeOK
  <2>2. Run(Head(batch))
    BY DEF RunFunctor
  <2>3. QED
    BY <2>1, <2>2, CallbacksOnly
<1>2. PICK b, p, q, r :
        b = batch /\ p = pending /\ q = Queue /\ r = Queue'
  OBVIOUS
<1>3. /\ b \in Seq(Functor) /\ b # <<>> /\ p \in Seq(Functor)
      /\ q = b \o p
      /\ r = Tail(b) \o (p \o calls)
  BY <1>1, <1>2 DEF RunFunctor, TypeOK, Queue
<1>4. 1 \in DOMAIN q /\ q[1] = Head(b) /\ DOMAIN r \subseteq Nat \ {0}
  BY <1>3
<1>5. \A i \in DOMAIN r :
        \/ i + 1 \in DOMAIN q /\ r[i] = q[i + 1]
        \/ r[i].op \in {"writeComplete", "highWaterMark"}
  <2>1. TAKE i \in DOMAIN r
  <2>2. /\ Tail(b) \in Seq(Functor) /\ Len(Tail(b)) = Len(b) - 1
        /\ \A j \in 1 .. Len(b) - 1 : Tail(b)[j] = b[j + 1]
    BY <1>3
  <2>3. /\ p \o calls \in Seq(Functor)
        /\ Len(p \o calls) = Len(p) + Len(calls)
        /\ \A j \in 1 .. Len(p) : (p \o calls)[j] = p[j]
        /\ \A j \in 1 .. Len(calls) : (p \o calls)[Len(p) + j] = calls[j]
    BY <1>3
  <2>4. PICK t, u : t = Tail(b) /\ u = p \o calls
    OBVIOUS
  <2>5. /\ i \in 1 .. (Len(b) - 1) + (Len(p) + Len(calls))
        /\ i <= Len(b) - 1 => r[i] = t[i]
        /\ i > Len(b) - 1 => r[i] = u[i - (Len(b) - 1)]
    BY <1>3, <2>1, <2>2, <2>3, <2>4
  <2>6. CASE i <= Len(b) - 1
    <3>1. r[i] = b[i + 1] /\ i \in 1 .. Len(b) - 1
      BY <1>3, <2>2, <2>4, <2>5, <2>6
    <3>2. QED
      BY <1>3, <3>1
  <2>7. CASE i > Len(b) - 1 /\ i <= Len(b) - 1 + Len(p)
    <3>1. r[i] = p[i - (Len(b) - 1)] /\ i - (Len(b) - 1) \in 1 .. Len(p)
      BY <1>3, <2>3, <2>4, <2>5, <2>7
    <3>2. i + 1 \in DOMAIN q /\ q[i + 1] = p[(i + 1) - Len(b)]
      BY <1>3, <2>5, <2>7
    <3>3. (i + 1) - Len(b) = i - (Len(b) - 1)
      BY <1>3, <2>5
    <3>4. QED
      BY <3>1, <3>2, <3>3
  <2>8. CASE i > Len(b) - 1 + Len(p)
    <3>1. PICK j \in 1 .. Len(calls) : i - (Len(b) - 1) = Len(p) + j
      <4>1. i - (Len(b) - 1) - Len(p) \in 1 .. Len(calls)
        BY <1>3, <2>5, <2>8
      <4>2. QED
        BY <1>3, <2>5, <4>1
    <3>2. r[i] = calls[j]
      BY <1>3, <2>3, <2>4, <2>5, <2>8, <3>1
    <3>3. QED
      BY <1>1, <3>2
  <2>9. \/ i <= Len(b) - 1
        \/ i > Len(b) - 1 /\ i <= Len(b) - 1 + Len(p)
        \/ i > Len(b) - 1 + Len(p)
    <3>1. i \in Int /\ Len(b) - 1 \in Int /\ Len(b) - 1 + Len(p) \in Int
      BY <1>3, <2>5
    <3>2. QED
      BY <3>1
  <2>10. QED
    BY <2>6, <2>7, <2>8, <2>9
<1>6. QED
  BY <1>2, <1>4, <1>5

\* Taking the functors over changes nothing: the batch was empty.
LEMMA SwappedOut ==
  ASSUME TypeOK, StartFunctors
  PROVE  Queue' = Queue
<1>1. batch = <<>> /\ pending \in Seq(Functor)
  BY DEF TypeOK, StartFunctors
<1>2. QED
  BY <1>1 DEF StartFunctors, Queue

-----------------------------------------------------------------------------
(* Where a message is.                                                     *)

\* A worker has found the connection up and not yet queued the message.
InHand(w, m) == wpc[w] = "send" /\ wmsg[w] = m

Queued(i, m) ==
  /\ i \in DOMAIN Queue
  /\ Queue[i].op = "sendInLoop"
  /\ Queue[i].msg = m

Given(m) == \E k \in DOMAIN accepted : accepted[k] = m

\* A message is in one place: not yet sent, with one worker, in one functor,
\* or given to sendInLoop.
OnePlace ==
  /\ \A m \in unsent : /\ ~Given(m)
                       /\ \A w \in Workers : ~InHand(w, m)
                       /\ \A i \in Nat : ~Queued(i, m)
  /\ \A m \in Messages, w \in Workers :
       InHand(w, m) => /\ ~Given(m)
                       /\ \A v \in Workers : InHand(v, m) => v = w
                       /\ \A i \in Nat : ~Queued(i, m)
  /\ \A m \in Messages, i \in Nat :
       Queued(i, m) => /\ ~Given(m)
                       /\ \A j \in Nat : Queued(j, m) => j = i

\* sendInLoop(m) adds m to what it was given.
LEMMA GivenOne ==
  ASSUME TypeOK, NEW m \in Messages, accepted' = Append(accepted, m),
         NEW x \in Messages
  PROVE  Given(x)' <=> Given(x) \/ x = m
<1>1. accepted \in Seq(Messages)
  BY DEF TypeOK
<1>2. Given(x) => Given(x)'
  BY <1>1 DEF Given
<1>3. x = m => Given(x)'
  <2>1. /\ Len(accepted) + 1 \in DOMAIN Append(accepted, m)
        /\ Append(accepted, m)[Len(accepted) + 1] = m
    BY <1>1
  <2>2. QED
    BY <2>1 DEF Given
<1>4. Given(x)' => Given(x) \/ x = m
  BY <1>1 DEF Given
<1>5. QED
  BY <1>2, <1>3, <1>4

\* Which messages are queued after a step that queues none.
LEMMA StillQueued ==
  ASSUME TypeOK, NEW calls \in Seq(Functor),
         pending' = pending \o calls, batch' = batch,
         \A i \in DOMAIN calls : calls[i].op # "sendInLoop"
  PROVE  \A i \in Nat, m \in Messages : Queued(i, m)' => Queued(i, m)
BY Pushed DEF Queued

\* Pushing another kind of functor queues no message.
LEMMA StillQueuedOne ==
  ASSUME TypeOK, NEW f \in Functor, f.op # "sendInLoop",
         pending' = Append(pending, f), batch' = batch
  PROVE  \A i \in Nat, m \in Messages : Queued(i, m)' => Queued(i, m)
BY PushedOne DEF Queued

\* Running a functor moves the queued messages one place up.
LEMMA QueuedBehind ==
  ASSUME TypeOK, RunFunctor
  PROVE  \A i \in Nat, m \in Messages : Queued(i, m)' => i # 0 /\ Queued(i + 1, m)
<1>1. TAKE i \in Nat, m \in Messages
<1>2. HAVE Queued(i, m)'
<1>3. i # 0
  BY <1>2, Popped DEF Queued
<1>4. i + 1 \in DOMAIN Queue /\ Queue'[i] = Queue[i + 1]
  BY <1>2, Popped DEF Queued
<1>5. QED
  BY <1>2, <1>3, <1>4 DEF Queued

\* A message moves from one place to the next: to a worker, into a functor,
\* out of it into sendInLoop.
LEMMA OnePlaceStep == TypeOK /\ OnePlace /\ [Next]_vars => OnePlace'
<1> SUFFICES ASSUME TypeOK, OnePlace, [Next]_vars
             PROVE  OnePlace'
  OBVIOUS
<1>1. ASSUME NEW d \in {0, 1},
             \A i \in Nat, m \in Messages : Queued(i, m)' => Queued(i + d, m),
             UNCHANGED <<unsent, accepted>>,
             \A w \in Workers, m \in Messages : InHand(w, m)' => InHand(w, m)
      PROVE  OnePlace'
  <2>1. \A m : Given(m)' <=> Given(m)
    BY <1>1 DEF Given
  <2>2. \A i \in Nat : i + d \in Nat
    BY <1>1
  <2>3. unsent \subseteq Messages
    BY DEF TypeOK
  <2>4. \A m \in unsent' : /\ ~Given(m)'
                           /\ \A w \in Workers : ~InHand(w, m)'
                           /\ \A i \in Nat : ~Queued(i, m)'
    BY <1>1, <2>1, <2>2, <2>3 DEF OnePlace
  <2>5. \A m \in Messages, w \in Workers :
          InHand(w, m)' => /\ ~Given(m)'
                           /\ \A v \in Workers : InHand(v, m)' => v = w
                           /\ \A i \in Nat : ~Queued(i, m)'
    BY <1>1, <2>1, <2>2 DEF OnePlace
  <2>6. \A m \in Messages, i \in Nat :
          Queued(i, m)' => /\ ~Given(m)'
                           /\ \A j \in Nat : Queued(j, m)' => j = i
    <3>1. TAKE m \in Messages, i \in Nat
    <3>2. HAVE Queued(i, m)'
    <3>3. Queued(i + d, m) /\ ~Given(m)'
      BY <1>1, <2>1, <2>2, <3>2 DEF OnePlace
    <3>4. ASSUME NEW j \in Nat, Queued(j, m)'
          PROVE  j = i
      <4>1. Queued(j + d, m)
        BY <1>1, <3>4
      <4>2. j + d = i + d
        BY <2>2, <3>3, <4>1 DEF OnePlace
      <4>3. QED
        BY <1>1, <4>2
    <3>5. QED
      BY <3>3, <3>4
  <2>7. QED
    BY <2>4, <2>5, <2>6 DEF OnePlace
<1>2. ASSUME NEW d \in {0, 1}, NEW m \in Messages,
             \A i \in Nat, x \in Messages :
               Queued(i, x)' => Queued(i + d, x) /\ (d = 1 => i # 0),
             accepted' = Append(accepted, m),
             UNCHANGED workerVars,
             \/ d = 0 /\ m \in unsent /\ unsent' = unsent \ {m}
             \/ d = 1 /\ Queued(1, m) /\ unsent' = unsent
      PROVE  OnePlace'
  <2>1. \A x \in Messages : Given(x)' <=> Given(x) \/ x = m
    BY <1>2, GivenOne
  <2>2. \A w, x : InHand(w, x)' <=> InHand(w, x)
    BY <1>2 DEF InHand, workerVars
  <2>3. unsent \subseteq Messages /\ (\A i \in Nat : i + d \in Nat) /\ 1 \in Nat
    BY <1>2 DEF TypeOK
  <2>4. m \notin unsent'
    BY <1>2, <2>3 DEF OnePlace
  <2>5. \A w \in Workers : ~InHand(w, m)
    BY <1>2, <2>3 DEF OnePlace
  <2>6. \A i \in Nat : ~Queued(i, m)'
    <3>1. CASE d = 0
      BY <1>2, <2>3, <3>1 DEF OnePlace
    <3>2. CASE d = 1
      <4>1. Queued(1, m)
        BY <1>2, <3>2
      <4>2. ASSUME NEW i \in Nat, Queued(i, m)'
            PROVE  FALSE
        <5>1. Queued(i + 1, m) /\ i # 0
          BY <1>2, <3>2, <4>2
        <5>2. i + 1 = 1
          BY <2>3, <3>2, <4>1, <5>1 DEF OnePlace
        <5>3. QED
          BY <5>1, <5>2
      <4>3. QED
        BY <4>2
    <3>3. QED
      BY <1>2, <3>1, <3>2
  <2>7. unsent' \subseteq unsent
    BY <1>2
  <2>8. \A x \in unsent' : /\ ~Given(x)'
                           /\ \A w \in Workers : ~InHand(w, x)'
                           /\ \A i \in Nat : ~Queued(i, x)'
    BY <1>2, <2>1, <2>2, <2>3, <2>4, <2>7 DEF OnePlace
  <2>9. \A x \in Messages, w \in Workers :
          InHand(w, x)' => /\ ~Given(x)'
                           /\ \A v \in Workers : InHand(v, x)' => v = w
                           /\ \A i \in Nat : ~Queued(i, x)'
    BY <1>2, <2>1, <2>2, <2>3, <2>5 DEF OnePlace
  <2>10. \A x \in Messages, i \in Nat :
           Queued(i, x)' => /\ ~Given(x)'
                            /\ \A j \in Nat : Queued(j, x)' => j = i
    <3>1. TAKE x \in Messages, i \in Nat
    <3>2. HAVE Queued(i, x)'
    <3>3. Queued(i + d, x) /\ x # m
      BY <1>2, <2>6, <3>2
    <3>4. ~Given(x)'
      BY <2>1, <2>3, <3>3 DEF OnePlace
    <3>5. ASSUME NEW j \in Nat, Queued(j, x)'
          PROVE  j = i
      <4>1. Queued(j + d, x)
        BY <1>2, <3>5
      <4>2. j + d = i + d
        BY <2>3, <3>3, <4>1 DEF OnePlace
      <4>3. QED
        BY <1>2, <4>2
    <3>6. QED
      BY <3>4, <3>5
  <2>11. QED
    BY <2>8, <2>9, <2>10 DEF OnePlace
<1>3. ASSUME UNCHANGED <<pending, batch, unsent, accepted, workerVars>>
      PROVE  OnePlace'
  BY <1>3 DEF OnePlace, Given, InHand, Queued, Queue, workerVars
<1>4. CASE \/ Poll \/ HandleRead \/ HandleWrite \/ HandleWriteError
           \/ FinishFunctors \/ UserShutdown \/ PeerClose \/ UNCHANGED vars
  BY <1>3, <1>4
     DEF Poll, HandleRead, HandleClose, HandleWrite, HandleWriteError,
         FinishFunctors, UserShutdown, PeerClose, vars, loopVars
<1>5. CASE StartFunctors
  <2>1. Queue' = Queue
    BY <1>5, SwappedOut
  <2>2. UNCHANGED <<unsent, accepted, workerVars>>
    BY <1>5 DEF StartFunctors
  <2>3. QED
    BY <2>1, <2>2 DEF OnePlace, Given, InHand, Queued, workerVars
<1>6. ASSUME NEW f \in Functor, f.op # "sendInLoop",
             pending' = Append(pending, f), batch' = batch,
             UNCHANGED <<unsent, accepted>>,
             \A w \in Workers, m \in Messages : InHand(w, m)' => InHand(w, m)
      PROVE  OnePlace'
  <2>1. \A i \in Nat, m \in Messages : Queued(i, m)' => Queued(i + 0, m)
    BY <1>6, StillQueuedOne
  <2>2. QED
    BY <1>1, <1>6, <2>1
<1>7. CASE DestroyConnectionInLoop \/ ForceClose
  <2>1. \A w, m : InHand(w, m)' <=> InHand(w, m)
    BY <1>7 DEF DestroyConnectionInLoop, ForceClose, InHand, workerVars
  <2>2. /\ [op |-> "connectDestroyed"] \in Functor
        /\ [op |-> "handleClose"] \in Functor
    BY DEF Functor
  <2>3. QED
    BY <1>6, <1>7, <2>1, <2>2
       DEF DestroyConnectionInLoop, ForceClose, loopVars, workerUnchanged
<1>8. CASE RunFunctor
  <2>1. Head(batch) \in Functor /\ Run(Head(batch))
    BY <1>8 DEF RunFunctor, TypeOK
  <2>2. \A i \in Nat, m \in Messages :
          Queued(i, m)' => Queued(i + 1, m) /\ i # 0
    BY <1>8, QueuedBehind
  <2>3. UNCHANGED <<unsent, workerVars>>
    BY <1>8 DEF RunFunctor
  <2>4. CASE Head(batch).op = "sendInLoop" /\ SendInLoop(Head(batch).msg)
    <3>1. Head(batch).msg \in Messages
      BY <2>1, <2>4 DEF Functor
    <3>2. Queued(1, Head(batch).msg)
      BY <1>8, <2>4, Popped DEF Queued
    <3>3. accepted' = Append(accepted, Head(batch).msg)
      BY <2>4 DEF SendInLoop
    <3>4. PICK m \in Messages : m = Head(batch).msg
      BY <3>1
    <3>5. Queued(1, m) /\ accepted' = Append(accepted, m)
      BY <3>2, <3>3, <3>4
    <3>6. QED
      BY <1>2, <2>2, <2>3, <3>5
  <2>5. CASE ~(Head(batch).op = "sendInLoop" /\ SendInLoop(Head(batch).msg))
    <3>1. UNCHANGED accepted
      BY <2>1, <2>5 DEF Run, ConnectEstablished, ConnectDestroyed, HandleClose
    <3>2. \A w, m : InHand(w, m)' <=> InHand(w, m)
      BY <2>3 DEF InHand, workerVars
    <3>3. QED
      BY <1>1, <2>2, <2>3, <3>1, <3>2
  <2>6. QED
    BY <2>4, <2>5
<1>9. ASSUME NEW m \in Messages, UserSend(m)
      PROVE  OnePlace'
  <2>1. PICK calls \in Seq(Functor) :
          /\ pending' = pending \o calls
          /\ \A i \in DOMAIN calls :
               calls[i].op \in {"writeComplete", "highWaterMark"}
          /\ accepted' = Append(accepted, m)
    BY <1>9, SendInLoopEffect DEF UserSend
  <2>2. batch' = batch /\ UNCHANGED workerVars
    BY <1>9 DEF UserSend, loopVars
  <2>3. \A i \in Nat, x \in Messages : Queued(i, x)' => Queued(i, x)
    <3>1. \A i \in DOMAIN calls : calls[i].op # "sendInLoop"
      BY <2>1
    <3>2. QED
      BY <2>1, <2>2, <3>1, StillQueued
  <2>4. m \in unsent /\ unsent' = unsent \ {m}
    BY <1>9 DEF UserSend
  <2>5. \A i \in Nat, x \in Messages :
          Queued(i, x)' => Queued(i + 0, x) /\ (0 = 1 => i # 0)
    BY <2>3
  <2>6. QED
    BY <1>2, <2>1, <2>2, <2>4, <2>5
<1>10. ASSUME NEW w \in Workers, NEW m \in Messages, SendCheck(w, m)
       PROVE  OnePlace'
  <2>1. /\ m \in unsent /\ unsent' = unsent \ {m}
        /\ UNCHANGED <<pending, batch, accepted>>
    BY <1>10 DEF SendCheck, workerUnchanged, loopVars
  <2>2. \A x : Given(x)' <=> Given(x)
    BY <2>1 DEF Given
  <2>3. \A i, x : Queued(i, x)' <=> Queued(i, x)
    BY <2>1 DEF Queued, Queue
  <2>4. \A v \in Workers : \A x : InHand(v, x)' => InHand(v, x) \/ (v = w /\ x = m)
    BY <1>10 DEF SendCheck, InHand, TypeOK
  <2>5. unsent \subseteq Messages
    BY DEF TypeOK
  <2>6. ~Given(m) /\ (\A v \in Workers : ~InHand(v, m))
          /\ \A i \in Nat : ~Queued(i, m)
    BY <2>1 DEF OnePlace
  <2>7. \A x \in unsent' : /\ ~Given(x)'
                           /\ \A v \in Workers : ~InHand(v, x)'
                           /\ \A i \in Nat : ~Queued(i, x)'
    BY <2>1, <2>2, <2>3, <2>4 DEF OnePlace
  <2>8. \A x \in Messages, v \in Workers :
          InHand(v, x)' => /\ ~Given(x)'
                           /\ \A u \in Workers : InHand(u, x)' => u = v
                           /\ \A i \in Nat : ~Queued(i, x)'
    <3>1. TAKE x \in Messages, v \in Workers
    <3>2. CASE x = m
      BY <2>2, <2>3, <2>4, <2>6, <3>2
    <3>3. CASE x # m
      BY <2>2, <2>3, <2>4, <3>3 DEF OnePlace
    <3>4. QED
      BY <3>2, <3>3
  <2>9. \A x \in Messages, i \in Nat :
          Queued(i, x)' => /\ ~Given(x)'
                           /\ \A j \in Nat : Queued(j, x)' => j = i
    BY <2>2, <2>3 DEF OnePlace
  <2>10. QED
    BY <2>7, <2>8, <2>9 DEF OnePlace
<1>11. ASSUME NEW w \in Workers, SendQueue(w)
       PROVE  OnePlace'
  <2>1. PICK m \in Messages : m = wmsg[w]
    BY DEF TypeOK
  <2>2. PICK f \in Functor : f = [op |-> "sendInLoop", msg |-> m]
    BY DEF Functor
  <2>3. /\ wpc[w] = "send" /\ pending' = Append(pending, f) /\ batch' = batch
        /\ UNCHANGED <<accepted, unsent, wmsg>>
        /\ wpc' = [wpc EXCEPT ![w] = "idle"]
    BY <1>11, <2>1, <2>2 DEF SendQueue, workerUnchanged, loopVars
  <2>4. InHand(w, m)
    BY <2>1, <2>3 DEF InHand
  <2>5. \A v \in Workers : \A x : InHand(v, x)' => InHand(v, x) /\ v # w
    BY <2>3 DEF InHand, TypeOK
  <2>6. \A x : Given(x)' <=> Given(x)
    BY <2>3 DEF Given
  <2>7. PICK last : last = Len(Queue) + 1
    OBVIOUS
  <2>8. \A i \in Nat, x \in Messages :
          Queued(i, x)' => Queued(i, x) \/ (i = last /\ x = m)
    BY <2>2, <2>3, <2>7, PushedOne DEF Queued
  <2>9. ~Given(m) /\ m \notin unsent /\ (\A i \in Nat : ~Queued(i, m))
    BY <2>4 DEF OnePlace
  <2>10. unsent \subseteq Messages
    BY DEF TypeOK
  <2>11. \A x \in unsent' : /\ ~Given(x)'
                            /\ \A v \in Workers : ~InHand(v, x)'
                            /\ \A i \in Nat : ~Queued(i, x)'
    BY <2>3, <2>5, <2>6, <2>8, <2>9, <2>10 DEF OnePlace
  <2>12. \A x \in Messages, v \in Workers :
           InHand(v, x)' => /\ ~Given(x)'
                            /\ \A u \in Workers : InHand(u, x)' => u = v
                            /\ \A i \in Nat : ~Queued(i, x)'
    <3>1. TAKE x \in Messages, v \in Workers
    <3>2. HAVE InHand(v, x)'
    <3>3. x # m
      BY <2>4, <2>5, <3>2 DEF OnePlace
    <3>4. QED
      BY <2>5, <2>6, <2>8, <3>2, <3>3 DEF OnePlace
  <2>13. \A x \in Messages, i \in Nat :
           Queued(i, x)' => /\ ~Given(x)'
                            /\ \A j \in Nat : Queued(j, x)' => j = i
    <3>1. TAKE x \in Messages, i \in Nat
    <3>2. CASE x = m
      BY <2>6, <2>8, <2>9, <3>2
    <3>3. CASE x # m
      BY <2>6, <2>8, <3>3 DEF OnePlace
    <3>4. QED
      BY <3>2, <3>3
  <2>14. QED
    BY <2>11, <2>12, <2>13 DEF OnePlace
<1>12. ASSUME NEW w \in Workers,
              \/ ShutdownCheck(w) \/ ShutdownSet(w) \/ ShutdownQueue(w)
       PROVE  OnePlace'
  <2>1. \A v \in Workers : \A m : InHand(v, m)' => InHand(v, m)
    BY <1>12 DEF ShutdownCheck, ShutdownSet, ShutdownQueue, InHand, TypeOK
  <2>2. CASE ShutdownQueue(w)
    <3>1. [op |-> "shutdownInLoop"] \in Functor
      BY DEF Functor
    <3>2. QED
      BY <1>6, <2>1, <2>2, <3>1 DEF ShutdownQueue, workerUnchanged, loopVars
  <2>3. CASE ShutdownCheck(w) \/ ShutdownSet(w)
    <3>1. UNCHANGED <<pending, batch, unsent, accepted>>
      BY <2>3 DEF ShutdownCheck, ShutdownSet, workerUnchanged, loopVars
    <3>2. \A i \in Nat, m \in Messages : Queued(i, m)' => Queued(i + 0, m)
      BY <3>1 DEF Queued, Queue
    <3>3. QED
      BY <1>1, <2>1, <3>1, <3>2
  <2>4. QED
    BY <1>12, <2>2, <2>3
<1>13. QED
  BY <1>4, <1>5, <1>7, <1>8, <1>9, <1>10, <1>11, <1>12
     DEF Next, LoopStep, WorkerStep

\* A message is always in one place at most.
LEMMA OnePlaceCorrect == Spec => []OnePlace
<1>1. ASSUME Init
      PROVE  OnePlace
  <2>1. Queue = <<[op |-> "connectEstablished"]>>
    BY <1>1 DEF Init, Queue
  <2>2. \A i, m : ~Queued(i, m)
    BY <2>1 DEF Queued
  <2>3. (\A m : ~Given(m)) /\ (\A w \in Workers : \A m : ~InHand(w, m))
    BY <1>1 DEF Init, Given, InHand
  <2>4. QED
    BY <2>2, <2>3 DEF OnePlace
<1>2. QED
  BY <1>1, OnePlaceStep, TypeCorrect, PTL DEF Spec

-----------------------------------------------------------------------------
(* The order of what is sent.                                              *)

\* What sendInLoop has passed on, to the kernel or to the buffer.
Sent == wire \o output

\* It is made of messages that sendInLoop was given, in their order.  The
\* order is stated without Index, for any two places a message was given at.
InOrder ==
  /\ \A i \in DOMAIN Sent : Given(Sent[i][1])
  /\ \A i, j \in DOMAIN Sent : \A a, b \in DOMAIN accepted :
       i < j /\ Sent[i][1] = accepted[a] /\ Sent[j][1] = accepted[b] => a <= b

\* sendInLoop adds units of its message behind everything sent before: it
\* writes directly only when the buffer is empty.
LEMMA SentBehind ==
  ASSUME TypeOK, NEW m \in Messages, SendInLoop(m)
  PROVE  \E more \in Seq(Unit) :
           /\ Sent' = Sent \o more
           /\ \A i \in DOMAIN more : more[i][1] = m
<1>1. PICK n \in 0 .. MessageLen :
        /\ n # 0 => output = <<>>
        /\ wire' = wire \o SubSeq(Units(m), 1, n)
        /\ output' = output \o (Drop(Units(m), n) \o Drop(Units(m), n))
  BY SendInLoopEffect
<1> DEFINE taken == SubSeq(Units(m), 1, n)
           rest == Drop(Units(m), n)
<1>2. /\ taken \in Seq(Unit) /\ rest \in Seq(Unit)
      /\ Len(taken) = n /\ Len(rest) = MessageLen - n
      /\ \A i \in DOMAIN taken : taken[i][1] = m
      /\ \A i \in DOMAIN rest : rest[i][1] = m
  <2>1. /\ Units(m) \in Seq(Unit) /\ Len(Units(m)) = MessageLen
        /\ \A i \in 1 .. MessageLen : Units(m)[i][1] = m
        /\ MessageLen \in Nat
    BY UnitsType, MessageLenAssumption
  <2>2. /\ taken \in Seq(Unit) /\ rest \in Seq(Unit)
        /\ Len(taken) = n /\ Len(rest) = MessageLen - n
    BY <2>1, Split
  <2>3. ASSUME NEW i \in DOMAIN taken
        PROVE  taken[i][1] = m
    <3>1. i \in 1 .. MessageLen /\ taken[i] = Units(m)[i]
      BY <2>1, <2>2, <2>3
    <3>2. QED
      BY <2>1, <3>1
  <2>4. ASSUME NEW i \in DOMAIN rest
        PROVE  rest[i][1] = m
    <3>1. n + i \in 1 .. MessageLen /\ rest[i] = Units(m)[n + i]
      BY <2>1, <2>2, <2>4 DEF Drop
    <3>2. QED
      BY <2>1, <3>1
  <2>5. QED
    BY <2>2, <2>3, <2>4
<1>3. wire' = wire \o taken /\ output' = output \o (rest \o rest)
  BY <1>1
<1> HIDE DEF taken, rest
<1>4. PICK both \in Seq(Unit) :
        both = rest \o rest /\ \A i \in DOMAIN both : both[i][1] = m
  <2>1. rest \o rest \in Seq(Unit)
    BY <1>2
  <2>2. ASSUME NEW i \in DOMAIN (rest \o rest)
        PROVE  (rest \o rest)[i][1] = m
    <3>1. CASE i <= Len(rest)
      BY <1>2, <2>2, <3>1
    <3>2. CASE i > Len(rest)
      <4>1. /\ i - Len(rest) \in DOMAIN rest
            /\ (rest \o rest)[i] = rest[i - Len(rest)]
        BY <1>2, <2>2, <3>2
      <4>2. QED
        BY <1>2, <4>1
    <3>3. QED
      BY <1>2, <2>2, <3>1, <3>2
  <2>3. QED
    BY <2>1, <2>2
<1>5. /\ wire \in Seq(Unit) /\ output \in Seq(Unit)
      /\ both \in Seq(Unit) /\ taken \in Seq(Unit)
  BY <1>2, <1>4 DEF TypeOK
<1>6. CASE n = 0
  <2>1. wire' = wire
    BY <1>2, <1>3, <1>5, <1>6
  <2>2. Sent' = wire \o (output \o both)
    BY <1>3, <1>4, <2>1 DEF Sent
  <2>3. (wire \o output) \o both = wire \o (output \o both)
    BY <1>5, ConcatAssociative
  <2>4. Sent' = Sent \o both
    BY <2>2, <2>3 DEF Sent
  <2>5. QED
    BY <1>4, <2>4
<1>7. CASE n # 0
  <2>1. output = <<>>
    BY <1>1, <1>7
  <2>2. output' = both
    BY <1>3, <1>4, <2>1
  <2>3. Sent' = (wire \o taken) \o both
    BY <1>3, <2>2 DEF Sent
  <2>4. (wire \o taken) \o both = wire \o (taken \o both)
    BY <1>5, ConcatAssociative
  <2>5. Sent = wire
    BY <1>5, <2>1 DEF Sent
  <2>6. PICK more \in Seq(Unit) : more = taken \o both
    <3>1. taken \o both \in Seq(Unit)
      BY <1>5
    <3>2. QED
      BY <3>1
  <2>7. \A i \in DOMAIN more : more[i][1] = m
    <3>1. TAKE i \in DOMAIN more
    <3>2. CASE i <= Len(taken)
      BY <1>2, <1>4, <2>6, <3>1, <3>2
    <3>3. CASE i > Len(taken)
      <4>1. /\ i - Len(taken) \in DOMAIN both
            /\ more[i] = both[i - Len(taken)]
        BY <1>2, <1>4, <2>6, <3>1, <3>3
      <4>2. QED
        BY <1>4, <4>1
    <3>4. QED
      BY <1>2, <1>4, <2>6, <3>1, <3>2, <3>3
  <2>8. Sent' = Sent \o more
    BY <2>3, <2>4, <2>5, <2>6
  <2>9. QED
    BY <2>7, <2>8
<1>8. QED
  BY <1>6, <1>7

\* The message that sendInLoop is called with has not been given to it
\* before, so its units may follow all others.
LEMMA NotGivenYet ==
  TypeOK /\ OnePlace /\ [Next]_vars =>
    \A m \in Messages : SendInLoop(m) => ~Given(m) /\ accepted' = Append(accepted, m)
<1> SUFFICES ASSUME TypeOK, OnePlace, [Next]_vars,
                    NEW m \in Messages, SendInLoop(m)
             PROVE  ~Given(m) /\ accepted' = Append(accepted, m)
  OBVIOUS
<1>1. accepted' = Append(accepted, m)
  BY DEF SendInLoop
<1>2. PICK a, b : a = accepted /\ b = accepted'
  OBVIOUS
<1>3. /\ a \in Seq(Messages)
      /\ b = Append(a, m)
      /\ Len(b) = Len(a) + 1
      /\ b[Len(b)] = m
  BY <1>1, <1>2 DEF TypeOK
<1>4. accepted' # accepted
  BY <1>2, <1>3
<1>5. CASE RunFunctor
  <2>1. Head(batch) \in Functor /\ Run(Head(batch))
    BY <1>5 DEF RunFunctor, TypeOK
  <2>2. Head(batch).op = "sendInLoop" /\ SendInLoop(Head(batch).msg)
    BY <1>4, <2>1 DEF Run, ConnectEstablished, ConnectDestroyed, HandleClose
  <2>3. accepted' = Append(accepted, Head(batch).msg)
    BY <2>2 DEF SendInLoop
  <2>4. Head(batch).msg \in Messages
    BY <2>1, <2>2 DEF Functor
  <2>5. PICK x \in Messages : x = Head(batch).msg
    BY <2>4
  <2>6. b = Append(a, x)
    BY <1>2, <2>3, <2>5
  <2>7. x = m
    <3>1. b[Len(a) + 1] = x /\ b[Len(a) + 1] = m
      BY <1>3, <2>6
    <3>2. QED
      BY <3>1
  <2>8. Queued(1, m)
    BY <1>5, <2>2, <2>5, <2>7, Popped DEF Queued
  <2>9. QED
    BY <1>1, <2>8 DEF OnePlace
<1>6. ASSUME NEW x \in Messages, UserSend(x)
      PROVE  ~Given(m)
  <2>1. b = Append(a, x)
    BY <1>2, <1>6 DEF UserSend, SendInLoop
  <2>2. x = m
    <3>1. b[Len(a) + 1] = x /\ b[Len(a) + 1] = m
      BY <1>3, <2>1
    <3>2. QED
      BY <3>1
  <2>3. QED
    BY <1>6, <2>2 DEF UserSend, OnePlace
<1>7. CASE \/ Poll \/ HandleRead \/ HandleWrite \/ HandleWriteError
           \/ StartFunctors \/ FinishFunctors \/ UserShutdown
           \/ DestroyConnectionInLoop \/ ForceClose \/ PeerClose
           \/ UNCHANGED vars
  <2>1. UNCHANGED accepted
    BY <1>7 DEF Poll, HandleRead, HandleClose, HandleWrite, HandleWriteError,
                StartFunctors, FinishFunctors, UserShutdown,
                DestroyConnectionInLoop, ForceClose, PeerClose, vars,
                workerUnchanged
  <2>2. QED
    BY <1>4, <2>1
<1>8. ASSUME NEW w \in Workers, WorkerStep(w)
      PROVE  FALSE
  <2>1. UNCHANGED accepted
    BY <1>8 DEF WorkerStep, SendCheck, SendQueue, ShutdownCheck, ShutdownSet,
                ShutdownQueue, workerUnchanged
  <2>2. QED
    BY <1>4, <2>1
<1>9. QED
  BY <1>1, <1>5, <1>6, <1>7, <1>8 DEF Next, LoopStep

\* What is behind was given later.
LEMMA InOrderStep ==
  TypeOK /\ OnePlace /\ InOrder /\ [Next]_vars => InOrder'
<1> SUFFICES ASSUME TypeOK, OnePlace, InOrder, [Next]_vars
             PROVE  InOrder'
  OBVIOUS
<1>1. /\ Sent \in Seq(Unit) /\ accepted \in Seq(Messages)
      /\ \A i \in DOMAIN Sent : Sent[i][1] \in Messages
  <2>1. Sent \in Seq(Unit) /\ accepted \in Seq(Messages)
    BY DEF TypeOK, Sent
  <2>2. \A i \in DOMAIN Sent : Sent[i] \in Unit
    BY <2>1
  <2>3. QED
    BY <2>1, <2>2 DEF Unit
<1>2. ASSUME NEW m \in Messages, SendInLoop(m)
      PROVE  InOrder'
  <2>1. ~Given(m) /\ accepted' = Append(accepted, m)
    BY <1>2, NotGivenYet
  <2>2. PICK more \in Seq(Unit) :
          /\ Sent' = Sent \o more
          /\ \A i \in DOMAIN more : more[i][1] = m
    BY <1>2, SentBehind
  <2>3. \A x \in Messages : Given(x)' <=> Given(x) \/ x = m
    BY <2>1, GivenOne
  <2>4. PICK s, t : s = Sent /\ t = Sent'
    OBVIOUS
  <2>5. \A i \in DOMAIN t :
          \/ i \in DOMAIN s /\ t[i] = s[i]
          \/ i \notin DOMAIN s /\ t[i][1] = m
    <3>1. s \in Seq(Unit) /\ t = s \o more
      BY <1>1, <2>2, <2>4
    <3>2. TAKE i \in DOMAIN t
    <3>3. CASE i <= Len(s)
      BY <3>1, <3>2, <3>3
    <3>4. CASE i > Len(s)
      <4>1. i - Len(s) \in DOMAIN more /\ t[i] = more[i - Len(s)]
        BY <3>1, <3>2, <3>4
      <4>2. QED
        BY <2>2, <3>1, <3>4, <4>1
    <3>5. QED
      BY <3>1, <3>2, <3>3, <3>4
  <2>6. \A i \in DOMAIN t : i \in DOMAIN s => Given(t[i][1]) /\ t[i][1] # m
    BY <1>1, <2>1, <2>4, <2>5 DEF InOrder
  <2>7. \A i \in DOMAIN Sent' : \E k \in DOMAIN accepted' :
          accepted'[k] = Sent'[i][1]
    <3>1. ASSUME NEW i \in DOMAIN t
          PROVE  t[i][1] \in Messages /\ (Given(t[i][1]) \/ t[i][1] = m)
      BY <1>1, <2>4, <2>5, <2>6
    <3>2. ASSUME NEW i \in DOMAIN t
          PROVE  \E k \in DOMAIN accepted' : accepted'[k] = t[i][1]
      <4>1. PICK x \in Messages : x = t[i][1]
        BY <3>1
      <4>2. Given(x)'
        BY <2>3, <3>1, <4>1
      <4>3. QED
        BY <4>1, <4>2 DEF Given
    <3>3. QED
      BY <2>4, <3>2
  <2>8. \A a \in DOMAIN accepted' :
          \/ a \in DOMAIN accepted /\ accepted'[a] = accepted[a] /\ accepted[a] # m
          \/ a = Len(accepted) + 1 /\ accepted'[a] = m
    <3>1. TAKE a \in DOMAIN accepted'
    <3>2. CASE a <= Len(accepted)
      BY <1>1, <2>1, <3>1, <3>2 DEF Given
    <3>3. CASE a > Len(accepted)
      BY <1>1, <2>1, <3>1, <3>3
    <3>4. QED
      BY <1>1, <2>1, <3>1, <3>2, <3>3
  <2>9. ASSUME NEW i \in DOMAIN t, NEW j \in DOMAIN t,
               NEW a \in DOMAIN accepted', NEW b \in DOMAIN accepted',
               i < j, t[i][1] = accepted'[a], t[j][1] = accepted'[b]
        PROVE  a <= b
    <3>1. CASE j \in DOMAIN s
      <4>1. i \in DOMAIN s
        BY <1>1, <2>2, <2>4, <2>9, <3>1
      <4>2. /\ s[i][1] = accepted[a] /\ a \in DOMAIN accepted
            /\ s[j][1] = accepted[b] /\ b \in DOMAIN accepted
        BY <2>5, <2>6, <2>8, <2>9, <3>1, <4>1
      <4>3. QED
        BY <2>4, <2>9, <3>1, <4>1, <4>2 DEF InOrder
    <3>2. CASE j \notin DOMAIN s
      <4>1. accepted'[b] = m
        BY <2>5, <2>9, <3>2
      <4>2. b = Len(accepted) + 1
        BY <2>8, <2>9, <4>1
      <4>3. a \in 1 .. Len(accepted) + 1
        BY <1>1, <2>1, <2>9
      <4>4. QED
        BY <1>1, <4>2, <4>3
    <3>3. QED
      BY <3>1, <3>2
  <2>10. QED
    <3>1. \A i, j \in DOMAIN Sent' : \A a, b \in DOMAIN accepted' :
            i < j /\ Sent'[i][1] = accepted'[a] /\ Sent'[j][1] = accepted'[b]
              => a <= b
      BY <2>4, <2>9
    <3>2. QED
      BY <2>7, <3>1 DEF InOrder, Given
<1>3. ASSUME Sent' = Sent, accepted' = accepted
      PROVE  InOrder'
  BY <1>3 DEF InOrder, Given
<1>4. CASE HandleWrite
  <2>1. Sent' = Sent
    BY <1>4, HandleWriteEffect DEF Sent
  <2>2. accepted' = accepted
    BY <1>4 DEF HandleWrite
  <2>3. QED
    BY <1>3, <2>1, <2>2
<1>5. CASE UNCHANGED <<writing, output, wire, accepted>>
  BY <1>3, <1>5 DEF Sent
<1>6. QED
  BY <1>2, <1>4, <1>5, TransferStep

\* SentInOrder, for any number of workers racing with each other and with the
\* user's callbacks: direct writes never overtake what is buffered.
THEOREM SendsStayInOrder == Spec => []SentInOrder
<1>1. Init => InOrder
  <2>1. ASSUME Init
        PROVE  InOrder
    <3>1. Sent = <<>>
      BY <2>1 DEF Init, Sent
    <3>2. DOMAIN Sent = {}
      BY <3>1
    <3>3. QED
      BY <3>2 DEF InOrder
  <2>2. QED
    BY <2>1
<1>2. Spec => []InOrder
  BY <1>1, InOrderStep, TypeCorrect, OnePlaceCorrect, PTL DEF Spec
<1>3. InOrder => SentInOrder
  <2>1. SUFFICES ASSUME InOrder, NEW i \in DOMAIN Sent, NEW j \in DOMAIN Sent,
                        i < j
                 PROVE  Index(Sent[i][1]) <= Index(Sent[j][1])
    BY DEF SentInOrder, Sent
  <2>2. \A k \in DOMAIN Sent :
          /\ Index(Sent[k][1]) \in DOMAIN accepted
          /\ accepted[Index(Sent[k][1])] = Sent[k][1]
    <3>1. TAKE k \in DOMAIN Sent
    <3>2. PICK x : x = Sent[k][1]
      OBVIOUS
    <3>3. \E n \in DOMAIN accepted : accepted[n] = x
      <4>1. Given(Sent[k][1])
        BY <2>1, <3>1 DEF InOrder
      <4>2. QED
        BY <3>2, <4>1 DEF Given
    <3>4. Index(x) \in DOMAIN accepted /\ accepted[Index(x)] = x
      BY <3>3, Zenon DEF Index
    <3>5. QED
      BY <3>2, <3>4
  <2>3. QED
    BY <2>1, <2>2 DEF InOrder
<1>4. QED
  BY <1>2, <1>3, PTL

-----------------------------------------------------------------------------
(* The end of a connection.                                                *)

\* Until connectEstablished runs it is the only functor, and nobody else can
\* do anything; it is not queued again.  Whoever queues connectDestroyed has
\* erased the connection before.
EstablishedFirst ==
  /\ ups = 0 => /\ DOMAIN Queue = {1} /\ Queue[1].op = "connectEstablished"
                /\ destroys = 0 /\ downs = 0
                /\ ~registered
                /\ revents = {}
                /\ \A w \in Workers : wpc[w] = "idle"
  /\ ups > 0 => \A i \in DOMAIN Queue : Queue[i].op # "connectEstablished"

\* connectionCallback_ is called for the connection before anything else can
\* happen to it, and connectEstablished is not run a second time.
LEMMA EstablishedFirstStep ==
  TypeOK /\ EstablishedFirst /\ [Next]_vars => EstablishedFirst'
<1> SUFFICES ASSUME TypeOK, EstablishedFirst, [Next]_vars
             PROVE  EstablishedFirst'
  OBVIOUS
<1>1. ups \in Nat
  BY DEF TypeOK
<1>2. ASSUME ups > 0, ups' = ups,
             \A i \in DOMAIN Queue' : Queue'[i].op # "connectEstablished"
      PROVE  EstablishedFirst'
  BY <1>1, <1>2 DEF EstablishedFirst
<1>3. ASSUME ups > 0, UNCHANGED <<ups, pending, batch>>
      PROVE  EstablishedFirst'
  <2>1. Queue' = Queue
    BY <1>3 DEF Queue
  <2>2. QED
    BY <1>2, <1>3, <2>1 DEF EstablishedFirst
<1>4. ASSUME ups > 0, ups' = ups, batch' = batch,
             NEW f \in Functor, f.op # "connectEstablished",
             pending' = Append(pending, f)
      PROVE  EstablishedFirst'
  <2>1. \A i \in DOMAIN Queue' : Queue'[i].op # "connectEstablished"
    BY <1>4, PushedOne DEF EstablishedFirst
  <2>2. QED
    BY <1>2, <1>4, <2>1
<1>5. ASSUME UNCHANGED <<ups, destroys, downs, registered, wpc>>,
             Queue' = Queue, revents' = {} \/ ups > 0
      PROVE  EstablishedFirst'
  BY <1>5 DEF EstablishedFirst
<1>6. CASE Poll
  <2>1. ups = 0 => revents' = {}
    BY <1>6 DEF Poll, EstablishedFirst
  <2>2. QED
    BY <1>1, <1>5, <1>6, <2>1
       DEF Poll, channelVars, callbackVars, serverVars, workerVars, Queue
<1>7. CASE HandleRead \/ HandleWrite \/ HandleWriteError
  <2>1. ups > 0
    <3>1. revents # {}
      BY <1>7 DEF HandleRead, HandleWrite, HandleWriteError
    <3>2. QED
      BY <1>1, <3>1 DEF EstablishedFirst
  <2>2. QED
    BY <1>3, <1>7, <2>1
       DEF HandleRead, HandleClose, HandleWrite, HandleWriteError, callbackVars
<1>8. CASE StartFunctors
  <2>1. Queue' = Queue
    BY <1>8, SwappedOut
  <2>2. QED
    BY <1>5, <1>8, <2>1
       DEF StartFunctors, EventsHandled, channelVars, callbackVars, serverVars,
           workerVars
<1>9. CASE RunFunctor
  <2>1. /\ 1 \in DOMAIN Queue /\ Queue[1] = Head(batch)
        /\ DOMAIN Queue' \subseteq Nat \ {0}
        /\ \A i \in DOMAIN Queue' :
             \/ i + 1 \in DOMAIN Queue /\ Queue'[i] = Queue[i + 1]
             \/ Queue'[i].op \in {"writeComplete", "highWaterMark"}
    BY <1>9, Popped
  <2>2. Run(Head(batch))
    BY <1>9 DEF RunFunctor
  <2>3. CASE ups = 0
    <3>1. Head(batch).op = "connectEstablished"
      BY <2>1, <2>3 DEF EstablishedFirst
    <3>2. ConnectEstablished
      BY <2>2, <3>1 DEF Run
    <3>3. ASSUME NEW i \in DOMAIN Queue'
          PROVE  Queue'[i].op # "connectEstablished"
      <4>1. i \in Nat \ {0} /\ i + 1 \notin DOMAIN Queue
        BY <2>1, <2>3 DEF EstablishedFirst
      <4>2. QED
        BY <2>1, <4>1
    <3>4. ups' > 0
      BY <1>1, <2>3, <3>2 DEF ConnectEstablished
    <3>5. QED
      BY <3>3, <3>4 DEF EstablishedFirst
  <2>4. CASE ups > 0
    <3>1. Head(batch).op # "connectEstablished"
      BY <2>1, <2>4 DEF EstablishedFirst
    <3>2. ups' = ups
      BY <2>2, <3>1 DEF Run, SendInLoop, ConnectDestroyed, HandleClose,
                        callbackVars
    <3>3. \A i \in DOMAIN Queue' : Queue'[i].op # "connectEstablished"
      BY <2>1, <2>4 DEF EstablishedFirst
    <3>4. QED
      BY <1>2, <2>4, <3>2, <3>3
  <2>5. QED
    BY <1>1, <2>3, <2>4
<1>10. CASE FinishFunctors
  BY <1>5, <1>10
     DEF FinishFunctors, channelVars, callbackVars, serverVars, workerVars,
         Queue, EstablishedFirst
<1>11. ASSUME NEW m \in Messages, UserSend(m)
       PROVE  EstablishedFirst'
  <2>1. PICK calls \in Seq(Functor) :
          /\ pending' = pending \o calls
          /\ \A i \in DOMAIN calls :
               calls[i].op \in {"writeComplete", "highWaterMark"}
          /\ ups' = ups
    BY <1>11, SendInLoopEffect DEF UserSend, callbackVars
  <2>2. ups > 0 /\ batch' = batch
    BY <1>11 DEF UserSend, loopVars
  <2>3. \A i \in DOMAIN Queue' : Queue'[i].op # "connectEstablished"
    BY <2>1, <2>2, Pushed DEF EstablishedFirst
  <2>4. QED
    BY <1>2, <2>1, <2>2, <2>3
<1>12. CASE UserShutdown
  BY <1>3, <1>12 DEF UserShutdown, callbackVars, loopVars
<1>13. CASE DestroyConnectionInLoop
  <2>1. [op |-> "connectDestroyed"] \in Functor
    BY DEF Functor
  <2>2. ups > 0
    BY <1>1, <1>13 DEF DestroyConnectionInLoop, EstablishedFirst
  <2>3. QED
    BY <1>4, <1>13, <2>1, <2>2
       DEF DestroyConnectionInLoop, callbackVars, loopVars
<1>14. CASE ForceClose
  <2>1. [op |-> "handleClose"] \in Functor
    BY DEF Functor
  <2>2. QED
    BY <1>4, <1>14, <2>1 DEF ForceClose, workerUnchanged, callbackVars, loopVars
<1>15. CASE PeerClose
  <2>1. ups > 0
    BY <1>1, <1>15 DEF PeerClose, EstablishedFirst
  <2>2. QED
    BY <1>3, <1>15, <2>1 DEF PeerClose, callbackVars, loopVars
<1>16. ASSUME NEW w \in Workers, WorkerStep(w)
       PROVE  EstablishedFirst'
  <2>1. ups > 0
    BY <1>1, <1>16
       DEF WorkerStep, SendCheck, SendQueue, ShutdownCheck, ShutdownSet,
           ShutdownQueue, EstablishedFirst
  <2>2. ups' = ups /\ batch' = batch
    BY <1>16
       DEF WorkerStep, SendCheck, SendQueue, ShutdownCheck, ShutdownSet,
           ShutdownQueue, workerUnchanged, callbackVars, loopVars
  <2>3. CASE SendQueue(w)
    <3>1. [op |-> "sendInLoop", msg |-> wmsg[w]] \in Functor
      BY DEF Functor, TypeOK
    <3>2. QED
      BY <1>4, <2>1, <2>2, <2>3, <3>1 DEF SendQueue
  <2>4. CASE ShutdownQueue(w)
    <3>1. [op |-> "shutdownInLoop"] \in Functor
      BY DEF Functor
    <3>2. QED
      BY <1>4, <2>1, <2>2, <2>4, <3>1 DEF ShutdownQueue
  <2>5. CASE UNCHANGED pending
    BY <1>3, <2>1, <2>2, <2>5
  <2>6. QED
    BY <1>16, <2>3, <2>4, <2>5
       DEF WorkerStep, SendCheck, ShutdownCheck, ShutdownSet
<1>17. CASE UNCHANGED vars
  BY <1>5, <1>17
     DEF vars, Queue, loopVars, channelVars, callbackVars, serverVars,
         workerVars, EstablishedFirst
<1>18. QED
  BY <1>6, <1>7, <1>8, <1>9, <1>10, <1>11, <1>12, <1>13, <1>14, <1>15, <1>16,
     <1>17 DEF Next, LoopStep

\* destroyConnectionInLoop erases the connection before it queues
\* connectDestroyed, which is what takes the channel out of the Poller; and
\* once connectEstablished has run nothing puts it back.
ErasedFirst ==
  /\ \A i \in DOMAIN Queue : Queue[i].op = "connectDestroyed" => ~mapped
  /\ Released

\* Every step keeps the connection erased before connectDestroyed is queued.
LEMMA ErasedFirstStep ==
  TypeOK /\ EstablishedFirst /\ ErasedFirst /\ [Next]_vars => ErasedFirst'
<1> SUFFICES ASSUME TypeOK, EstablishedFirst, ErasedFirst, [Next]_vars
             PROVE  ErasedFirst'
  OBVIOUS
<1>1. ASSUME UNCHANGED <<downs, registered, mapped>>,
             \A i \in DOMAIN Queue' : Queue'[i].op = "connectDestroyed" =>
               \E j \in DOMAIN Queue : Queue[j].op = "connectDestroyed"
      PROVE  ErasedFirst'
  BY <1>1 DEF ErasedFirst, Released
<1>2. ASSUME UNCHANGED <<downs, registered, mapped, pending, batch>>
      PROVE  ErasedFirst'
  <2>1. Queue' = Queue
    BY <1>2 DEF Queue
  <2>2. QED
    BY <1>1, <1>2, <2>1
<1>3. ASSUME UNCHANGED <<downs, registered, mapped, batch>>,
             NEW f \in Functor, f.op # "connectDestroyed",
             pending' = Append(pending, f)
      PROVE  ErasedFirst'
  BY <1>1, <1>3, PushedOne
<1>4. CASE \/ Poll \/ HandleRead \/ HandleWrite \/ HandleWriteError
           \/ FinishFunctors \/ UserShutdown \/ PeerClose \/ UNCHANGED vars
  BY <1>2, <1>4
     DEF Poll, HandleRead, HandleClose, HandleWrite, HandleWriteError,
         FinishFunctors, UserShutdown, PeerClose, vars, loopVars, channelVars,
         callbackVars, serverVars
<1>5. CASE StartFunctors
  <2>1. Queue' = Queue
    BY <1>5, SwappedOut
  <2>2. UNCHANGED <<downs, registered, mapped>>
    BY <1>5 DEF StartFunctors, channelVars, callbackVars, serverVars
  <2>3. QED
    BY <1>1, <2>1, <2>2
<1>6. CASE RunFunctor
  <2>1. Run(Head(batch))
    BY <1>6 DEF RunFunctor
  <2>2. /\ 1 \in DOMAIN Queue /\ Queue[1] = Head(batch)
        /\ \A i \in DOMAIN Queue' :
             \/ i + 1 \in DOMAIN Queue /\ Queue'[i] = Queue[i + 1]
             \/ Queue'[i].op \in {"writeComplete", "highWaterMark"}
    BY <1>6, Popped
  <2>3. \A i \in DOMAIN Queue' : Queue'[i].op = "connectDestroyed" =>
          \E j \in DOMAIN Queue : Queue[j].op = "connectDestroyed"
    BY <2>2
  <2>4. CASE Head(batch).op = "connectEstablished"
    <3>1. ConnectEstablished
      BY <2>1, <2>4 DEF Run
    <3>2. downs = 0
      BY <2>2, <2>4 DEF EstablishedFirst, TypeOK
    <3>3. UNCHANGED <<downs, mapped>>
      BY <3>1 DEF ConnectEstablished, serverVars
    <3>4. QED
      BY <2>3, <3>2, <3>3 DEF ErasedFirst, Released
  <2>5. CASE Head(batch).op = "connectDestroyed"
    <3>1. ConnectDestroyed
      BY <2>1, <2>5 DEF Run
    <3>2. ~mapped
      BY <2>2, <2>5 DEF ErasedFirst
    <3>3. mapped' = mapped /\ registered' = FALSE
      BY <3>1 DEF ConnectDestroyed, serverVars
    <3>4. QED
      BY <3>2, <3>3 DEF ErasedFirst, Released
  <2>6. CASE Head(batch).op \notin {"connectEstablished", "connectDestroyed"}
    <3>1. UNCHANGED <<downs, registered, mapped>>
      BY <2>1, <2>6 DEF Run, SendInLoop, HandleClose, channelVars, callbackVars,
                        serverVars
    <3>2. QED
      BY <1>1, <2>3, <3>1
  <2>7. QED
    BY <2>4, <2>5, <2>6
<1>7. ASSUME NEW m \in Messages, UserSend(m)
      PROVE  ErasedFirst'
  <2>1. PICK calls \in Seq(Functor) :
          /\ pending' = pending \o calls
          /\ \A i \in DOMAIN calls :
               calls[i].op \in {"writeComplete", "highWaterMark"}
          /\ UNCHANGED <<registered, mapped, downs>>
    BY <1>7, SendInLoopEffect DEF UserSend, callbackVars, serverVars
  <2>2. batch' = batch
    BY <1>7 DEF UserSend, loopVars
  <2>3. \A i \in DOMAIN Queue' : Queue'[i].op = "connectDestroyed" =>
          \E j \in DOMAIN Queue : Queue[j].op = "connectDestroyed"
    BY <2>1, <2>2, Pushed
  <2>4. QED
    BY <1>1, <2>1, <2>3
<1>8. CASE DestroyConnectionInLoop
  <2>1. ~mapped' /\ UNCHANGED <<downs, registered>>
    BY <1>8 DEF DestroyConnectionInLoop, channelVars, callbackVars
  <2>2. QED
    BY <2>1 DEF ErasedFirst, Released
<1>9. CASE ForceClose
  <2>1. [op |-> "handleClose"] \in Functor
    BY DEF Functor
  <2>2. QED
    BY <1>3, <1>9, <2>1
       DEF ForceClose, workerUnchanged, channelVars, callbackVars, serverVars,
           loopVars
<1>10. ASSUME NEW w \in Workers, WorkerStep(w)
       PROVE  ErasedFirst'
  <2>1. UNCHANGED <<downs, registered, mapped, batch>>
    BY <1>10
       DEF WorkerStep, SendCheck, SendQueue, ShutdownCheck, ShutdownSet,
           ShutdownQueue, workerUnchanged, channelVars, callbackVars,
           serverVars, loopVars
  <2>2. CASE SendQueue(w)
    <3>1. [op |-> "sendInLoop", msg |-> wmsg[w]] \in Functor
      BY DEF Functor, TypeOK
    <3>2. QED
      BY <1>3, <2>1, <2>2, <3>1 DEF SendQueue
  <2>3. CASE ShutdownQueue(w)
    <3>1. [op |-> "shutdownInLoop"] \in Functor
      BY DEF Functor
    <3>2. QED
      BY <1>3, <2>1, <2>3, <3>1 DEF ShutdownQueue
  <2>4. CASE UNCHANGED pending
    BY <1>2, <2>1, <2>4
  <2>5. QED
    BY <1>10, <2>2, <2>3, <2>4
       DEF WorkerStep, SendCheck, ShutdownCheck, ShutdownSet
<1>11. QED
  BY <1>4, <1>5, <1>6, <1>7, <1>8, <1>9, <1>10 DEF Next, LoopStep

\* Released, however often handleClose has run before and connectDestroyed
\* runs after: a connection reported down is in neither the Poller nor the map.
THEOREM DownMeansReleased == Spec => []Released
<1>1. ASSUME Init
      PROVE  EstablishedFirst /\ ErasedFirst
  <2>1. Queue = <<[op |-> "connectEstablished"]>>
    BY <1>1 DEF Init, Queue
  <2>2. DOMAIN Queue = {1} /\ Queue[1].op = "connectEstablished"
    BY <2>1
  <2>3. /\ ups = 0 /\ destroys = 0 /\ downs = 0 /\ ~registered /\ revents = {}
        /\ \A w \in Workers : wpc[w] = "idle"
    BY <1>1 DEF Init
  <2>4. QED
    BY <2>2, <2>3 DEF EstablishedFirst, ErasedFirst, Released
<1>2. ErasedFirst => Released
  BY DEF ErasedFirst
<1>3. QED
  BY <1>1, <1>2, EstablishedFirstStep, ErasedFirstStep, TypeCorrect, PTL
     DEF Spec

=============================================================================
