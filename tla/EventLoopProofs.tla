-------------------------- MODULE EventLoopProofs ---------------------------
(***************************************************************************)
(* For any number of threads, functors and fds: the flags of an EventLoop  *)
(* mean what TypeOK says, no wake-up is lost, and the loop implements the  *)
(* Executor.  A ThreadEventLoop does to its EventLoop nothing but what     *)
(* that module allows, and never touches one that is gone.                 *)
(*                                                                         *)
(* For any number of timers, any delays and any clock: the loop's timerfd  *)
(* covers every timer, no callback is called early, and none more often    *)
(* than its interval allows.                                               *)
(***************************************************************************)
EXTENDS ThreadEventLoop, TimerQueue, SequenceTheorems, TLAPS

-----------------------------------------------------------------------------
\* Every step of the loop thread and of the callers of queueInLoop, runInLoop
\* and quit keeps the types and the meaning of the flags.
LEMMA TypeStep == TypeOK /\ [Next]_vars => TypeOK'
<1> SUFFICES ASSUME TypeOK, [Next]_vars
             PROVE  TypeOK'
  OBVIOUS
<1> USE DEF TypeOK, PCs
<1>1. ASSUME NEW t \in Threads, NEW f \in Functors, Push(t, f)
      PROVE  TypeOK'
  BY <1>1 DEF Push, CanCall, loopVars
<1>2. ASSUME NEW t \in Threads, Weakup(t)
      PROVE  TypeOK'
  BY <1>2 DEF Weakup, loopVars
<1>3. ASSUME NEW t \in Threads, Quit(t)
      PROVE  TypeOK'
  BY <1>3 DEF Quit
<1>4. ASSUME NEW f \in Functors, RunInline(f)
      PROVE  TypeOK'
  BY <1>4 DEF RunInline, loopVars
<1>5. CASE EnterLoop
  BY <1>5 DEF EnterLoop
<1>6. CASE Continue
  BY <1>6 DEF Continue
<1>7. CASE LeaveLoop
  BY <1>7 DEF LeaveLoop
<1>8. CASE PollReady
  BY <1>8 DEF PollReady, ReadyChannels
<1>9. CASE HandleWeakup
  BY <1>9 DEF HandleWeakup
<1>10. ASSUME NEW ch \in Channels, HandleChannel(ch)
       PROVE  TypeOK'
  BY <1>10 DEF HandleChannel
<1>11. CASE StartPending
  BY <1>11 DEF StartPending, Swap
<1>12. CASE RunFunctor
  <2>1. Head(batch) \in Functors /\ Tail(batch) \in Seq(Functors)
    BY <1>12 DEF RunFunctor
  <2>2. QED
    BY <1>12, <2>1 DEF RunFunctor
<1>13. CASE FinishPending
  BY <1>13 DEF FinishPending
<1>14. CASE Return
  BY <1>14 DEF Return
<1>15. CASE PollTimeout
  BY <1>15 DEF PollTimeout
<1>16. ASSUME NEW ch \in Channels, FdReadable(ch)
       PROVE  TypeOK'
  BY <1>16 DEF FdReadable, loopVars
<1>17. CASE UNCHANGED vars
  BY <1>17 DEF vars
<1>18. QED
  BY <1>1, <1>2, <1>3, <1>4, <1>5, <1>6, <1>7, <1>8, <1>9, <1>10, <1>11,
     <1>12, <1>13, <1>14, <1>15, <1>16, <1>17 DEF Next, LoopStep

\* The constructor sets the flags as TypeOK describes them.
LEMMA InitType == Init => TypeOK
<1> SUFFICES ASSUME Init
             PROVE  TypeOK
  OBVIOUS
<1>1. /\ looping \in BOOLEAN /\ quit \in BOOLEAN
      /\ callPending \in BOOLEAN /\ inCall \in BOOLEAN
      /\ pc \in PCs /\ pushed \subseteq Threads
  BY DEF Init, PCs
<1>2. /\ looping <=> pc \notin {"created", "stopped"}
      /\ callPending <=> pc = "run"
      /\ inCall => pc \in {"handle", "run"}
      /\ batch # <<>> => pc = "run"
      /\ LoopThread \in pushed => inCall \/ pc = "created"
  BY "created" # "run", Zenon DEF Init
<1>3. /\ pending \in Seq(Functors) /\ batch \in Seq(Functors)
      /\ ran \in Seq(Functors) /\ weakupFd \in Nat
      /\ ready \subseteq Channels
      /\ active \subseteq Channels \cup {WeakupChannel}
      /\ fresh \subseteq Functors /\ early \subseteq Functors
  BY SMT DEF Init
<1>4. QED
  BY <1>1, <1>2, <1>3 DEF TypeOK

\* The flags of EventLoop always describe where the loop thread is.
THEOREM TypeCorrect == Spec => []TypeOK
BY InitType, TypeStep, PTL DEF Spec

-----------------------------------------------------------------------------
\* Together with TypeOK, NoLostWakeup is inductive: the two tests of
\* queueInLoop are exactly what makes up for the loop not looking at
\* pendingFunctors_ again before it blocks.
LEMMA WakeupStep == TypeOK /\ NoLostWakeup /\ [Next]_vars => NoLostWakeup'
<1> SUFFICES ASSUME TypeOK, NoLostWakeup, [Next]_vars
             PROVE  NoLostWakeup'
  OBVIOUS
<1> USE DEF NoLostWakeup, Signalled, NeedWeakup
<1>1. ASSUME NEW t \in Threads, NEW f \in Functors, Push(t, f)
      PROVE  NoLostWakeup'
  <2>1. pushed' = pushed \cup {t} /\ pending' = Append(pending, f)
        /\ UNCHANGED <<pc, callPending, weakupFd>>
    BY <1>1 DEF Push, loopVars
  <2>2. CASE NeedWeakup(t)
    BY <2>1, <2>2
  <2>3. CASE ~NeedWeakup(t)
    <3>1. t = LoopThread /\ pc \in {"created", "handle"}
      BY <1>1, <2>3 DEF Push, CanCall, TypeOK
    <3>2. CASE pc = "handle"
      BY <2>1, <3>2
    <3>3. CASE pc = "created"
      <4>1. early' = early \cup {f}
        BY <1>1, <3>1, <3>3 DEF Push
      <4>2. Signalled' \subseteq Signalled
        BY <2>1, <4>1, AppendProperties DEF TypeOK
      <4>3. QED
        BY <2>1, <4>2
    <3>4. QED
      BY <3>1, <3>2, <3>3
  <2>4. QED
    BY <2>2, <2>3
<1>2. ASSUME NEW t \in Threads, Weakup(t)
      PROVE  NoLostWakeup'
  BY <1>2 DEF Weakup, TypeOK, loopVars
<1>3. ASSUME NEW t \in Threads, Quit(t)
      PROVE  NoLostWakeup'
  BY <1>3 DEF Quit
<1>4. ASSUME NEW f \in Functors, RunInline(f)
      PROVE  NoLostWakeup'
  BY <1>4 DEF RunInline, loopVars
<1>5. CASE EnterLoop
  BY <1>5 DEF EnterLoop
<1>6. CASE Continue
  BY <1>6 DEF Continue
<1>7. CASE LeaveLoop
  BY <1>7 DEF LeaveLoop
<1>8. CASE PollReady
  BY <1>8 DEF PollReady
<1>9. CASE HandleWeakup
  BY <1>9 DEF HandleWeakup
<1>10. ASSUME NEW ch \in Channels, HandleChannel(ch)
       PROVE  NoLostWakeup'
  BY <1>10 DEF HandleChannel
<1>11. CASE StartPending
  BY <1>11 DEF StartPending, Swap
<1>12. CASE RunFunctor
  BY <1>12 DEF RunFunctor
<1>13. CASE FinishPending
  \* callPendingFunctor_ is cleared: the loop thread must not be relying on it.
  <2>1. LoopThread \notin pushed
    BY <1>13 DEF FinishPending, TypeOK
  <2>2. QED
    BY <1>13, <2>1 DEF FinishPending, TypeOK
<1>14. CASE Return
  BY <1>14 DEF Return
<1>15. CASE PollTimeout
  BY <1>15 DEF PollTimeout
<1>16. ASSUME NEW ch \in Channels, FdReadable(ch)
       PROVE  NoLostWakeup'
  BY <1>16 DEF FdReadable, loopVars
<1>17. CASE UNCHANGED vars
  BY <1>17 DEF vars
<1>18. QED
  BY <1>1, <1>2, <1>3, <1>4, <1>5, <1>6, <1>7, <1>8, <1>9, <1>10, <1>11,
     <1>12, <1>13, <1>14, <1>15, <1>16, <1>17 DEF Next, LoopStep

\* No interleaving of queueInLoop with the loop thread leaves a functor
\* queued while the loop is about to block and nobody is to wake it.
THEOREM WakeupNeverLost == Spec => []NoLostWakeup
<1>1. Init => NoLostWakeup
  BY DEF Init, NoLostWakeup, Signalled
<1>2. QED
  BY <1>1, TypeCorrect, WakeupStep, PTL DEF Spec

-----------------------------------------------------------------------------
\* Appending to pendingFunctors_ appends to the Executor's queue.
LEMMA QueueAppend ==
  ASSUME NEW S, NEW s \in Seq(S), NEW t \in Seq(S), NEW e \in S
  PROVE  s \o Append(t, e) = Append(s \o t, e)
<1>1. /\ Append(t, e) \in Seq(S) /\ s \o t \in Seq(S)
      /\ s \o Append(t, e) \in Seq(S) /\ Append(s \o t, e) \in Seq(S)
  BY AppendProperties, ConcatProperties
<1>2. Len(s \o Append(t, e)) = Len(Append(s \o t, e))
  BY <1>1, SMT
<1>3. \A i \in 1 .. Len(s \o Append(t, e)) :
        (s \o Append(t, e))[i] = Append(s \o t, e)[i]
  BY <1>1, SMT
<1>4. QED
  BY <1>1, <1>2, <1>3, SeqEqual, SMT

\* Taking the head of the swapped-out vector takes the head of the queue.
LEMMA QueueTail ==
  ASSUME NEW S, NEW s \in Seq(S), NEW t \in Seq(S), s # <<>>
  PROVE  /\ s \o t # <<>>
         /\ Head(s \o t) = Head(s)
         /\ Tail(s \o t) = Tail(s) \o t
<1>1. Len(s) \in Nat /\ Len(s) > 0
  BY EmptySeq, LenProperties
<1>2. s \o t \in Seq(S) /\ Len(s \o t) = Len(s) + Len(t)
  BY ConcatProperties
<1>3. Tail(s) \in Seq(S) /\ Len(Tail(s)) = Len(s) - 1
  BY HeadTailProperties
<1>4. QED
  BY <1>1, <1>2, <1>3

-----------------------------------------------------------------------------
\* Every step of the loop and of its callers is a step of the Executor whose
\* queue is the swapped-out vector followed by pendingFunctors_, or changes
\* nothing it can see.
LEMMA ExecutorStep == TypeOK /\ [Next]_vars => [Abstract!Next]_(Abstract!vars)
<1> SUFFICES ASSUME TypeOK, [Next]_vars
             PROVE  Abstract!Next \/ UNCHANGED <<fresh, batch \o pending, ran>>
  BY DEF Abstract!vars
<1> DEFINE Unseen == UNCHANGED <<fresh, batch, pending, ran>>
<1>0. batch \in Seq(Functors) /\ pending \in Seq(Functors)
  BY DEF TypeOK
<1>1. ASSUME NEW t \in Threads, NEW f \in Functors, Push(t, f)
      PROVE  Abstract!Accept(f)
  <2>1. batch \o Append(pending, f) = Append(batch \o pending, f)
    BY <1>0, QueueAppend
  <2>2. QED
    BY <1>1, <2>1 DEF Push, loopVars, Abstract!Accept
<1>2. ASSUME NEW t \in Threads, Weakup(t)
      PROVE  Unseen
  BY <1>2 DEF Weakup, loopVars
<1>3. ASSUME NEW t \in Threads, Quit(t)
      PROVE  Unseen
  BY <1>3 DEF Quit
<1>4. ASSUME NEW f \in Functors, RunInline(f)
      PROVE  Abstract!RunInline(f)
  BY <1>4 DEF RunInline, loopVars, Abstract!RunInline
<1>5. CASE EnterLoop
  BY <1>5 DEF EnterLoop
<1>6. CASE Continue
  BY <1>6 DEF Continue
<1>7. CASE LeaveLoop
  BY <1>7 DEF LeaveLoop
<1>8. CASE PollReady
  BY <1>8 DEF PollReady
<1>9. CASE HandleWeakup
  BY <1>9 DEF HandleWeakup
<1>10. ASSUME NEW ch \in Channels, HandleChannel(ch)
       PROVE  Unseen
  BY <1>10 DEF HandleChannel
<1>11. ASSUME StartPending, batch = <<>>
       PROVE  UNCHANGED <<fresh, batch \o pending, ran>>
  <2>1. batch' \o pending' = pending \o <<>>
    BY <1>11 DEF StartPending, Swap
  <2>2. pending \o <<>> = <<>> \o pending
    BY <1>0, ConcatEmptySeq
  <2>3. QED
    BY <1>11, <2>1, <2>2 DEF StartPending
<1>12. CASE RunFunctor
  <2>1. /\ batch \o pending # <<>>
        /\ Head(batch \o pending) = Head(batch)
        /\ Tail(batch \o pending) = Tail(batch) \o pending
    BY <1>0, <1>12, QueueTail DEF RunFunctor
  <2>2. Abstract!RunNext
    BY <1>12, <2>1 DEF RunFunctor, Abstract!RunNext
  <2>3. QED
    BY <2>2 DEF Abstract!Next
<1>13. CASE FinishPending
  BY <1>13 DEF FinishPending
<1>14. CASE Return
  BY <1>14 DEF Return
<1>15. CASE PollTimeout
  BY <1>15 DEF PollTimeout
<1>16. ASSUME NEW ch \in Channels, FdReadable(ch)
       PROVE  Unseen
  BY <1>16 DEF FdReadable, loopVars
<1>17. CASE UNCHANGED vars
  BY <1>17 DEF vars
<1>18. StartPending => batch = <<>>
  BY DEF StartPending, TypeOK
<1>19. QED
  BY <1>1, <1>2, <1>3, <1>4, <1>5, <1>6, <1>7, <1>8, <1>9, <1>10, <1>11,
     <1>12, <1>13, <1>14, <1>15, <1>16, <1>17, <1>18
     DEF Next, LoopStep, Abstract!Next

\* EventLoop implements Executor: at most once, and in queueing order.
THEOREM Refinement == Spec => ImplementsExecutor
<1>1. Init => Abstract!Init
  <2>1. <<>> \o <<>> = <<>>
    OBVIOUS
  <2>2. QED
    BY <2>1 DEF Init, Abstract!Init
<1>2. QED
  BY <1>1, TypeCorrect, ExecutorStep, PTL
     DEF Spec, ImplementsExecutor, Abstract!Spec

-----------------------------------------------------------------------------
(* ThreadEventLoop.                                                        *)

\* What the owner knows of the thread.  Until its destructor has set quit_, the
\* flag is up inside loop() only if a user has called quit() there; so without
\* such a call the thread cannot have left loop().  And the destructor calls
\* quit() with no functor of its own half queued.
BeforeQuit ==
  ownerPc \in {"constructed", "testing", "waiting", "started", "quitting"}
OwnerKnows ==
  /\ ownerPc = "constructed" <=> threadPc = "unstarted"
  /\ ownerPc \notin {"constructed", "testing", "waiting"} =>
       threadPc \in {"looping", "clearing", "finished"}
  /\ BeforeQuit /\ ~userQuit =>
       /\ threadPc \notin {"clearing", "finished"} /\ pc # "stopped"
       /\ quit => pc = "created"
  /\ ownerPc = "quitting" => Owner \notin pushed

ThreadInv == ThreadTypeOK /\ OwnerKnows /\ OwnedLoopAlive

\* Each step of the owner, the thread and those who were given the loop is a
\* step of EventLoop, or leaves it alone.
LEMMA LoopStepsOnly == ThreadInv /\ [ThreadNext]_allVars => [Next]_vars
<1> SUFFICES ASSUME ThreadInv, [ThreadNext]_allVars
             PROVE  [Next]_vars
  OBVIOUS
<1>1. CASE \/ StartLoop \/ StartLoopWaits \/ StartLoopReturns \/ Destroy \/ Join
           \/ Publish \/ ClearLoop \/ ThreadReturns \/ UNCHANGED allVars
  BY <1>1 DEF StartLoop, StartLoopWaits, StartLoopReturns, Destroy, Join, Publish,
              ClearLoop, ThreadReturns, allVars
<1>2. CASE DestroyQuit
  <2>1. Owner \in Threads /\ Owner # LoopThread
    BY OwnerAssumption, ThreadsAssumption DEF Threads
  <2>2. CanCall(Owner)
    BY <1>2, <2>1 DEF DestroyQuit, ThreadInv, OwnerKnows, CanCall
  <2>3. CASE ~quit
    <3>1. Quit(Owner)
      BY <1>2, <2>2, <2>3 DEF DestroyQuit, Quit
    <3>2. QED
      BY <2>1, <3>1 DEF Next
  <2>4. CASE quit
    BY <1>2, <2>4 DEF DestroyQuit, ThreadInv, ThreadTypeOK, TypeOK, vars
  <2>5. QED
    BY <2>3, <2>4
<1>3. CASE Loop
  <2>1. LoopThread \in Threads
    BY DEF Threads
  <2>2. QED
    BY <1>3, <2>1 DEF Loop, UserQuits, Next
<1>4. ASSUME NEW t \in Workers, Use(t)
      PROVE  [Next]_vars
  <2>1. t \in Threads
    BY DEF Threads
  <2>2. QED
    BY <1>4, <2>1 DEF Use, UserQuits, Next
<1>5. CASE Input
  BY <1>5 DEF Input, Next
<1>6. QED
  BY <1>1, <1>2, <1>3, <1>4, <1>5 DEF ThreadNext, OwnerNext

\* The loop thread leaves loop() only by the test of quit_, and raises that only
\* as a user's callback that says so.
LEMMA LoopKeepsRunning ==
  ASSUME ThreadInv, Loop
  PROVE  /\ UNCHANGED <<loopPtr, threadPc, ownerPc>>
         /\ userQuit => userQuit'
         /\ userQuit' \in BOOLEAN
         /\ ~userQuit' /\ (quit => pc = "created") /\ pc # "stopped"
              => (quit' => pc' = "created") /\ pc' # "stopped"
         /\ \A t \in Workers : t \in pushed' => t \in pushed
<1> USE DEF Loop
<1>1. CASE LoopStep /\ UNCHANGED threadVars
  <2>1. UNCHANGED <<loopPtr, threadPc, ownerPc, userQuit>>
    BY <1>1 DEF threadVars
  <2>2. \A t \in Workers : t \in pushed' => t \in pushed
    BY <1>1 DEF LoopStep, EnterLoop, Continue, LeaveLoop, PollReady,
                HandleWeakup, HandleChannel, StartPending, RunFunctor,
                FinishPending, Return
  <2>3. (quit => pc = "created") /\ pc # "stopped"
          => (quit' => pc' = "created") /\ pc' # "stopped"
    BY <1>1 DEF LoopStep, EnterLoop, Continue, LeaveLoop, PollReady,
                HandleWeakup, HandleChannel, StartPending, RunFunctor,
                FinishPending, Return, ThreadInv, ThreadTypeOK, TypeOK
  <2>4. QED
    BY <2>1, <2>2, <2>3 DEF ThreadInv, ThreadTypeOK
<1>2. CASE PollTimeout /\ UNCHANGED threadVars
  BY <1>2 DEF PollTimeout, threadVars, ThreadInv, ThreadTypeOK
<1>3. ASSUME NEW f \in Functors, Push(LoopThread, f)
      PROVE  /\ quit' = quit /\ pc' = pc
             /\ \A t \in Workers : t \in pushed' => t \in pushed
  BY <1>3, ThreadsAssumption DEF Push, loopVars
<1>4. ASSUME NEW f \in Functors, RunInline(f)
      PROVE  quit' = quit /\ pc' = pc /\ pushed' = pushed
  BY <1>4 DEF RunInline, loopVars
<1>5. CASE Weakup(LoopThread) /\ UNCHANGED threadVars
  BY <1>5 DEF Weakup, loopVars, threadVars, ThreadInv, ThreadTypeOK
<1>6. CASE inCall /\ UserQuits(LoopThread)
  <2>1. looping
    BY <1>6 DEF ThreadInv, ThreadTypeOK, TypeOK
  <2>2. QED
    BY <1>6, <2>1 DEF UserQuits, Quit, ThreadInv, ThreadTypeOK
<1>7. CASE /\ inCall /\ \E f \in Functors : Push(LoopThread, f) \/ RunInline(f)
           /\ UNCHANGED threadVars
  BY <1>3, <1>4, <1>7 DEF threadVars, ThreadInv, ThreadTypeOK
<1>8. QED
  BY <1>1, <1>2, <1>5, <1>6, <1>7

\* Every step of the threads and the loop keeps the thread's invariant.
LEMMA ThreadStep == ThreadInv /\ [ThreadNext]_allVars => ThreadInv'
<1> SUFFICES ASSUME ThreadInv, [ThreadNext]_allVars
             PROVE  ThreadInv'
  OBVIOUS
<1>1. TypeOK'
  BY LoopStepsOnly, TypeStep DEF ThreadInv, ThreadTypeOK
<1> USE <1>1 DEF ThreadInv, ThreadTypeOK, OwnerKnows, BeforeQuit, OwnedLoopAlive
<1>2. CASE StartLoop
  BY <1>2 DEF StartLoop, vars
<1>3. CASE StartLoopWaits
  BY <1>3 DEF StartLoopWaits, vars
<1>4. CASE StartLoopReturns
  BY <1>4 DEF StartLoopReturns, vars
<1>5. CASE Destroy
  BY <1>5 DEF Destroy, vars
<1>6. CASE DestroyQuit
  BY <1>6 DEF DestroyQuit
<1>7. CASE Join
  BY <1>7 DEF Join, vars
<1>8. CASE Publish
  BY <1>8 DEF Publish, OwnerWoken, vars
<1>9. CASE Loop
  <2>1. /\ UNCHANGED <<loopPtr, threadPc, ownerPc>>
        /\ userQuit => userQuit'
        /\ userQuit' \in BOOLEAN
        /\ ~userQuit' /\ (quit => pc = "created") /\ pc # "stopped"
             => (quit' => pc' = "created") /\ pc' # "stopped"
        /\ \A t \in Workers : t \in pushed' => t \in pushed
    BY <1>9, LoopKeepsRunning
  <2>2. threadPc = "looping"
    BY <1>9 DEF Loop
  <2>3. QED
    BY <2>1, <2>2, OwnerAssumption
<1>10. CASE ClearLoop
  BY <1>10 DEF ClearLoop, vars
<1>11. CASE ThreadReturns
  BY <1>11 DEF ThreadReturns, vars
<1>12. ASSUME NEW t \in Workers, Use(t)
       PROVE  ThreadInv'
  <2>1. /\ pc' = pc
        /\ ownerPc # "started" => pushed' \subseteq pushed
        /\ UNCHANGED <<loopPtr, threadPc, ownerPc>>
    BY <1>12 DEF Use, UserQuits, Quit, Push, Weakup, loopVars, threadVars
  <2>2. \/ quit' = quit /\ userQuit' = userQuit
        \/ userQuit' = (userQuit \/ looping)
    BY <1>12 DEF Use, UserQuits, Push, Weakup, loopVars, threadVars
  <2>3. QED
    BY <2>1, <2>2 DEF TypeOK, PCs
<1>13. CASE Input
  BY <1>13 DEF Input, FdReadable, loopVars, threadVars
<1>14. CASE UNCHANGED allVars
  BY <1>14 DEF allVars, vars, threadVars
<1>15. QED
  BY <1>2, <1>3, <1>4, <1>5, <1>6, <1>7, <1>8, <1>9, <1>10, <1>11, <1>12, <1>13,
     <1>14
     DEF ThreadNext, OwnerNext

\* The thread's invariant always holds.
LEMMA ThreadCorrect == ThreadSpec => []ThreadInv
<1>1. ThreadInit => ThreadInv
  <2>1. ThreadInit => TypeOK
    BY InitType DEF ThreadInit
  <2>2. QED
    BY <2>1 DEF ThreadInit, Init, ThreadInv, ThreadTypeOK, OwnerKnows, BeforeQuit,
                OwnedLoopAlive
<1>2. QED
  BY <1>1, ThreadStep, PTL DEF ThreadSpec

\* OwnedLoopAlive, for any number of threads that use the loop and quit it: what
\* startLoop returned stays valid until the destructor's quit(), or that of a user
\* that found the loop inside loop(), and the destructor leaves no thread behind in
\* loop().
THEOREM OwnedLoopStaysAlive == ThreadSpec => []OwnedLoopAlive
<1>1. ThreadInv => OwnedLoopAlive
  BY DEF ThreadInv
<1>2. QED
  BY <1>1, ThreadCorrect, PTL

\* A ThreadEventLoop runs an EventLoop as that module describes it, so what
\* is proved of one holds of the loop in the thread: its wake-ups are not
\* lost, and functors run once and in order.
THEOREM RunsAnEventLoop == ThreadSpec => Spec
<1>1. ThreadInit => Init
  BY DEF ThreadInit
<1>2. QED
  BY <1>1, LoopStepsOnly, ThreadCorrect, PTL DEF ThreadSpec, Spec

-----------------------------------------------------------------------------
(* TimerQueue.                                                             *)

USE DelaysAssumption, MaxTimeAssumption

-----------------------------------------------------------------------------
\* A timer is always in exactly one place, across getExpired, the callbacks
\* and reset.
LEMMA TimerTypeStep == TimerTypeOK /\ [TimerNext]_timerVars => TimerTypeOK'
<1> SUFFICES ASSUME TimerTypeOK, [TimerNext]_timerVars
             PROVE  TimerTypeOK'
  OBVIOUS
<1> USE DEF TimerTypeOK, fdVars, readVars
<1>0. ASSUME NEW e \in Nat
      PROVE  FireTime(e) \in Nat
  BY DEF FireTime
<1>1. CASE Tick
  <2>1. readable' \in BOOLEAN
    BY <1>1, Zenon DEF Tick
  <2>2. armedAt' \in Nat /\ now' \in Nat /\ now <= now'
    BY <1>1, SMT DEF Tick
  <2>3. UNCHANGED <<expiration, interval, timers, readVars, free, adding, start,
                    runs>>
    BY <1>1 DEF Tick
  <2>4. QED
    BY <2>1, <2>2, <2>3
<1>2. ASSUME NEW t \in Timers, NEW d \in Delays, NEW r \in BOOLEAN,
             AddTimerFromLoop(t, d, r)
      PROVE  TimerTypeOK'
  <2>1. d \in Nat /\ now + d \in Nat
    OBVIOUS
  <2>2. armedAt' \in Nat /\ readable' \in BOOLEAN /\ timers' = timers \cup {t}
    BY <1>0, <1>2, <2>1 DEF AddTimerFromLoop, Insert, ResetTimerfd
  <2>3. /\ expiration' \in [Timers -> Nat] /\ interval' \in [Timers -> Nat]
        /\ start' \in [Timers -> Nat]
    BY <1>2, <2>1 DEF AddTimerFromLoop, Create
  <2>4. QED
    BY <1>2, <2>2, <2>3 DEF AddTimerFromLoop, Create
<1>3. ASSUME NEW t \in Timers, NEW d \in Delays, NEW r \in BOOLEAN,
             AddTimerFromOther(t, d, r)
      PROVE  TimerTypeOK'
  <2>1. d \in Nat /\ now + d \in Nat
    OBVIOUS
  <2>2. QED
    BY <1>3, <2>1 DEF AddTimerFromOther, Create
<1>4. ASSUME NEW t \in Timers, AddTimerInLoop(t)
      PROVE  TimerTypeOK'
  <2>1. armedAt' \in Nat /\ readable' \in BOOLEAN /\ timers' = timers \cup {t}
    BY <1>0, <1>4 DEF AddTimerInLoop, Insert, ResetTimerfd
  <2>2. QED
    BY <1>4, <2>1 DEF AddTimerInLoop
<1>5. CASE PollReturns
  BY <1>5 DEF PollReturns
<1>6. CASE HandleRead
  <2>1. readable' \in BOOLEAN
    BY <1>6 DEF HandleRead
  <2>2. /\ expired' \subseteq timers /\ timers' = timers \ expired'
        /\ toRun' = expired'
        /\ timerPc' = "handleRead" /\ readNow' = now
        /\ UNCHANGED <<now, expiration, interval, armedAt, free, adding, start,
                       runs>>
    BY <1>6 DEF HandleRead, TakeExpired
  <2>3. QED
    BY <2>1, <2>2
<1>7. ASSUME NEW t \in Timers, RunCallback(t)
      PROVE  TimerTypeOK'
  BY <1>7 DEF RunCallback
<1>8. CASE Reset
  <2>1. expiration' \in [Timers -> Nat] /\ timers' \subseteq Timers
    BY <1>8 DEF Reset, Restart
  <2>2. armedAt' \in Nat /\ readable' \in BOOLEAN
    BY <1>0, <1>8, <2>1 DEF Reset, Rearm, ResetTimerfd
  <2>3. timers' \cap (free \cup adding) = {} /\ expired' = {} /\ toRun' = {}
        /\ timerPc' = "outside" /\ readNow' = 0
        /\ UNCHANGED <<now, interval, free, adding, start, runs>>
    BY <1>8 DEF Reset
  <2>4. QED
    BY <2>1, <2>2, <2>3
<1>9. CASE UNCHANGED timerVars
  BY <1>9 DEF timerVars
<1>10. QED
  BY <1>1, <1>2, <1>3, <1>4, <1>5, <1>6, <1>7, <1>8, <1>9 DEF TimerNext

\* TimerQueue's set, its local vectors and the timerfd keep their types, and
\* no timer is in two of them or in none that reset will look at.
THEOREM TimersInOnePlace == TimerSpec => []TimerTypeOK
<1>1. ASSUME TimerInit
      PROVE  TimerTypeOK
  <2>1. readable \in BOOLEAN
    BY <1>1 DEF TimerInit
  <2>2. QED
    BY <1>1, <2>1 DEF TimerInit, TimerTypeOK
<1>2. QED
  BY <1>1, TimerTypeStep, PTL DEF TimerSpec

-----------------------------------------------------------------------------
\* A timerfd armed for an expiration covers every timer that is no earlier.
LEMMA ArmedCovers ==
  ASSUME TimerTypeOK, NEW e \in Nat, NEW x \in Nat, e <= x
  PROVE  FireTime(e) > now /\ FireTime(e) <= FireTime(x)
BY DEF TimerTypeOK, FireTime

\* insert keeps the timers covered: those already there because the timerfd
\* is only ever re-armed for something earlier, the new one because it is not
\* earlier than a timer that is covered, or is what the timerfd is armed for.
LEMMA InsertCovers ==
  ASSUME TimerTypeOK, AllTimersCovered, timerPc # "handleRead",
         NEW t \in Timers, t \notin timers, NEW when \in Nat,
         Insert(t, when), expiration' \in [Timers -> Nat],
         expiration'[t] = when,
         \A u \in timers : expiration'[u] = expiration[u],
         UNCHANGED <<now, timerPc>>
  PROVE  AllTimersCovered'
<1> USE DEF TimerTypeOK
<1>1. timers' = timers \cup {t}
  BY DEF Insert
<1>2. CASE EarliestChanged(when)
  <2>1. armedAt' = FireTime(when)
    BY <1>2 DEF Insert, ResetTimerfd
  <2>2. ASSUME NEW u \in timers'
        PROVE  FireTime(when) > now /\ FireTime(when) <= FireTime(expiration'[u])
    BY <1>1, <1>2, ArmedCovers DEF EarliestChanged
  <2>3. QED
    BY <2>1, <2>2 DEF AllTimersCovered, Covered, FireTime
<1>3. CASE ~EarliestChanged(when)
  <2>1. PICK v \in timers : expiration[v] <= when
    BY <1>3 DEF EarliestChanged
  <2>2. Covered(v) /\ FireTime(expiration[v]) <= FireTime(when)
    BY <2>1, ArmedCovers DEF AllTimersCovered
  <2>3. UNCHANGED <<armedAt, readable>>
    BY <1>3 DEF Insert, fdVars
  <2>4. ASSUME NEW u \in timers'
        PROVE  readable \/ (armedAt > now /\ armedAt <= FireTime(expiration'[u]))
    <3>1. CASE u = t
      BY <2>2, <3>1 DEF Covered, FireTime
    <3>2. CASE u \in timers
      BY <3>2 DEF AllTimersCovered, Covered
    <3>3. QED
      BY <1>1, <3>1, <3>2
  <2>5. QED
    BY <2>3, <2>4 DEF AllTimersCovered, Covered, FireTime
<1>4. QED
  BY <1>2, <1>3

\* Every step keeps the timerfd set, or readable, for every timer.
LEMMA CoveredStep ==
  TimerTypeOK /\ AllTimersCovered /\ [TimerNext]_timerVars => AllTimersCovered'
<1> SUFFICES ASSUME TimerTypeOK, AllTimersCovered, [TimerNext]_timerVars
             PROVE  AllTimersCovered'
  OBVIOUS
<1> USE DEF TimerTypeOK
<1>1. CASE Tick
  <2>1. ASSUME timerPc # "handleRead", NEW t \in timers
        PROVE  Covered(t)'
    BY <1>1, <2>1 DEF Tick, AllTimersCovered, Covered, FireTime, fdVars
  <2>2. QED
    BY <1>1, <2>1 DEF Tick, AllTimersCovered, readVars
<1>2. ASSUME NEW t \in Timers, NEW d \in Delays, NEW r \in BOOLEAN,
             AddTimerFromLoop(t, d, r)
      PROVE  AllTimersCovered'
  <2>1. now + d \in Nat /\ t \notin timers
    BY <1>2 DEF AddTimerFromLoop, Create
  <2>2. /\ expiration' \in [Timers -> Nat]
        /\ expiration'[t] = now + d
        /\ \A u \in timers : expiration'[u] = expiration[u]
    BY <1>2, <2>1 DEF AddTimerFromLoop, Create
  <2>3. UNCHANGED <<now, timerPc>> /\ Insert(t, now + d)
    BY <1>2 DEF AddTimerFromLoop, readVars
  <2>4. QED
    BY <2>1, <2>2, <2>3, InsertCovers DEF AllTimersCovered
<1>3. ASSUME NEW t \in Timers, NEW d \in Delays, NEW r \in BOOLEAN,
             AddTimerFromOther(t, d, r)
      PROVE  AllTimersCovered'
  <2>1. \A u \in timers : expiration'[u] = expiration[u]
    BY <1>3 DEF AddTimerFromOther, Create
  <2>2. QED
    BY <1>3, <2>1
       DEF AddTimerFromOther, AllTimersCovered, Covered, FireTime, fdVars, readVars
<1>4. ASSUME NEW t \in Timers, AddTimerInLoop(t)
      PROVE  AllTimersCovered'
  <2>1. t \notin timers /\ expiration[t] \in Nat
    BY <1>4 DEF AddTimerInLoop
  <2>2. UNCHANGED <<now, timerPc, expiration>> /\ Insert(t, expiration[t])
        /\ timerPc # "handleRead"
    BY <1>4 DEF AddTimerInLoop, readVars
  <2>3. QED
    BY <2>1, <2>2, InsertCovers
<1>5. CASE PollReturns
  BY <1>5 DEF PollReturns, AllTimersCovered, Covered, FireTime, fdVars
<1>6. CASE HandleRead
  BY <1>6 DEF HandleRead, AllTimersCovered
<1>7. ASSUME NEW t \in Timers, RunCallback(t)
      PROVE  AllTimersCovered'
  BY <1>7 DEF RunCallback, AllTimersCovered
<1>8. CASE Reset
  <2>1. expiration' \in [Timers -> Nat] /\ timers' \subseteq Timers /\ now' = now
    BY <1>8 DEF Reset, Restart
  <2>2. CASE timers' = {}
    BY <2>2 DEF AllTimersCovered
  <2>3. CASE timers' # {}
    <3>1. PICK e \in {expiration'[t] : t \in timers'} :
            (\A u \in timers' : e <= expiration'[u]) /\ ResetTimerfd(e)
      BY <1>8, <2>3 DEF Reset, Rearm
    <3>2. e \in Nat
      BY <2>1, <3>1
    <3>3. armedAt' = FireTime(e)
      BY <3>1 DEF ResetTimerfd
    <3>4. ASSUME NEW u \in timers'
          PROVE  FireTime(e) > now /\ FireTime(e) <= FireTime(expiration'[u])
      BY <2>1, <3>1, <3>2, ArmedCovers
    <3>5. QED
      BY <2>1, <3>3, <3>4 DEF AllTimersCovered, Covered, FireTime
  <2>4. QED
    BY <2>2, <2>3
<1>9. CASE UNCHANGED timerVars
  BY <1>9 DEF timerVars, AllTimersCovered, Covered, FireTime, fdVars, readVars
<1>10. QED
  BY <1>1, <1>2, <1>3, <1>4, <1>5, <1>6, <1>7, <1>8, <1>9 DEF TimerNext

\* One timerfd is enough: whatever is added and whenever, by whomever, it
\* covers every timer as soon as handleRead returns and until it runs again.
THEOREM NoTimerOverlooked == TimerSpec => []AllTimersCovered
<1>1. TimerInit => AllTimersCovered
  BY DEF TimerInit, AllTimersCovered
<1>2. QED
  BY <1>1, TimersInOnePlace, CoveredStep, PTL DEF TimerSpec

-----------------------------------------------------------------------------
\* What handleRead took out had expired when it read the clock.
ExpiredInv == \A t \in expired : expiration[t] <= readNow

\* Timers that have still to be called for the expiration they carry.
Waiting == adding \cup timers \cup toRun

\* The budget of calls: a timer that waits has one interval in hand, and a
\* repeating timer is never dropped.
RateInv ==
  \A t \in Timers :
    /\ t \in free => runs[t] = 0
    /\ interval[t] = 0 => runs[t] <= 1 /\ (t \in Waiting => runs[t] = 0)
    /\ (interval[t] > 0 /\ t \notin free) =>
         /\ t \in Waiting \cup expired
         /\ expiration[t] - interval[t] <= now
         /\ t \in Waiting =>
              runs[t] * interval[t] <= expiration[t] - start[t] - interval[t]
         /\ runs[t] * interval[t] <= expiration[t] - start[t]

\* Every step keeps what handleRead took out expired.
LEMMA ExpiredStep ==
  TimerTypeOK /\ ExpiredInv /\ [TimerNext]_timerVars => ExpiredInv'
<1> SUFFICES ASSUME TimerTypeOK, ExpiredInv, [TimerNext]_timerVars
             PROVE  ExpiredInv'
  OBVIOUS
<1> USE DEF TimerTypeOK, ExpiredInv
<1>1. CASE Tick
  BY <1>1 DEF Tick, readVars
<1>2. ASSUME NEW t \in Timers, NEW d \in Delays, NEW r \in BOOLEAN,
             AddTimerFromLoop(t, d, r)
      PROVE  ExpiredInv'
  BY <1>2 DEF AddTimerFromLoop, Create, readVars
<1>3. ASSUME NEW t \in Timers, NEW d \in Delays, NEW r \in BOOLEAN,
             AddTimerFromOther(t, d, r)
      PROVE  ExpiredInv'
  BY <1>3 DEF AddTimerFromOther, Create, readVars
<1>4. ASSUME NEW t \in Timers, AddTimerInLoop(t)
      PROVE  ExpiredInv'
  BY <1>4 DEF AddTimerInLoop, readVars
<1>5. CASE PollReturns
  BY <1>5 DEF PollReturns
<1>6. CASE HandleRead
  BY <1>6 DEF HandleRead, TakeExpired, Expired
<1>7. ASSUME NEW t \in Timers, RunCallback(t)
      PROVE  ExpiredInv'
  BY <1>7 DEF RunCallback
<1>8. CASE Reset
  BY <1>8 DEF Reset
<1>9. CASE UNCHANGED timerVars
  BY <1>9 DEF timerVars, readVars
<1>10. QED
  BY <1>1, <1>2, <1>3, <1>4, <1>5, <1>6, <1>7, <1>8, <1>9 DEF TimerNext

\* What handleRead took out had always expired when it read the clock.
THEOREM ExpiredInvariant == TimerSpec => []ExpiredInv
<1>1. TimerInit => ExpiredInv
  BY DEF TimerInit, ExpiredInv
<1>2. QED
  BY <1>1, TimersInOnePlace, ExpiredStep, PTL DEF TimerSpec

\* Callbacks are only ever called from handleRead, on timers that its one
\* reading of the clock had found expired.
LEMMA OnlyCallbacksRun ==
  TimerTypeOK /\ ExpiredInv /\ [TimerNext]_timerVars =>
    \A t \in Timers : runs'[t] # runs[t] => expiration[t] <= now
<1> SUFFICES ASSUME TimerTypeOK, ExpiredInv, [TimerNext]_timerVars,
                    NEW t \in Timers, runs'[t] # runs[t]
             PROVE  expiration[t] <= now
  OBVIOUS
<1>1. PICK u \in Timers : RunCallback(u)
  BY DEF TimerNext, Tick, AddTimerFromLoop, AddTimerFromOther, AddTimerInLoop,
         PollReturns, HandleRead, Reset, timerVars
<1>2. u = t
  BY <1>1 DEF RunCallback, TimerTypeOK
<1>3. t \in expired /\ timerPc = "handleRead"
  BY <1>1, <1>2 DEF RunCallback, TimerTypeOK
<1>4. QED
  BY <1>3 DEF ExpiredInv, TimerTypeOK

\* A callback never runs before its timer's expiration.
THEOREM CallbacksNeverEarly == TimerSpec => NeverEarly
BY TimersInOnePlace, ExpiredInvariant, OnlyCallbacksRun, PTL
   DEF TimerSpec, NeverEarly

-----------------------------------------------------------------------------
\* A call spends the interval in hand; reset gives a new one by counting the
\* next expiration from the time handleRead began, not from the last one.
LEMMA RateStep ==
  TimerTypeOK /\ ExpiredInv /\ RateInv /\ [TimerNext]_timerVars => RateInv'
<1> SUFFICES ASSUME TimerTypeOK, ExpiredInv, RateInv, [TimerNext]_timerVars
             PROVE  RateInv'
  OBVIOUS
<1> DEFINE Rate(t) ==
      /\ t \in free => runs[t] = 0
      /\ interval[t] = 0 => runs[t] <= 1 /\ (t \in Waiting => runs[t] = 0)
      /\ (interval[t] > 0 /\ t \notin free) =>
           /\ t \in Waiting \cup expired
           /\ expiration[t] - interval[t] <= now
           /\ t \in Waiting =>
                runs[t] * interval[t] <= expiration[t] - start[t] - interval[t]
           /\ runs[t] * interval[t] <= expiration[t] - start[t]
<1>0. ASSUME NEW t \in Timers
      PROVE  Rate(t)
  BY DEF RateInv
<1> SUFFICES ASSUME NEW t \in Timers
             PROVE  Rate(t)'
  BY DEF RateInv
<1> USE DEF TimerTypeOK
<1>1. CASE Tick
  BY <1>0, <1>1 DEF Tick, Waiting, readVars
<1>2. ASSUME NEW u \in Timers, NEW d \in Delays, NEW r \in BOOLEAN,
             Create(u, d, r), UNCHANGED <<now, expired, toRun, runs>>,
             timers' \cup adding' = timers \cup adding \cup {u}
      PROVE  Rate(t)'
  <2>1. d \in Nat
    OBVIOUS
  <2>2. CASE t = u
    <3>1. /\ expiration'[t] = now + d /\ start'[t] = now
          /\ interval'[t] = (IF r THEN d ELSE 0) /\ t \notin free'
      BY <1>2, <2>1, <2>2 DEF Create
    <3>2. runs'[t] = 0
      BY <1>0, <1>2, <2>2 DEF Create
    <3>3. t \in Waiting'
      BY <1>2, <2>2 DEF Waiting
    <3>4. interval'[t] \in Nat /\ interval'[t] <= d
      BY <2>1, <3>1
    <3>5. runs'[t] * interval'[t] = 0
      BY <3>2, <3>4
    <3>6. (interval'[t] > 0) => interval'[t] = d
      BY <2>1, <3>1
    <3>7. now' = now /\ now \in Nat
      BY <1>2
    <3>8. CASE interval'[t] = 0
      BY <3>1, <3>2, <3>8
    <3>9. CASE interval'[t] > 0
      <4>1. expiration'[t] - start'[t] = interval'[t]
        BY <2>1, <3>1, <3>6, <3>7, <3>9
      <4>2. expiration'[t] - interval'[t] <= now'
        BY <2>1, <3>1, <3>6, <3>7, <3>9
      <4>3. /\ 0 <= expiration'[t] - start'[t] - interval'[t]
            /\ 0 <= expiration'[t] - start'[t]
        BY <2>1, <3>1, <3>4, <3>7, <4>1
      <4>4. QED
        BY <3>2, <3>3, <3>5, <3>9, <4>2, <4>3
    <3>10. interval'[t] = 0 \/ interval'[t] > 0
      BY <3>4
    <3>11. QED
      BY <3>8, <3>9, <3>10, Zenon
  <2>3. CASE t # u
    <3>1. /\ expiration'[t] = expiration[t] /\ start'[t] = start[t]
          /\ interval'[t] = interval[t] /\ runs'[t] = runs[t]
          /\ now' = now
      BY <1>2, <2>3 DEF Create
    <3>2. /\ t \in free' <=> t \in free
          /\ t \in Waiting' <=> t \in Waiting
          /\ t \in Waiting' \cup expired' <=> t \in Waiting \cup expired
      BY <1>2, <2>3 DEF Create, Waiting
    <3>3. Rate(t)
      BY <1>0
    <3>4. QED
      BY <3>1, <3>2, <3>3
  <2>4. QED
    BY <2>2, <2>3
<1>3. ASSUME NEW u \in Timers, NEW d \in Delays, NEW r \in BOOLEAN,
             AddTimerFromLoop(u, d, r)
      PROVE  Rate(t)'
  <2>1. timers' \cup adding' = timers \cup adding \cup {u}
    BY <1>3 DEF AddTimerFromLoop, Insert
  <2>2. QED
    BY <1>2, <1>3, <2>1 DEF AddTimerFromLoop, readVars
<1>4. ASSUME NEW u \in Timers, NEW d \in Delays, NEW r \in BOOLEAN,
             AddTimerFromOther(u, d, r)
      PROVE  Rate(t)'
  BY <1>2, <1>4 DEF AddTimerFromOther, readVars
<1>5. ASSUME NEW u \in Timers, AddTimerInLoop(u)
      PROVE  Rate(t)'
  <2>1. Waiting' = Waiting
    BY <1>5 DEF AddTimerInLoop, Insert, Waiting, readVars
  <2>2. QED
    BY <1>0, <1>5, <2>1 DEF AddTimerInLoop, readVars
<1>6. CASE PollReturns
  BY <1>0, <1>6 DEF PollReturns, Waiting
<1>7. CASE HandleRead
  <2>1. toRun = {} /\ expired = {}
    BY <1>7 DEF HandleRead
  <2>2. Waiting' = Waiting /\ expired' \subseteq Waiting
    BY <1>7, <2>1 DEF HandleRead, TakeExpired, Waiting
  <2>3. QED
    BY <1>0, <1>7, <2>1, <2>2 DEF HandleRead
<1>8. ASSUME NEW u \in Timers, RunCallback(u)
      PROVE  Rate(t)'
  <2>1. UNCHANGED <<now, expiration, interval, expired, free, start, timers,
                    adding>>
    BY <1>8 DEF RunCallback
  <2>2. CASE t = u
    <3>1. /\ t \in toRun /\ t \in expired /\ t \notin free
          /\ runs'[t] = runs[t] + 1 /\ t \notin Waiting'
      BY <1>8, <2>2 DEF RunCallback, Waiting
    <3>2. (runs[t] + 1) * interval[t] = runs[t] * interval[t] + interval[t]
      OBVIOUS
    <3>3. runs[t] * interval[t] \in Nat
      OBVIOUS
    <3>4. QED
      BY <1>0, <2>1, <3>1, <3>2, <3>3 DEF Waiting
  <2>3. CASE t # u
    <3>1. runs'[t] = runs[t] /\ (t \in Waiting' <=> t \in Waiting)
      BY <1>8, <2>3 DEF RunCallback, Waiting
    <3>2. QED
      BY <1>0, <2>1, <3>1
  <2>4. QED
    BY <2>2, <2>3
<1>9. CASE Reset
  <2>1. /\ UNCHANGED <<now, interval, free, adding, start, runs>>
        /\ toRun = {} /\ toRun' = {} /\ timerPc = "handleRead"
    BY <1>9 DEF Reset
  <2>2. CASE t \in expired /\ interval[t] > 0
    <3>1. expiration'[t] = readNow + interval[t] /\ t \in timers'
      BY <1>9, <2>2 DEF Reset, Restart
    <3>2. t \notin free /\ expiration[t] <= readNow /\ readNow <= now
      BY <2>1, <2>2 DEF ExpiredInv
    <3>3. runs[t] * interval[t] <= expiration[t] - start[t]
          /\ runs[t] * interval[t] \in Nat
      BY <1>0, <2>2, <3>2
    <3>4. QED
      BY <2>1, <2>2, <3>1, <3>2, <3>3 DEF Waiting
  <2>3. CASE ~(t \in expired /\ interval[t] > 0)
    <3>1. expiration'[t] = expiration[t] /\ (t \in timers' <=> t \in timers)
      BY <1>9, <2>3 DEF Reset
    <3>2. t \in Waiting' <=> t \in Waiting
      BY <2>1, <3>1 DEF Waiting
    <3>3. QED
      BY <1>0, <2>1, <2>3, <3>1, <3>2
  <2>4. QED
    BY <2>2, <2>3
<1>10. CASE UNCHANGED timerVars
  BY <1>0, <1>10 DEF timerVars, readVars, Waiting
<1>11. QED
  BY <1>1, <1>3, <1>4, <1>5, <1>6, <1>7, <1>8, <1>9, <1>10 DEF TimerNext

\* The budget of calls bounds how often a callback is called.
LEMMA RateImpliesNeverTooOften ==
  TimerTypeOK /\ ExpiredInv /\ RateInv => NeverTooOften
<1> SUFFICES ASSUME TimerTypeOK, ExpiredInv, RateInv, NEW t \in Timers
             PROVE  IF interval[t] = 0 THEN runs[t] <= 1
                    ELSE t \notin free =>
                           runs[t] * interval[t] <= now - start[t]
  BY DEF NeverTooOften
<1>a. CASE interval[t] = 0
  BY <1>a DEF RateInv
<1> SUFFICES ASSUME interval[t] > 0, t \notin free
             PROVE  runs[t] * interval[t] <= now - start[t]
  BY <1>a DEF TimerTypeOK
<1>1. runs[t] * interval[t] \in Nat
  BY DEF TimerTypeOK
<1>2. CASE t \in Waiting
  BY <1>1, <1>2 DEF RateInv, TimerTypeOK
<1>3. CASE t \in expired
  <2>1. expiration[t] <= now
    BY <1>3 DEF ExpiredInv, TimerTypeOK
  <2>2. QED
    BY <1>1, <2>1 DEF RateInv, TimerTypeOK
<1>4. QED
  BY <1>2, <1>3 DEF RateInv

\* Over any stretch of time a repeating timer is called at most once per
\* interval, and a timer that does not repeat at most once at all.
THEOREM CallbacksNeverTooOften == TimerSpec => []NeverTooOften
<1>1. ASSUME TimerInit
      PROVE  RateInv
  <2>1. ASSUME NEW t \in Timers
        PROVE  t \in free /\ interval[t] = 0 /\ runs[t] = 0
    BY <1>1 DEF TimerInit
  <2>2. 0 <= 1 /\ ~(0 > 0)
    OBVIOUS
  <2>3. QED
    BY <2>1, <2>2, Zenon DEF RateInv
<1>2. QED
  BY <1>1, TimersInOnePlace, ExpiredInvariant, RateStep, RateImpliesNeverTooOften,
     PTL DEF TimerSpec

=============================================================================
