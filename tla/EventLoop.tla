----------------------------- MODULE EventLoop ------------------------------
(***************************************************************************)
(* net/EventLoop.cpp: one loop thread that blocks in epoll_wait, handles   *)
(* the active channels and then runs the functors that any thread has      *)
(* queued, and the worker threads that queue them and wake the loop up     *)
(* through an eventfd.                                                     *)
(*                                                                         *)
(* queueInLoop is two steps, because other threads run between them: the   *)
(* push_back under mutex_ (Push) and, after the unlock, the test of        *)
(* callPendingFunctor_ with the write to weakupFd_ (Weakup).  User code    *)
(* (a channel's callback or a functor) is the period during which inCall   *)
(* holds; the loop thread itself calls queueInLoop, runInLoop and quit     *)
(* only there, or before it enters loop().                                 *)
(***************************************************************************)
EXTENDS Naturals, Sequences, Functions

CONSTANTS
  LoopThread,           \* the thread that constructed the EventLoop
  Workers,              \* every other thread that holds a pointer to it
  Functors,             \* the functors of a run, each queued once
  Channels,             \* the registered fds other than weakupFd_
  WeakupChannel         \* weakupChannel_

ASSUME ThreadsAssumption == LoopThread \notin Workers
ASSUME ChannelsAssumption == WeakupChannel \notin Channels

Threads == Workers \cup {LoopThread}

VARIABLES
  pc,                   \* where the loop thread is in loop()
  looping,              \* looping_
  quit,                 \* quit_
  pending,              \* pendingFunctors_
  callPending,          \* callPendingFunctor_
  batch,                \* the local vector doPendingFunctor swapped out
  weakupFd,             \* the eventfd's counter
  ready,                \* the registered fds that are readable
  active,               \* activeChannels_, not yet handled
  inCall,               \* the loop thread is inside a callback or functor
  pushed,               \* threads between push_back and the wake-up test
  fresh,                \* functors not handed over yet
  ran,                  \* functors started, in order
  early                 \* functors the loop thread queued before loop()

loopVars == <<pc, looping, quit, callPending, batch, active, inCall>>
vars == <<pc, looping, quit, pending, callPending, batch, weakupFd, ready,
          active, inCall, pushed, fresh, ran, early>>

PCs == {"created", "while", "poll", "handle", "run", "stopped"}

\* The types, and what the loop thread's flags mean: looping_ covers loop(),
\* callPendingFunctor_ covers the second half of doPendingFunctor, only that
\* half leaves functors in the local vector, and only user code can have left
\* the loop thread inside queueInLoop.
TypeOK ==
  /\ pc \in PCs
  /\ looping \in BOOLEAN
  /\ quit \in BOOLEAN
  /\ pending \in Seq(Functors)
  /\ callPending \in BOOLEAN
  /\ batch \in Seq(Functors)
  /\ weakupFd \in Nat
  /\ ready \subseteq Channels
  /\ active \subseteq Channels \cup {WeakupChannel}
  /\ inCall \in BOOLEAN
  /\ pushed \subseteq Threads
  /\ fresh \subseteq Functors
  /\ ran \in Seq(Functors)
  /\ early \subseteq Functors
  /\ looping <=> pc \notin {"created", "stopped"}
  /\ callPending <=> pc = "run"
  /\ inCall => pc \in {"handle", "run"}
  /\ batch # <<>> => pc = "run"
  /\ LoopThread \in pushed => inCall \/ pc = "created"

Init ==
  /\ pc = "created"
  /\ looping = FALSE
  /\ quit = FALSE
  /\ pending = <<>>
  /\ callPending = FALSE
  /\ batch = <<>>
  /\ weakupFd = 0
  /\ ready = {}
  /\ active = {}
  /\ inCall = FALSE
  /\ pushed = {}
  /\ fresh = Functors
  /\ ran = <<>>
  /\ early = {}

-----------------------------------------------------------------------------
(* Calls on the loop, by any thread.                                       *)

\* Thread t is where it can call a member function of the loop.
CanCall(t) ==
  /\ t \notin pushed
  /\ t = LoopThread => inCall \/ pc = "created"

\* queueInLoop's critical section.
Push(t, f) ==
  /\ CanCall(t)
  /\ f \in fresh
  /\ fresh' = fresh \ {f}
  /\ pending' = Append(pending, f)
  /\ pushed' = pushed \cup {t}
  /\ early' = IF t = LoopThread /\ pc = "created" THEN early \cup {f} ELSE early
  /\ UNCHANGED <<loopVars, weakupFd, ready, ran>>

NeedWeakup_NotWhileRunning(t) == t # LoopThread
NeedWeakup_OwnThreadOnly(t) == t = LoopThread /\ callPending
NeedWeakup(t) == t # LoopThread \/ callPending

\* The rest of queueInLoop: wake the loop up unless it is sure to look at
\* pendingFunctors_ before it blocks.
Weakup(t) ==
  /\ t \in pushed
  /\ pushed' = pushed \ {t}
  /\ weakupFd' = IF NeedWeakup(t) THEN weakupFd + 1 ELSE weakupFd
  /\ UNCHANGED <<loopVars, pending, ready, fresh, ran, early>>

\* runInLoop on the loop thread calls the functor at once; on any other
\* thread it is queueInLoop.
RunInline(f) ==
  /\ CanCall(LoopThread)
  /\ f \in fresh
  /\ fresh' = fresh \ {f}
  /\ ran' = Append(ran, f)
  /\ UNCHANGED <<loopVars, pending, weakupFd, ready, pushed, early>>

\* quit() only stores the flag: nobody wakes the loop up.
Quit(t) ==
  /\ CanCall(t)
  /\ ~quit
  /\ quit' = TRUE
  /\ UNCHANGED <<pc, looping, pending, callPending, batch, weakupFd, ready,
                 active, inCall, pushed, fresh, ran, early>>

-----------------------------------------------------------------------------
(* The loop thread.                                                        *)

\* loop() up to the while: it clears quit_, whoever set it.
EnterLoop ==
  /\ pc = "created"
  /\ LoopThread \notin pushed
  /\ pc' = "while"
  /\ looping' = TRUE
  /\ quit' = FALSE
  /\ UNCHANGED <<pending, callPending, batch, weakupFd, ready, active, inCall,
                 pushed, fresh, ran, early>>

Continue_Forever ==
  /\ pc = "while"
  /\ pc' = "poll"
  /\ active' = {}
  /\ UNCHANGED <<looping, quit, pending, callPending, batch, weakupFd, ready,
                 inCall, pushed, fresh, ran, early>>
Continue ==
  /\ pc = "while"
  /\ ~quit
  /\ pc' = "poll"
  /\ active' = {}
  /\ UNCHANGED <<looping, quit, pending, callPending, batch, weakupFd, ready,
                 inCall, pushed, fresh, ran, early>>

LeaveLoop_Unasked ==
  /\ pc = "while"
  /\ pc' = "stopped"
  /\ looping' = FALSE
  /\ UNCHANGED <<quit, pending, callPending, batch, weakupFd, ready, active,
                 inCall, pushed, fresh, ran, early>>
LeaveLoop ==
  /\ pc = "while"
  /\ quit
  /\ pc' = "stopped"
  /\ looping' = FALSE
  /\ UNCHANGED <<quit, pending, callPending, batch, weakupFd, ready, active,
                 inCall, pushed, fresh, ran, early>>

ReadyChannels == ready \cup (IF weakupFd > 0 THEN {WeakupChannel} ELSE {})

\* epoll_wait returns the readable fds ...
PollReady ==
  /\ pc = "poll"
  /\ ReadyChannels # {}
  /\ pc' = "handle"
  /\ active' = ReadyChannels
  /\ UNCHANGED <<looping, quit, pending, callPending, batch, weakupFd, ready,
                 inCall, pushed, fresh, ran, early>>

\* ... or nothing, after ten seconds.
PollTimeout ==
  /\ pc = "poll"
  /\ ReadyChannels = {}
  /\ pc' = "handle"
  /\ active' = {}
  /\ UNCHANGED <<looping, quit, pending, callPending, batch, weakupFd, ready,
                 inCall, pushed, fresh, ran, early>>

\* EventLoop::handleRead: reading an eventfd resets its counter.
HandleWeakup ==
  /\ pc = "handle"
  /\ ~inCall
  /\ WeakupChannel \in active
  /\ active' = active \ {WeakupChannel}
  /\ weakupFd' = 0
  /\ UNCHANGED <<pc, looping, quit, pending, callPending, batch, ready, inCall,
                 pushed, fresh, ran, early>>

\* Another channel's callback starts; it consumes what made the fd readable.
HandleChannel(ch) ==
  /\ pc = "handle"
  /\ ~inCall
  /\ ch \in active
  /\ active' = active \ {ch}
  /\ ready' = ready \ {ch}
  /\ inCall' = TRUE
  /\ UNCHANGED <<pc, looping, quit, pending, callPending, batch, weakupFd,
                 pushed, fresh, ran, early>>

Swap_KeepsPending ==
  /\ batch' = pending
  /\ UNCHANGED pending
Swap ==
  /\ batch' = pending
  /\ pending' = <<>>

\* doPendingFunctor up to the end of its critical section.
StartPending ==
  /\ pc = "handle"
  /\ ~inCall
  /\ active = {}
  /\ pc' = "run"
  /\ callPending' = TRUE
  /\ Swap
  /\ UNCHANGED <<looping, quit, weakupFd, ready, active, inCall, pushed, fresh,
                 ran, early>>

RunFunctor ==
  /\ pc = "run"
  /\ ~inCall
  /\ batch # <<>>
  /\ batch' = Tail(batch)
  /\ ran' = Append(ran, Head(batch))
  /\ inCall' = TRUE
  /\ UNCHANGED <<pc, looping, quit, pending, callPending, weakupFd, ready,
                 active, pushed, fresh, early>>

\* The callback or functor that is running returns.
Return ==
  /\ inCall
  /\ LoopThread \notin pushed
  /\ inCall' = FALSE
  /\ UNCHANGED <<pc, looping, quit, pending, callPending, batch, weakupFd,
                 ready, active, pushed, fresh, ran, early>>

FinishPending ==
  /\ pc = "run"
  /\ ~inCall
  /\ batch = <<>>
  /\ pc' = "while"
  /\ callPending' = FALSE
  /\ UNCHANGED <<looping, quit, pending, batch, weakupFd, ready, active, inCall,
                 pushed, fresh, ran, early>>

\* The kernel reports input on a registered fd.
FdReadable(ch) ==
  /\ ch \notin ready
  /\ ready' = ready \cup {ch}
  /\ UNCHANGED <<loopVars, pending, weakupFd, pushed, fresh, ran, early>>

-----------------------------------------------------------------------------
LoopStep ==
  \/ EnterLoop \/ Continue \/ LeaveLoop
  \/ PollReady
  \/ HandleWeakup
  \/ \E ch \in Channels : HandleChannel(ch)
  \/ StartPending \/ RunFunctor \/ FinishPending
  \/ Return

Next ==
  \/ \E t \in Threads, f \in Functors : Push(t, f)
  \/ \E t \in Threads : Weakup(t) \/ Quit(t)
  \/ \E f \in Functors : RunInline(f)
  \/ LoopStep
  \/ PollTimeout
  \/ \E ch \in Channels : FdReadable(ch)

Spec == Init /\ [][Next]_vars

\* Every thread that is not blocked keeps running.  Nothing is assumed of
\* PollTimeout: what holds here does not wait for epoll_wait's ten seconds.
Fairness == WF_vars(LoopStep) /\ \A t \in Threads : WF_vars(Weakup(t))

FairSpec == Spec /\ Fairness

-----------------------------------------------------------------------------
\* The functors queued so that the loop has to be told about them: all but
\* those the loop thread queued itself before it entered loop().
Signalled == {i \in DOMAIN pending : pending[i] \notin early}

\* queueInLoop's wake-up is never lost: while the loop thread is anywhere but
\* on its way to doPendingFunctor and a functor is queued, weakupFd_ is
\* readable or a thread that has pushed is about to make it so.  In particular
\* the loop cannot block in epoll_wait on a functor nobody will wake it for.
NoLostWakeup ==
  (pc # "handle" /\ Signalled # {}) =>
    \/ weakupFd > 0
    \/ \E t \in pushed : NeedWeakup(t)

\* doPendingFunctor runs what queueInLoop accepted exactly once and in the
\* order of the push_backs, over both vectors and the swap between them.
Abstract == INSTANCE Executor WITH queue <- batch \o pending
ImplementsExecutor == Abstract!Spec

\* A functor that another thread, a callback or a functor queued is run, or
\* the loop has been told to stop, without waiting for the poll to time out.
QueuedRuns ==
  \A f \in Functors :
    f \in Range(pending) \ early ~> f \in Range(ran) \/ pc = "stopped"

=============================================================================
