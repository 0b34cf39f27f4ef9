--------------------------- MODULE ThreadEventLoop --------------------------
(***************************************************************************)
(* net/ThreadEventLoop.cpp: an object that runs an EventLoop in a thread   *)
(* of its own.  The owner (the base loop's thread, through                 *)
(* EventLoopThreadPool) calls startLoop, hands out the EventLoop it gets,  *)
(* and in the destructor tells the loop to quit and joins the thread.      *)
(* The thread constructs the EventLoop, publishes it in loop_, runs        *)
(* loop() - all of module EventLoop - and clears loop_ when it returns.    *)
(*                                                                         *)
(* Whoever has the loop may call quit() on it, a callback of its own too;  *)
(* the thread then returns and the loop, which is on its stack, is gone,   *)
(* while the owner and the users still have its address.  What they call   *)
(* on it from then on is undefined; the model goes on as if its memory     *)
(* were still there, and OwnedLoopAlive says when they may rely on it.     *)
(***************************************************************************)
EXTENDS EventLoop

CONSTANT Owner          \* the thread that owns the ThreadEventLoop

ASSUME OwnerAssumption == Owner \in Workers

VARIABLES
  loopPtr,              \* loop_ is not NULL
  threadPc,             \* where the thread is in threadFunc
  ownerPc,              \* where the owner is in the object's life
  userQuit              \* ghost: a user's quit() found the loop inside loop()

threadVars == <<loopPtr, threadPc, ownerPc, userQuit>>
allVars == <<vars, threadVars>>

\* The types, and what loop_ means to the owner: it is set while the thread
\* may be inside loop(), and never again after loop() has returned.
ThreadTypeOK ==
  /\ TypeOK
  /\ loopPtr \in BOOLEAN
  /\ threadPc \in {"unstarted", "starting", "looping", "clearing", "finished"}
  /\ ownerPc \in {"constructed", "testing", "waiting", "started", "quitting",
                  "joining", "destroyed"}
  /\ userQuit \in BOOLEAN
  /\ loopPtr <=> threadPc = "looping"
  /\ threadPc \in {"unstarted", "starting"} => pc = "created"
  /\ threadPc \in {"clearing", "finished"} => pc = "stopped"

ThreadInit ==
  /\ Init
  /\ loopPtr = FALSE
  /\ threadPc = "unstarted"
  /\ ownerPc = "constructed"
  /\ userQuit = FALSE

-----------------------------------------------------------------------------
(* The owner.                                                              *)

\* startLoop up to the while around the wait.
StartLoop ==
  /\ ownerPc = "constructed"
  /\ ownerPc' = "testing"
  /\ threadPc' = "starting"
  /\ UNCHANGED <<vars, loopPtr, userQuit>>

\* The test and the wait are one critical section of mutex_, as are the test
\* and the read of loop_.
StartLoopWaits ==
  /\ ownerPc = "testing"
  /\ ~loopPtr
  /\ ownerPc' = "waiting"
  /\ UNCHANGED <<vars, loopPtr, threadPc, userQuit>>

StartLoopReturns ==
  /\ ownerPc = "testing"
  /\ loopPtr
  /\ ownerPc' = "started"
  /\ UNCHANGED <<vars, loopPtr, threadPc, userQuit>>

\* The destructor reads loop_ without the mutex; if it is clear, it does not
\* wait for the thread ...
Destroy ==
  /\ ownerPc = "started"
  /\ Owner \notin pushed
  /\ ownerPc' = IF loopPtr THEN "quitting" ELSE "destroyed"
  /\ UNCHANGED <<vars, loopPtr, threadPc, userQuit>>

\* ... and if not, it calls quit() on what loop_ pointed to when it was read,
DestroyQuit ==
  /\ ownerPc = "quitting"
  /\ ownerPc' = "joining"
  /\ quit' = TRUE
  /\ UNCHANGED <<pc, looping, pending, callPending, batch, weakupFd, ready,
                 active, inCall, pushed, fresh, ran, early, loopPtr, threadPc,
                 userQuit>>

\* then waits for the thread.
Join ==
  /\ ownerPc = "joining"
  /\ threadPc = "finished"
  /\ ownerPc' = "destroyed"
  /\ UNCHANGED <<vars, loopPtr, threadPc, userQuit>>

-----------------------------------------------------------------------------
(* The thread.                                                             *)

\* weakup() ends the owner's wait, if it waits.
OwnerWoken_Not == ownerPc
OwnerWoken == IF ownerPc = "waiting" THEN "testing" ELSE ownerPc

Publish ==
  /\ threadPc = "starting"
  /\ threadPc' = "looping"
  /\ loopPtr' = TRUE
  /\ ownerPc' = OwnerWoken
  /\ UNCHANGED <<vars, userQuit>>

\* quit() by anyone but the destructor.  It counts only inside loop(), which
\* clears quit_ when it is entered.
UserQuits(t) ==
  /\ Quit(t)
  /\ userQuit' = (userQuit \/ looping)
  /\ UNCHANGED <<loopPtr, threadPc, ownerPc>>

\* loop(), with the callbacks and functors it runs.
Loop ==
  /\ threadPc = "looping"
  /\ \/ /\ \/ LoopStep
           \/ PollTimeout
           \/ inCall /\ \E f \in Functors : Push(LoopThread, f) \/ RunInline(f)
           \/ Weakup(LoopThread)
        /\ UNCHANGED threadVars
     \/ inCall /\ UserQuits(LoopThread)

\* loop() has returned: the thread takes mutex_ and clears loop_,
ClearLoop ==
  /\ threadPc = "looping"
  /\ pc = "stopped"
  /\ threadPc' = "clearing"
  /\ loopPtr' = FALSE
  /\ UNCHANGED <<vars, ownerPc, userQuit>>

\* releases it, and the EventLoop is gone with the thread's stack.
ThreadReturns ==
  /\ threadPc = "clearing"
  /\ threadPc' = "finished"
  /\ UNCHANGED <<vars, loopPtr, ownerPc, userQuit>>

\* Threads that were given the EventLoop call it until its owner destroys it.
Use(t) ==
  /\ t \in Workers
  /\ \/ /\ \/ ownerPc = "started" /\ \E f \in Functors : Push(t, f)
           \/ Weakup(t)
        /\ UNCHANGED threadVars
     \/ ownerPc = "started" /\ UserQuits(t)

\* Channels are registered by those who have the loop.
Input ==
  /\ threadPc = "looping"
  /\ ownerPc \notin {"testing", "waiting"}
  /\ \E ch \in Channels : FdReadable(ch)
  /\ UNCHANGED threadVars

OwnerNext ==
  \/ StartLoop \/ StartLoopWaits \/ StartLoopReturns
  \/ Destroy \/ DestroyQuit \/ Join

ThreadNext ==
  \/ OwnerNext
  \/ Publish \/ Loop \/ ClearLoop \/ ThreadReturns
  \/ \E t \in Workers : Use(t)
  \/ Input

ThreadSpec == ThreadInit /\ [][ThreadNext]_allVars

\* The thread is scheduled whenever it is not blocked, and epoll_wait does
\* time out; the owner finishes what it has begun.  Nothing makes the owner
\* call startLoop or the destructor.
ThreadFairness ==
  /\ WF_allVars(Publish)
  /\ WF_allVars(Loop)
  /\ WF_allVars(threadPc = "looping" /\ LoopStep /\ UNCHANGED threadVars)
  /\ WF_allVars(ClearLoop)
  /\ WF_allVars(ThreadReturns)
  /\ WF_allVars(StartLoopWaits)
  /\ WF_allVars(StartLoopReturns)
  /\ WF_allVars(DestroyQuit)
  /\ WF_allVars(Join)

ThreadFairSpec == ThreadSpec /\ ThreadFairness

-----------------------------------------------------------------------------
\* startLoop returns: whether the thread publishes its loop before the owner
\* tests loop_ or while it waits, the owner sees it, and nothing clears loop_
\* in between.
StartReturns == ownerPc \in {"testing", "waiting"} ~> ownerPc = "started"

\* What the owner and its users may rely on.  The EventLoop that startLoop
\* handed out is there until the destructor has quit it, unless somebody else
\* called quit() while it was inside loop(): a quit() that came earlier is
\* forgotten, and nothing else ends the thread.  The destructor never returns
\* while the thread is in loop(), and without such a quit() it has joined it:
\* only then is mutex_, which the thread locks at its end, not used any more.
OwnedLoopAlive ==
  /\ ownerPc \in {"started", "quitting"} /\ ~userQuit =>
       loopPtr /\ threadPc = "looping"
  /\ ownerPc = "destroyed" => threadPc \in {"clearing", "finished"}
  /\ ownerPc = "destroyed" /\ ~userQuit => threadPc = "finished"

\* The destructor returns when its quit() found the loop inside loop(), or
\* gone from there because of another quit(): the flag is seen at the next
\* test of the while, at the latest when epoll_wait times out.
JoinReturnsIfLooping ==
  (ownerPc = "joining" /\ pc # "created" /\ quit) ~> ownerPc = "destroyed"

=============================================================================
