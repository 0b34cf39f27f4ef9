----------------------------- MODULE ThreadPool -----------------------------
(***************************************************************************)
(* base/ThreadPool.cpp with base/CountDownLatch.cpp, base/BlockingQueue.h  *)
(* and the Condition they wait on, used as test/ThreadPool_test.cpp uses   *)
(* them: a main thread starts the pool, hands it tasks, waits on a latch   *)
(* that tasks count down, and stops the pool.  The other tasks put their   *)
(* results in a BlockingQueue that consumers take from, or throw, which    *)
(* ends the thread that runs them.                                         *)
(*                                                                         *)
(* A critical section is one step.  Main waits on the latch only, a        *)
(* consumer on the BlockingQueue only and a pool thread on pcond_ only, so *)
(* the pc of a thread says which condition it waits on.                    *)
(***************************************************************************)
EXTENDS Integers, Sequences, FiniteSets

CONSTANTS
  Main,                 \* the thread that owns the pool and the latch
  PoolThreads,          \* threads start may create
  Consumers,            \* threads that take from the BlockingQueue
  Tasks,                \* the tasks of a run, each handed over once
  Throwing,             \* those that throw
  Counting,             \* those that count the latch down
  LatchCount,           \* what the latch is constructed with
  NoTask                \* an empty std::function

ASSUME ThreadsAssumption ==
  /\ IsFiniteSet(PoolThreads) /\ IsFiniteSet(Consumers)
  /\ PoolThreads \cap Consumers = {} /\ Main \notin PoolThreads \cup Consumers
ASSUME TasksAssumption ==
  /\ Throwing \cup Counting \subseteq Tasks /\ Throwing \cap Counting = {}
  /\ NoTask \notin Tasks
ASSUME LatchAssumption == LatchCount \in Nat

Threads == {Main} \cup PoolThreads \cup Consumers

VARIABLES
  running,              \* running_
  threads,              \* threads_
  queue,                \* queue_ of the pool
  count,                \* count_ of the latch
  results,              \* queue_ of the BlockingQueue
  pc,                   \* where each thread is; "at" is at a while around a wait
  task,                 \* the task a pool thread has taken
  fresh,                \* tasks not handed over yet
  ran                   \* the tasks that were run

poolVars == <<running, threads, queue, task>>
doneVars == <<count, results, ran>>     \* what running a task may change
vars == <<poolVars, doneVars, pc, fresh>>

PCs == {"new", "test", "at", "wait", "exec", "done",
        "starting", "up", "joining"}

\* The types; threads that have not been created are "new", and nobody waits
\* on pcond_ once running_ is reset.
TypeOK ==
  /\ running \in BOOLEAN
  /\ threads \subseteq PoolThreads
  /\ queue \in Seq(Tasks)
  /\ count \in Int
  /\ results \in Seq(Tasks)
  /\ pc \in [Threads -> PCs]
  /\ task \in [PoolThreads -> Tasks \cup {NoTask}]
  /\ fresh \subseteq Tasks
  /\ ran \subseteq Tasks
  /\ \A t \in PoolThreads : pc[t] \in {"new", "test", "at", "wait", "exec", "done"}
  /\ \A t \in PoolThreads : pc[t] = "new" <=> t \notin threads
  /\ \A t \in PoolThreads : pc[t] = "exec" <=> task[t] # NoTask
  /\ \A t \in PoolThreads : pc[t] = "wait" => running
  /\ \A c \in Consumers : pc[c] \in {"new", "at", "wait"}

Init ==
  /\ running = FALSE
  /\ threads = {}
  /\ queue = <<>>
  /\ count = LatchCount
  /\ results = <<>>
  /\ pc = [t \in Threads |-> "new"]
  /\ task = [t \in PoolThreads |-> NoTask]
  /\ fresh = Tasks
  /\ ran = {}

-----------------------------------------------------------------------------
(* Condition: a signal wakes one of the threads of S that wait, if there is *)
(* one, a broadcast all of them; they look at their condition again.        *)

Waiting(where, S) == {t \in S : where[t] = "wait"}

Weakup(where, S) ==
  IF Waiting(where, S) = {} THEN {where}
  ELSE {[where EXCEPT ![t] = "at"] : t \in Waiting(where, S)}
WeakupAll(where, S) ==
  [t \in Threads |-> IF t \in Waiting(where, S) THEN "at" ELSE where[t]]

\* pthread_cond_wait may return without a signal.
Spurious(t) ==
  /\ pc[t] = "wait"
  /\ pc' = [pc EXCEPT ![t] = "at"]
  /\ UNCHANGED <<poolVars, doneVars, fresh>>

Go(t, where) == pc' = [pc EXCEPT ![t] = where]

-----------------------------------------------------------------------------
(* What a task does when it is run, and where its caller goes on. *)

\* countDown broadcasts when it reaches zero, and only then.
Opens(c) == c = 0

\* A mistake: the signal is forgotten.
Put_Silent(where, S) == {where}
\* put's signal.
Put(where, S) == Weakup(where, S)

Perform(tk, where) ==
  IF tk \in Counting THEN
    /\ count' = count - 1
    /\ pc' = IF Opens(count - 1) THEN WeakupAll(where, {Main}) ELSE where
    /\ UNCHANGED results
  ELSE IF tk \in Throwing THEN
    /\ pc' = where
    /\ UNCHANGED <<count, results>>
  ELSE
    /\ results' = Append(results, tk)
    /\ pc' \in Put(where, Consumers)
    /\ UNCHANGED count

-----------------------------------------------------------------------------
(* The callers of the pool. *)

Start ==
  /\ pc[Main] = "new"
  /\ running' = TRUE
  /\ Go(Main, "starting")
  /\ UNCHANGED <<threads, queue, task, doneVars, fresh>>

\* One turn of start's loop; the number of turns is the caller's choice.
StartThread(t) ==
  /\ pc[Main] = "starting"
  /\ t \notin threads
  /\ threads' = threads \cup {t}
  /\ Go(t, "test")
  /\ UNCHANGED <<running, queue, task, doneVars, fresh>>

StartReturns ==
  /\ pc[Main] = "starting"
  /\ Go(Main, "up")
  /\ UNCHANGED <<poolVars, doneVars, fresh>>

\* A mistake: a signal only for the first task of an empty queue.
PushWakes_IfEmpty(where) == IF queue = <<>> THEN Weakup(where, PoolThreads) ELSE {where}
PushWakes(where) == Weakup(where, PoolThreads)

\* run, from any thread, a task among them, once start has returned: without
\* threads the task is run by the caller.
Run(tk) ==
  /\ pc[Main] \notin {"new", "starting"}
  /\ tk \in fresh
  /\ fresh' = fresh \ {tk}
  /\ IF threads = {}
       THEN /\ ran' = ran \cup {tk}
            /\ Perform(tk, pc)
            /\ UNCHANGED queue
       ELSE /\ queue' = Append(queue, tk)
            /\ pc' \in PushWakes(pc)
            /\ UNCHANGED doneVars
  /\ UNCHANGED <<running, threads, task>>

\* The latch: main calls wait, and looks at count_ now and when it is woken.
LatchCall ==
  /\ pc[Main] = "up"
  /\ Go(Main, "at")
  /\ UNCHANGED <<poolVars, doneVars, fresh>>

LatchWait ==
  /\ pc[Main] = "at"
  /\ Go(Main, IF count > 0 THEN "wait" ELSE "up")
  /\ UNCHANGED <<poolVars, doneVars, fresh>>

\* A mistake: a signal in place of the broadcast.
StopWakes_One(where) == Weakup(where, PoolThreads)
StopWakes(where) == {WeakupAll(where, PoolThreads)}

\* stop's critical section, and the joins.
Stop ==
  /\ pc[Main] = "up"
  /\ running' = FALSE
  /\ \E where \in StopWakes(pc) : pc' = [where EXCEPT ![Main] = "joining"]
  /\ UNCHANGED <<threads, queue, task, doneVars, fresh>>

Join ==
  /\ pc[Main] = "joining"
  /\ \A t \in threads : pc[t] = "done"
  /\ Go(Main, "done")
  /\ UNCHANGED <<poolVars, doneVars, fresh>>

-----------------------------------------------------------------------------
(* The pool's threads. *)

\* while(running_) in runInqueue, without the mutex.
TestRunning(t) ==
  /\ pc[t] = "test"
  /\ Go(t, IF running THEN "at" ELSE "done")
  /\ UNCHANGED <<poolVars, doneVars, fresh>>

MustWait == running /\ queue = <<>>

\* take: waits, takes the first task, or returns an empty one after a stop.
Take(t) ==
  /\ pc[t] = "at"
  /\ IF MustWait THEN Go(t, "wait") /\ UNCHANGED <<queue, task>>
     ELSE IF queue = <<>> THEN Go(t, "test") /\ UNCHANGED <<queue, task>>
     ELSE /\ Go(t, "exec")
          /\ task' = [task EXCEPT ![t] = Head(queue)]
          /\ queue' = Tail(queue)
  /\ UNCHANGED <<running, threads, doneVars, fresh>>

\* The task is run; an exception ends runInqueue.
Exec(t) ==
  /\ pc[t] = "exec"
  /\ ran' = ran \cup {task[t]}
  /\ Perform(task[t],
             [pc EXCEPT ![t] = IF task[t] \in Throwing THEN "done" ELSE "test"])
  /\ task' = [task EXCEPT ![t] = NoTask]
  /\ UNCHANGED <<running, threads, queue, fresh>>

-----------------------------------------------------------------------------
(* The consumers of the BlockingQueue. *)

TakeCall(c) ==
  /\ pc[c] = "new"
  /\ Go(c, "at")
  /\ UNCHANGED <<poolVars, doneVars, fresh>>

TakeResult(c) ==
  /\ pc[c] = "at"
  /\ IF results = <<>> THEN Go(c, "wait") /\ UNCHANGED results
     ELSE Go(c, "new") /\ results' = Tail(results)
  /\ UNCHANGED <<poolVars, count, ran, fresh>>

-----------------------------------------------------------------------------
PoolStep(t) == TestRunning(t) \/ Take(t) \/ Exec(t)

Next ==
  \/ Start \/ StartReturns \/ LatchCall \/ LatchWait \/ Stop \/ Join
  \/ \E t \in PoolThreads : StartThread(t) \/ PoolStep(t)
  \/ \E tk \in Tasks : Run(tk)
  \/ \E c \in Consumers : TakeCall(c) \/ TakeResult(c)
  \/ \E t \in Threads : Spurious(t)

Spec == Init /\ [][Next]_vars

\* Threads that do not wait go on.  Nothing makes main call anything, and no
\* wait ends without a signal for certain; a consumer calls take again.
Fairness ==
  /\ WF_vars(LatchWait) /\ WF_vars(Join)
  /\ \A t \in PoolThreads : WF_vars(PoolStep(t))
  /\ \A c \in Consumers : WF_vars(TakeCall(c) \/ TakeResult(c))

FairSpec == Spec /\ Fairness

-----------------------------------------------------------------------------
\* No signal is lost, although it is given once and wakes one thread, and a
\* thread that was on its way may take the task first: while a thread waits,
\* as many threads as there are tasks in queue_ are on their way to take them.
\* The same of the BlockingQueue; and nobody waits for a latch that is open.
NoStranded(S, items) ==
  Waiting(pc, S) # {} =>
    Len(items) <= Cardinality({t \in S : pc[t] \in {"test", "at"}})
NoSignalLost ==
  /\ NoStranded(PoolThreads, queue)
  /\ NoStranded(Consumers, results)
  /\ pc[Main] = "wait" => count > 0

\* Every thread the pool has was ended by a task that threw.
PoolDead == threads # {} /\ \A t \in threads : pc[t] = "done"

\* A task that was handed over is run, unless the pool is stopped or dead.
TasksRun ==
  \A tk \in Tasks :
    tk \notin fresh ~> tk \in ran \/ ~running \/ PoolDead

\* stop returns, whatever the threads are doing: busy ones see running_, the
\* waiting ones are woken.
StopReturns == pc[Main] = "joining" ~> pc[Main] = "done"

=============================================================================
