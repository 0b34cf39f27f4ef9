-------------------------- MODULE ThreadPoolProofs --------------------------
(***************************************************************************)
(* For any number of threads, consumers and tasks: no signal of the pool,  *)
(* of the BlockingQueue or of the latch is lost.  A thread is ready if it  *)
(* is at, or on its way to, the while around its wait: a signal or a turn  *)
(* of the loop makes one more of them, a task taken one less.              *)
(***************************************************************************)
EXTENDS ThreadPool, FiniteSetTheorems, TLAPS

USE ThreadsAssumption, TasksAssumption, LatchAssumption

OnTheWay == {"test", "at"}
Ready(where, S) == {t \in S : where[t] \in OnTheWay}

\* NoStranded, of any state of the threads.
Stranded(where, S, n) ==
  Waiting(where, S) # {} => n <= Cardinality(Ready(where, S))

-----------------------------------------------------------------------------
(* How the number of those that are ready changes. *)

\* The threads ready at a place are finitely many.
LEMMA ReadyFinite ==
  ASSUME NEW S, IsFiniteSet(S), NEW where
  PROVE  IsFiniteSet(Ready(where, S)) /\ Cardinality(Ready(where, S)) \in Nat
<1>1. Ready(where, S) \in SUBSET S
  BY DEF Ready
<1>2. QED
  BY <1>1, FS_Subset, FS_CardinalityType

\* Nobody begins to wait, and who is ready stays so.
LEMMA KeepStranded ==
  ASSUME NEW S, IsFiniteSet(S), NEW w, NEW v, NEW n \in Nat, Stranded(w, S, n),
         \A t \in S : /\ w[t] \in OnTheWay => v[t] \in OnTheWay
                      /\ v[t] = "wait" => w[t] = "wait"
  PROVE  Stranded(v, S, n)
<1>1. Ready(w, S) \in SUBSET Ready(v, S)
  BY DEF Ready
<1>2. Cardinality(Ready(w, S)) <= Cardinality(Ready(v, S))
  BY <1>1, ReadyFinite, FS_Subset
<1>3. Waiting(v, S) # {} => Waiting(w, S) # {}
  BY DEF Waiting
<1>4. Cardinality(Ready(w, S)) \in Nat /\ Cardinality(Ready(v, S)) \in Nat
  BY ReadyFinite
<1>5. QED
  BY <1>2, <1>3, <1>4 DEF Stranded

\* One more is ready, for one more to take.
LEMMA AddStranded ==
  ASSUME NEW S, IsFiniteSet(S), NEW w, NEW v, NEW n \in Nat, Stranded(w, S, n),
         NEW x \in S, w[x] \notin OnTheWay, v[x] \in OnTheWay,
         \A t \in S : /\ w[t] \in OnTheWay => v[t] \in OnTheWay
                      /\ v[t] = "wait" => w[t] = "wait"
  PROVE  Stranded(v, S, n + 1)
<1>1. Ready(w, S) \cup {x} \in SUBSET Ready(v, S) /\ x \notin Ready(w, S)
  BY DEF Ready
<1>2. Cardinality(Ready(w, S) \cup {x}) = Cardinality(Ready(w, S)) + 1
  BY <1>1, ReadyFinite, FS_AddElement
<1>3. Cardinality(Ready(w, S) \cup {x}) <= Cardinality(Ready(v, S))
  BY <1>1, ReadyFinite, FS_Subset
<1>4. Waiting(v, S) # {} => Waiting(w, S) # {}
  BY DEF Waiting
<1>5. Cardinality(Ready(w, S)) \in Nat /\ Cardinality(Ready(v, S)) \in Nat
  BY ReadyFinite
<1>6. QED
  BY <1>2, <1>3, <1>4, <1>5 DEF Stranded

\* One is gone, and with it what it took.
LEMMA RemoveStranded ==
  ASSUME NEW S, IsFiniteSet(S), NEW w, NEW v, NEW n \in Nat, Stranded(w, S, n + 1),
         NEW x \in S, v[x] # "wait", \A t \in S \ {x} : v[t] = w[t]
  PROVE  Stranded(v, S, n)
<1>1. Ready(w, S) \ {x} \in SUBSET Ready(v, S)
  BY DEF Ready
<1>2. /\ Cardinality(Ready(w, S) \ {x}) =
           IF x \in Ready(w, S) THEN Cardinality(Ready(w, S)) - 1
           ELSE Cardinality(Ready(w, S))
  BY ReadyFinite, FS_RemoveElement
<1>3. Cardinality(Ready(w, S) \ {x}) <= Cardinality(Ready(v, S))
  BY <1>1, ReadyFinite, FS_Subset
<1>4. Waiting(v, S) # {} => Waiting(w, S) # {}
  BY DEF Waiting
<1>5. Cardinality(Ready(w, S)) \in Nat /\ Cardinality(Ready(v, S)) \in Nat
  BY ReadyFinite
<1>6. QED
  BY <1>2, <1>3, <1>4, <1>5 DEF Stranded

\* A signal, for one more to take.
LEMMA SignalStranded ==
  ASSUME NEW S \in SUBSET Threads, IsFiniteSet(S), NEW w \in [Threads -> PCs],
         NEW v \in Weakup(w, S), NEW n \in Nat, Stranded(w, S, n)
  PROVE  Stranded(v, S, n + 1)
<1>1. CASE Waiting(w, S) = {}
  <2>1. v = w
    BY <1>1 DEF Weakup
  <2>2. QED
    BY <1>1, <2>1 DEF Stranded
<1>2. CASE Waiting(w, S) # {}
  <2>1. PICK x \in Waiting(w, S) : v = [w EXCEPT ![x] = "at"]
    BY <1>2 DEF Weakup
  <2>2. x \in S /\ w[x] = "wait" /\ v[x] = "at"
    BY <2>1 DEF Waiting
  <2>3. \A t \in S : t # x => v[t] = w[t]
    BY <2>1
  <2>4. \A t \in S : /\ w[t] \in OnTheWay => v[t] \in OnTheWay
                     /\ v[t] = "wait" => w[t] = "wait"
    BY <2>2, <2>3 DEF OnTheWay
  <2>5. w[x] \notin OnTheWay /\ v[x] \in OnTheWay
    BY <2>2 DEF OnTheWay
  <2>6. QED
    BY <2>2, <2>4, <2>5, AddStranded
<1>3. QED
  BY <1>1, <1>2

-----------------------------------------------------------------------------
\* A signal or a broadcast moves threads of its condition only, and from their
\* wait to the while around it.
Woken(w, v, S) ==
  /\ v \in [Threads -> PCs]
  /\ \A t \in Threads : v[t] = w[t] \/ (t \in S /\ w[t] = "wait" /\ v[t] = "at")

\* A signal moves waiters of its condition only.
LEMMA WeakupWoken ==
  ASSUME NEW S \in SUBSET Threads, NEW w \in [Threads -> PCs], NEW v \in Weakup(w, S)
  PROVE  Woken(w, v, S)
<1>1. CASE Waiting(w, S) = {}
  BY <1>1 DEF Weakup, Woken
<1>2. CASE Waiting(w, S) # {}
  <2>1. PICK x \in Waiting(w, S) : v = [w EXCEPT ![x] = "at"]
    BY <1>2 DEF Weakup
  <2>2. QED
    BY <2>1 DEF Waiting, Woken, PCs
<1>3. QED
  BY <1>1, <1>2

\* A broadcast moves every waiter of its condition.
LEMMA WeakupAllWoken ==
  ASSUME NEW S \in SUBSET Threads, NEW w \in [Threads -> PCs]
  PROVE  Woken(w, WeakupAll(w, S), S) /\ Waiting(WeakupAll(w, S), S) = {}
BY DEF WeakupAll, Waiting, Woken, PCs

-----------------------------------------------------------------------------
\* What running a task does, on a pool thread or in run.
LEMMA PerformEffect ==
  ASSUME TypeOK, NEW tk \in Tasks, NEW w \in [Threads -> PCs], Perform(tk, w)
  PROVE  /\ count' \in Int /\ results' \in Seq(Tasks)
         /\ Woken(w, pc', {Main} \cup Consumers)
         /\ \/ count' = count /\ pc'[Main] = w[Main]
            \/ count' = count - 1 /\ (pc'[Main] = "wait" => count' # 0 /\ w[Main] = "wait")
         /\ Stranded(w, Consumers, Len(results)) => Stranded(pc', Consumers, Len(results'))
<1>0. /\ count \in Int /\ results \in Seq(Tasks) /\ Len(results) \in Nat
      /\ {Main} \in SUBSET Threads /\ Consumers \in SUBSET Threads
      /\ Main \notin Consumers
  BY DEF TypeOK, Threads
<1>1. CASE tk \in Counting
  <2>1. count' = count - 1 /\ results' = results
    BY <1>1 DEF Perform
  <2>2. CASE count - 1 = 0
    <3>1. pc' = WeakupAll(w, {Main})
      BY <1>1, <2>2 DEF Perform, Opens
    <3>2. Woken(w, pc', {Main}) /\ Waiting(pc', {Main}) = {}
      BY <1>0, <3>1, WeakupAllWoken
    <3>3. pc'[Main] # "wait"
      BY <3>2 DEF Waiting
    <3>4. \A t \in Consumers : pc'[t] = w[t]
      BY <1>0, <3>2 DEF Woken
    <3>5. \A t \in Consumers : /\ w[t] \in OnTheWay => pc'[t] \in OnTheWay
                               /\ pc'[t] = "wait" => w[t] = "wait"
      BY <3>4
    <3>6. Stranded(w, Consumers, Len(results)) => Stranded(pc', Consumers, Len(results'))
      BY <1>0, <2>1, <3>5, KeepStranded
    <3>7. Woken(w, pc', {Main} \cup Consumers)
      BY <3>2 DEF Woken
    <3>8. QED
      BY <1>0, <2>1, <3>3, <3>6, <3>7
  <2>3. CASE count - 1 # 0
    <3>1. pc' = w
      BY <1>1, <2>3 DEF Perform, Opens
    <3>2. QED
      BY <1>0, <2>1, <2>3, <3>1 DEF Woken
  <2>4. QED
    BY <2>2, <2>3
<1>2. CASE tk \notin Counting /\ tk \in Throwing
  <2>1. count' = count /\ results' = results /\ pc' = w
    BY <1>2 DEF Perform
  <2>2. QED
    BY <1>0, <2>1 DEF Woken
<1>3. CASE tk \notin Counting /\ tk \notin Throwing
  <2>1. count' = count /\ results' = Append(results, tk) /\ pc' \in Weakup(w, Consumers)
    BY <1>3 DEF Perform, Put
  <2>2. results' \in Seq(Tasks) /\ Len(results') = Len(results) + 1
    BY <1>0, <2>1
  <2>3. PICK v : v = pc'
    OBVIOUS
  <2>4. v \in Weakup(w, Consumers)
    BY <2>1, <2>3
  <2>5. Woken(w, v, Consumers)
    BY <1>0, <2>4, WeakupWoken
  <2>6. Stranded(w, Consumers, Len(results)) => Stranded(v, Consumers, Len(results) + 1)
    BY <1>0, <2>4, SignalStranded
  <2>7. v[Main] = w[Main] /\ Woken(w, v, {Main} \cup Consumers)
    BY <1>0, <2>5 DEF Woken, Threads
  <2>8. QED
    BY <1>0, <2>1, <2>2, <2>3, <2>6, <2>7
<1>4. QED
  BY <1>1, <1>2, <1>3

-----------------------------------------------------------------------------
\* The part of TypeOK that is about the threads.
PoolTypes(w, n, tk, r) ==
  /\ \A t \in PoolThreads : w[t] \in {"new", "test", "at", "wait", "exec", "done"}
  /\ \A t \in PoolThreads : w[t] = "new" <=> t \notin n
  /\ \A t \in PoolThreads : w[t] = "exec" <=> tk[t] # NoTask
  /\ \A t \in PoolThreads : w[t] = "wait" => r
  /\ \A c \in Consumers : w[c] \in {"new", "at", "wait"}

\* A wake-up keeps it.
LEMMA WokenTypes ==
  ASSUME NEW w, NEW v, NEW S, NEW n, NEW tk, NEW r, Woken(w, v, S),
         PoolTypes(w, n, tk, r)
  PROVE  PoolTypes(v, n, tk, r)
<1>1. \A t \in PoolThreads \cup Consumers :
        v[t] = w[t] \/ (w[t] = "wait" /\ v[t] = "at")
  BY DEF Woken, Threads
<1>2. QED
  BY <1>1 DEF PoolTypes

\* Every step keeps the types.
LEMMA TypeStep == TypeOK /\ [Next]_vars => TypeOK'
<1> SUFFICES ASSUME TypeOK, [Next]_vars
             PROVE  TypeOK'
  OBVIOUS
<1>0. /\ running \in BOOLEAN /\ threads \subseteq PoolThreads /\ queue \in Seq(Tasks)
      /\ count \in Int /\ results \in Seq(Tasks) /\ pc \in [Threads -> PCs]
      /\ task \in [PoolThreads -> Tasks \cup {NoTask}]
      /\ fresh \subseteq Tasks /\ ran \subseteq Tasks
      /\ PoolTypes(pc, threads, task, running)
      /\ Main \in Threads /\ PoolThreads \in SUBSET Threads /\ Consumers \in SUBSET Threads
  BY DEF TypeOK, PoolTypes, Threads
<1>a. ASSUME running' \in BOOLEAN, threads' \subseteq PoolThreads, queue' \in Seq(Tasks),
             count' \in Int, results' \in Seq(Tasks), pc' \in [Threads -> PCs],
             task' \in [PoolThreads -> Tasks \cup {NoTask}],
             fresh' \subseteq Tasks, ran' \subseteq Tasks,
             PoolTypes(pc', threads', task', running')
      PROVE  TypeOK'
  BY <1>a DEF TypeOK, PoolTypes
<1>b. ASSUME NEW p \in PCs, Go(Main, p), UNCHANGED <<poolVars, doneVars, fresh>>
      PROVE  TypeOK'
  <2>1. pc' \in [Threads -> PCs] /\ \A t \in PoolThreads \cup Consumers : pc'[t] = pc[t]
    BY <1>0, <1>b DEF Go
  <2>2. PoolTypes(pc', threads', task', running')
    BY <1>0, <1>b, <2>1 DEF PoolTypes, poolVars
  <2>3. QED
    BY <1>0, <1>a, <1>b, <2>1, <2>2 DEF poolVars, doneVars
<1>1. CASE Start
  <2>1. /\ pc' = [pc EXCEPT ![Main] = "starting"] /\ running' = TRUE
        /\ UNCHANGED <<threads, queue, task, doneVars, fresh>>
    BY <1>1 DEF Start, Go
  <2>2. pc' \in [Threads -> PCs] /\ \A t \in PoolThreads \cup Consumers : pc'[t] = pc[t]
    BY <1>0, <2>1 DEF PCs
  <2>3. PoolTypes(pc', threads', task', running')
    BY <1>0, <2>1, <2>2 DEF PoolTypes
  <2>4. QED
    BY <1>0, <1>a, <2>1, <2>2, <2>3 DEF doneVars
<1>2. CASE StartReturns
  BY <1>2, <1>b DEF StartReturns, PCs
<1>3. CASE LatchCall
  BY <1>3, <1>b DEF LatchCall, PCs
<1>4. CASE LatchWait
  <2>1. PICK p \in {"wait", "up"} : Go(Main, p)
    BY <1>4 DEF LatchWait
  <2>2. QED
    BY <1>4, <1>b, <2>1 DEF LatchWait, PCs
<1>5. CASE Stop
  <2>1. PICK v : v = WeakupAll(pc, PoolThreads)
    OBVIOUS
  <2>2. Woken(pc, v, PoolThreads) /\ Waiting(v, PoolThreads) = {}
    BY <1>0, <2>1, WeakupAllWoken
  <2>3. /\ pc' = [v EXCEPT ![Main] = "joining"] /\ running' = FALSE
        /\ UNCHANGED <<threads, queue, task, doneVars, fresh>>
    BY <1>5, <2>1 DEF Stop, StopWakes
  <2>4. pc' \in [Threads -> PCs] /\ \A t \in PoolThreads \cup Consumers : pc'[t] = v[t]
    BY <1>0, <2>2, <2>3 DEF Woken, PCs
  <2>5. PoolTypes(v, threads, task, running)
    BY <1>0, <2>2, WokenTypes
  <2>6. \A t \in PoolThreads : v[t] # "wait"
    BY <2>2 DEF Waiting
  <2>7. PoolTypes(pc', threads', task', running')
    BY <2>3, <2>4, <2>5, <2>6 DEF PoolTypes
  <2>8. QED
    BY <1>0, <1>a, <2>3, <2>4, <2>7 DEF doneVars
<1>6. CASE Join
  BY <1>6, <1>b DEF Join, PCs
<1>7. ASSUME NEW t \in PoolThreads, StartThread(t)
      PROVE  TypeOK'
  <2>1. /\ pc' = [pc EXCEPT ![t] = "test"] /\ threads' = threads \cup {t}
        /\ t \notin threads /\ UNCHANGED <<running, queue, task, doneVars, fresh>>
    BY <1>7 DEF StartThread, Go
  <2>2. pc' \in [Threads -> PCs] /\ threads' \subseteq PoolThreads
    BY <1>0, <2>1 DEF PCs
  <2>3. PoolTypes(pc', threads', task', running')
    BY <1>0, <2>1 DEF PoolTypes
  <2>4. QED
    BY <1>0, <1>a, <2>1, <2>2, <2>3 DEF doneVars
<1>8. ASSUME NEW t \in PoolThreads, TestRunning(t)
      PROVE  TypeOK'
  <2>1. PICK p \in {"at", "done"} : pc' = [pc EXCEPT ![t] = p]
    BY <1>8 DEF TestRunning, Go
  <2>2. pc[t] = "test" /\ UNCHANGED <<poolVars, doneVars, fresh>>
    BY <1>8 DEF TestRunning
  <2>3. pc' \in [Threads -> PCs]
    BY <1>0, <2>1 DEF PCs
  <2>4. PoolTypes(pc', threads', task', running')
    BY <1>0, <2>1, <2>2 DEF PoolTypes, poolVars
  <2>5. QED
    BY <1>0, <1>a, <2>2, <2>3, <2>4 DEF poolVars, doneVars
<1>9. ASSUME NEW t \in PoolThreads, Take(t)
      PROVE  TypeOK'
  <2>1. pc[t] = "at" /\ UNCHANGED <<running, threads, doneVars, fresh>>
    BY <1>9 DEF Take
  <2>2. CASE MustWait
    <3>1. pc' = [pc EXCEPT ![t] = "wait"] /\ UNCHANGED <<queue, task>> /\ running
      BY <1>9, <2>2 DEF Take, Go, MustWait
    <3>2. pc' \in [Threads -> PCs]
      BY <1>0, <3>1 DEF PCs
    <3>3. PoolTypes(pc', threads', task', running')
      BY <1>0, <2>1, <3>1 DEF PoolTypes
    <3>4. QED
      BY <1>0, <1>a, <2>1, <3>1, <3>2, <3>3 DEF doneVars
  <2>3. CASE ~MustWait /\ queue = <<>>
    <3>1. pc' = [pc EXCEPT ![t] = "test"] /\ UNCHANGED <<queue, task>>
      BY <1>9, <2>3 DEF Take, Go
    <3>2. pc' \in [Threads -> PCs]
      BY <1>0, <3>1 DEF PCs
    <3>3. PoolTypes(pc', threads', task', running')
      BY <1>0, <2>1, <3>1 DEF PoolTypes
    <3>4. QED
      BY <1>0, <1>a, <2>1, <3>1, <3>2, <3>3 DEF doneVars
  <2>4. CASE ~MustWait /\ queue # <<>>
    <3>1. /\ pc' = [pc EXCEPT ![t] = "exec"] /\ queue' = Tail(queue)
          /\ task' = [task EXCEPT ![t] = Head(queue)]
      BY <1>9, <2>4 DEF Take, Go
    <3>2. Head(queue) \in Tasks /\ Tail(queue) \in Seq(Tasks)
      BY <1>0, <2>4
    <3>3. pc' \in [Threads -> PCs] /\ task' \in [PoolThreads -> Tasks \cup {NoTask}]
      BY <1>0, <3>1, <3>2 DEF PCs
    <3>4. PoolTypes(pc', threads', task', running')
      <4>1. Head(queue) # NoTask
        BY <3>2
      <4>2. \A u \in PoolThreads : u # t => pc'[u] = pc[u] /\ task'[u] = task[u]
        BY <1>0, <3>1
      <4>3. pc'[t] = "exec" /\ task'[t] # NoTask
        BY <1>0, <3>1, <4>1
      <4>4. \A c \in Consumers : pc'[c] = pc[c]
        BY <1>0, <3>1
      <4>5. QED
        BY <1>0, <2>1, <4>2, <4>3, <4>4 DEF PoolTypes
    <3>5. QED
      BY <1>0, <1>a, <2>1, <3>1, <3>2, <3>3, <3>4 DEF doneVars
  <2>5. QED
    BY <2>2, <2>3, <2>4
<1>10. ASSUME NEW t \in PoolThreads, Exec(t)
       PROVE  TypeOK'
  <2>1. PICK w : w = [pc EXCEPT ![t] = IF task[t] \in Throwing THEN "done" ELSE "test"]
    OBVIOUS
  <2>2. /\ pc[t] = "exec" /\ ran' = ran \cup {task[t]} /\ Perform(task[t], w)
        /\ task' = [task EXCEPT ![t] = NoTask]
        /\ UNCHANGED <<running, threads, queue, fresh>>
    BY <1>10, <2>1 DEF Exec
  <2>3. task[t] \in Tasks
    BY <1>0, <2>2 DEF PoolTypes
  <2>4. w \in [Threads -> PCs]
    BY <1>0, <2>1 DEF PCs
  <2>5. count' \in Int /\ results' \in Seq(Tasks) /\ Woken(w, pc', {Main} \cup Consumers)
    BY <2>2, <2>3, <2>4, PerformEffect
  <2>6. PoolTypes(w, threads, task', running)
    <3>1. \A u \in PoolThreads : u # t => w[u] = pc[u] /\ task'[u] = task[u]
      BY <1>0, <2>1, <2>2
    <3>2. w[t] \in {"done", "test"} /\ task'[t] = NoTask
      BY <1>0, <2>1, <2>2
    <3>3. \A c \in Consumers : w[c] = pc[c]
      BY <1>0, <2>1
    <3>4. QED
      BY <1>0, <2>2, <3>1, <3>2, <3>3 DEF PoolTypes
  <2>7. PoolTypes(pc', threads', task', running')
    BY <2>2, <2>5, <2>6, WokenTypes
  <2>8. pc' \in [Threads -> PCs] /\ task' \in [PoolThreads -> Tasks \cup {NoTask}]
    BY <1>0, <2>2, <2>5 DEF Woken
  <2>9. QED
    BY <1>0, <1>a, <2>2, <2>3, <2>5, <2>7, <2>8
<1>11. ASSUME NEW tk \in Tasks, Run(tk)
       PROVE  TypeOK'
  <2>1. fresh' = fresh \ {tk} /\ UNCHANGED <<running, threads, task>>
    BY <1>11 DEF Run
  <2>2. CASE threads = {}
    <3>1. ran' = ran \cup {tk} /\ Perform(tk, pc) /\ queue' = queue
      BY <1>11, <2>2 DEF Run
    <3>2. count' \in Int /\ results' \in Seq(Tasks) /\ Woken(pc, pc', {Main} \cup Consumers)
      BY <1>0, <3>1, PerformEffect
    <3>3. PoolTypes(pc', threads', task', running') /\ pc' \in [Threads -> PCs]
      BY <1>0, <2>1, <3>2, WokenTypes DEF Woken
    <3>4. QED
      BY <1>0, <1>a, <2>1, <3>1, <3>2, <3>3
  <2>3. CASE threads # {}
    <3>1. queue' = Append(queue, tk) /\ pc' \in Weakup(pc, PoolThreads) /\ UNCHANGED doneVars
      BY <1>11, <2>3 DEF Run, PushWakes
    <3>2. PICK v : v = pc'
      OBVIOUS
    <3>3. Woken(pc, v, PoolThreads)
      BY <1>0, <3>1, <3>2, WeakupWoken
    <3>4. PoolTypes(pc', threads', task', running') /\ pc' \in [Threads -> PCs]
      BY <1>0, <2>1, <3>2, <3>3, WokenTypes DEF Woken
    <3>5. QED
      BY <1>0, <1>a, <2>1, <3>1, <3>4 DEF doneVars
  <2>4. QED
    BY <2>2, <2>3
<1>12. ASSUME NEW c \in Consumers, NEW p \in {"new", "at", "wait"}, Go(c, p),
              results' \in Seq(Tasks), UNCHANGED <<poolVars, count, ran, fresh>>
       PROVE  TypeOK'
  <2>1. pc' \in [Threads -> PCs]
    BY <1>0, <1>12 DEF Go, PCs
  <2>2. PoolTypes(pc', threads', task', running')
    BY <1>0, <1>12 DEF PoolTypes, Go, poolVars
  <2>3. QED
    BY <1>0, <1>a, <1>12, <2>1, <2>2 DEF poolVars
<1>13. ASSUME NEW c \in Consumers, TakeCall(c)
       PROVE  TypeOK'
  BY <1>0, <1>12, <1>13 DEF TakeCall, doneVars
<1>14. ASSUME NEW c \in Consumers, TakeResult(c)
       PROVE  TypeOK'
  <2>1. CASE results = <<>>
    BY <1>0, <1>12, <1>14, <2>1 DEF TakeResult
  <2>2. CASE results # <<>>
    <3>1. Go(c, "new") /\ results' = Tail(results) /\ UNCHANGED <<poolVars, count, ran, fresh>>
      BY <1>14, <2>2 DEF TakeResult
    <3>2. Tail(results) \in Seq(Tasks)
      BY <1>0, <2>2
    <3>3. QED
      BY <1>12, <3>1, <3>2
  <2>3. QED
    BY <2>1, <2>2
<1>15. ASSUME NEW t \in Threads, Spurious(t)
       PROVE  TypeOK'
  <2>1. /\ pc[t] = "wait" /\ pc' = [pc EXCEPT ![t] = "at"]
        /\ UNCHANGED <<poolVars, doneVars, fresh>>
    BY <1>15 DEF Spurious
  <2>2. pc' \in [Threads -> PCs]
    BY <1>0, <2>1 DEF PCs
  <2>3. PoolTypes(pc', threads', task', running')
    BY <1>0, <2>1 DEF PoolTypes, poolVars
  <2>4. QED
    BY <1>0, <1>a, <2>1, <2>2, <2>3 DEF poolVars, doneVars
<1>16. CASE UNCHANGED vars
  BY <1>0, <1>a, <1>16 DEF vars, poolVars, doneVars
<1>17. QED
  BY <1>1, <1>2, <1>3, <1>4, <1>5, <1>6, <1>7, <1>8, <1>9, <1>10, <1>11, <1>13,
     <1>14, <1>15, <1>16 DEF Next, PoolStep

\* The types hold at the start.
LEMMA TypeInit == Init => TypeOK
<1> SUFFICES ASSUME Init
             PROVE  TypeOK
  OBVIOUS
<1>1. pc \in [Threads -> PCs] /\ \A t \in Threads : pc[t] = "new"
  BY DEF Init, PCs
<1>2. task \in [PoolThreads -> Tasks \cup {NoTask}] /\ \A t \in PoolThreads : task[t] = NoTask
  BY DEF Init
<1>3. PoolThreads \in SUBSET Threads /\ Consumers \in SUBSET Threads
  BY DEF Threads
<1>4. running \in BOOLEAN
  <2>1. running = FALSE
    BY DEF Init
  <2>2. QED
    BY <2>1
<1>5. threads = {} /\ fresh \subseteq Tasks /\ ran \subseteq Tasks
  BY DEF Init
<1>6. queue \in Seq(Tasks) /\ results \in Seq(Tasks)
  <2>1. queue = <<>> /\ results = <<>>
    BY DEF Init
  <2>2. QED
    BY <2>1
<1>7. count \in Int
  BY DEF Init
<1>8. QED
  BY <1>1, <1>2, <1>3, <1>4, <1>5, <1>6, <1>7 DEF TypeOK

\* The types; a thread that has been created and not ended runs, and nobody
\* waits on pcond_ once running_ is reset.
THEOREM TypeCorrect == Spec => []TypeOK
BY TypeInit, TypeStep, PTL DEF Spec

-----------------------------------------------------------------------------
(* No signal is lost. *)

SignalInv ==
  /\ Stranded(pc, PoolThreads, Len(queue))
  /\ Stranded(pc, Consumers, Len(results))
  /\ pc[Main] = "wait" => count > 0

\* Nothing waits for a signal at the start.
LEMMA SignalInit == Init => SignalInv
<1> SUFFICES ASSUME Init
             PROVE  SignalInv
  OBVIOUS
<1>1. \A t \in Threads : pc[t] = "new"
  BY DEF Init
<1>2. Waiting(pc, PoolThreads) = {} /\ Waiting(pc, Consumers) = {}
  BY <1>1 DEF Waiting, Threads
<1>3. QED
  BY <1>1, <1>2 DEF SignalInv, Stranded, Threads

\* No step loses a signal.
LEMMA SignalStep == TypeOK /\ TypeOK' /\ SignalInv /\ [Next]_vars => SignalInv'
<1> SUFFICES ASSUME TypeOK, TypeOK', SignalInv, [Next]_vars
             PROVE  SignalInv'
  OBVIOUS
<1>0. /\ pc \in [Threads -> PCs] /\ count \in Int
      /\ queue \in Seq(Tasks) /\ Len(queue) \in Nat /\ Len(queue') \in Nat
      /\ results \in Seq(Tasks) /\ Len(results) \in Nat /\ Len(results') \in Nat
      /\ Main \in Threads /\ PoolThreads \in SUBSET Threads /\ Consumers \in SUBSET Threads
      /\ Main \notin PoolThreads /\ Main \notin Consumers
      /\ PoolThreads \cap Consumers = {}
      /\ PoolTypes(pc, threads, task, running)
  BY DEF TypeOK, PoolTypes, Threads
<1>a. /\ Stranded(pc, PoolThreads, Len(queue)) /\ Stranded(pc, Consumers, Len(results))
      /\ pc[Main] = "wait" => count > 0
  BY DEF SignalInv
<1>b. ASSUME Stranded(pc', PoolThreads, Len(queue')), Stranded(pc', Consumers, Len(results')),
             pc'[Main] = "wait" => count' > 0
      PROVE  SignalInv'
  BY <1>b DEF SignalInv
\* The threads of a condition that a step does not concern.
<1>p. ASSUME queue' = queue, \A t \in PoolThreads : pc'[t] = pc[t]
      PROVE  Stranded(pc', PoolThreads, Len(queue'))
  BY <1>0, <1>a, <1>p, KeepStranded
<1>c. ASSUME results' = results, \A t \in Consumers : pc'[t] = pc[t]
      PROVE  Stranded(pc', Consumers, Len(results'))
  BY <1>0, <1>a, <1>c, KeepStranded
<1>m. ASSUME NEW p \in PCs, Go(Main, p), p = "wait" => count > 0,
             UNCHANGED <<queue, results, count>>
      PROVE  SignalInv'
  <2>1. pc'[Main] = p /\ \A t \in PoolThreads \cup Consumers : pc'[t] = pc[t]
    BY <1>0, <1>m DEF Go
  <2>2. QED
    BY <1>b, <1>p, <1>c, <1>m, <2>1
<1>1. CASE Start
  BY <1>1, <1>m DEF Start, PCs, doneVars
<1>2. CASE StartReturns
  BY <1>2, <1>m DEF StartReturns, PCs, poolVars, doneVars
<1>3. CASE LatchCall
  BY <1>3, <1>m DEF LatchCall, PCs, poolVars, doneVars
<1>4. CASE LatchWait
  <2>1. CASE count > 0
    BY <1>4, <1>m, <2>1 DEF LatchWait, PCs, poolVars, doneVars
  <2>2. CASE ~(count > 0)
    BY <1>4, <1>m, <2>2 DEF LatchWait, PCs, poolVars, doneVars
  <2>3. QED
    BY <2>1, <2>2
<1>5. CASE Stop
  <2>1. PICK v : v = WeakupAll(pc, PoolThreads)
    OBVIOUS
  <2>2. Woken(pc, v, PoolThreads) /\ Waiting(v, PoolThreads) = {}
    BY <1>0, <2>1, WeakupAllWoken
  <2>3. pc' = [v EXCEPT ![Main] = "joining"] /\ UNCHANGED <<queue, results, count>>
    BY <1>5, <2>1 DEF Stop, StopWakes, doneVars
  <2>4. pc'[Main] = "joining" /\ \A t \in PoolThreads \cup Consumers : pc'[t] = v[t]
    BY <1>0, <2>2, <2>3 DEF Woken
  <2>5. Stranded(pc', PoolThreads, Len(queue'))
    <3>1. Waiting(pc', PoolThreads) = {}
      BY <2>2, <2>4 DEF Waiting
    <3>2. QED
      BY <3>1 DEF Stranded
  <2>6. \A t \in Consumers : pc'[t] = pc[t]
    BY <1>0, <2>2, <2>4 DEF Woken
  <2>7. QED
    BY <1>b, <1>c, <2>3, <2>4, <2>5, <2>6
<1>6. CASE Join
  BY <1>6, <1>m DEF Join, PCs, poolVars, doneVars
\* A pool thread goes on, and the tasks with it.
<1>t. ASSUME NEW t \in PoolThreads, NEW p \in PCs, pc' = [pc EXCEPT ![t] = p],
             Stranded(pc', PoolThreads, Len(queue')), UNCHANGED <<results, count>>
      PROVE  SignalInv'
  <2>1. pc'[Main] = pc[Main] /\ \A c \in Consumers : pc'[c] = pc[c]
    BY <1>0, <1>t
  <2>2. QED
    BY <1>a, <1>b, <1>c, <1>t, <2>1
<1>7. ASSUME NEW t \in PoolThreads, StartThread(t)
      PROVE  SignalInv'
  <2>1. /\ pc' = [pc EXCEPT ![t] = "test"] /\ t \notin threads
        /\ UNCHANGED <<queue, results, count>>
    BY <1>7 DEF StartThread, Go, doneVars
  <2>2. \A u \in PoolThreads : /\ pc[u] \in OnTheWay => pc'[u] \in OnTheWay
                               /\ pc'[u] = "wait" => pc[u] = "wait"
    BY <1>0, <2>1 DEF OnTheWay
  <2>3. Stranded(pc', PoolThreads, Len(queue'))
    BY <1>0, <1>a, <2>1, <2>2, KeepStranded
  <2>4. QED
    BY <1>t, <2>1, <2>3 DEF PCs
<1>8. ASSUME NEW t \in PoolThreads, TestRunning(t)
      PROVE  SignalInv'
  <2>1. pc[t] = "test" /\ UNCHANGED <<queue, results, count>>
    BY <1>8 DEF TestRunning, poolVars, doneVars
  <2>2. CASE running
    <3>1. pc' = [pc EXCEPT ![t] = "at"]
      BY <1>8, <2>2 DEF TestRunning, Go
    <3>2. \A u \in PoolThreads : /\ pc[u] \in OnTheWay => pc'[u] \in OnTheWay
                                 /\ pc'[u] = "wait" => pc[u] = "wait"
      BY <1>0, <3>1 DEF OnTheWay
    <3>3. Stranded(pc', PoolThreads, Len(queue'))
      BY <1>0, <1>a, <2>1, <3>2, KeepStranded
    <3>4. QED
      BY <1>t, <2>1, <3>1, <3>3 DEF PCs
  <2>3. CASE ~running
    <3>1. pc' = [pc EXCEPT ![t] = "done"]
      BY <1>8, <2>3 DEF TestRunning, Go
    <3>2. Waiting(pc', PoolThreads) = {}
      BY <1>0, <2>3, <3>1 DEF Waiting, PoolTypes
    <3>3. Stranded(pc', PoolThreads, Len(queue'))
      BY <3>2 DEF Stranded
    <3>4. QED
      BY <1>t, <2>1, <3>1, <3>3 DEF PCs
  <2>4. QED
    BY <2>2, <2>3
<1>9. ASSUME NEW t \in PoolThreads, Take(t)
      PROVE  SignalInv'
  <2>1. pc[t] = "at" /\ UNCHANGED <<results, count>>
    BY <1>9 DEF Take, doneVars
  <2>2. CASE MustWait
    <3>1. pc' = [pc EXCEPT ![t] = "wait"] /\ queue' = queue /\ queue = <<>>
      BY <1>9, <2>2 DEF Take, Go, MustWait
    <3>2. Len(queue') = 0
      BY <3>1
    <3>3. Stranded(pc', PoolThreads, Len(queue'))
      BY <1>0, <3>2, ReadyFinite DEF Stranded
    <3>4. QED
      BY <1>t, <2>1, <3>1, <3>3 DEF PCs
  <2>3. CASE ~MustWait /\ queue = <<>>
    <3>1. pc' = [pc EXCEPT ![t] = "test"] /\ queue' = queue
      BY <1>9, <2>3 DEF Take, Go
    <3>2. Len(queue') = 0
      BY <2>3, <3>1
    <3>3. Stranded(pc', PoolThreads, Len(queue'))
      BY <1>0, <3>2, ReadyFinite DEF Stranded
    <3>4. QED
      BY <1>t, <2>1, <3>1, <3>3 DEF PCs
  <2>4. CASE ~MustWait /\ queue # <<>>
    <3>1. pc' = [pc EXCEPT ![t] = "exec"] /\ queue' = Tail(queue)
      BY <1>9, <2>4 DEF Take, Go
    <3>2. Len(queue) = Len(queue') + 1
      BY <1>0, <2>4, <3>1
    <3>3. pc'[t] # "wait" /\ \A u \in PoolThreads \ {t} : pc'[u] = pc[u]
      BY <1>0, <3>1
    <3>4. Stranded(pc, PoolThreads, Len(queue') + 1)
      BY <1>a, <3>2
    <3>5. Stranded(pc', PoolThreads, Len(queue'))
      BY <1>0, <3>3, <3>4, RemoveStranded
    <3>6. QED
      BY <1>t, <2>1, <3>1, <3>5 DEF PCs
  <2>5. QED
    BY <2>2, <2>3, <2>4
\* Whoever runs a task: w is where the threads are but for the wake-ups.
<1>e. ASSUME NEW tk \in Tasks, NEW w \in [Threads -> PCs], Perform(tk, w), queue' = queue,
             \A c \in {Main} \cup Consumers : w[c] = pc[c],
             \A t \in PoolThreads : /\ pc[t] \in OnTheWay => w[t] \in OnTheWay
                                    /\ w[t] = "wait" => pc[t] = "wait"
      PROVE  SignalInv'
  <2>1. /\ Woken(w, pc', {Main} \cup Consumers)
        /\ \/ count' = count /\ pc'[Main] = w[Main]
           \/ count' = count - 1 /\ (pc'[Main] = "wait" => count' # 0 /\ w[Main] = "wait")
        /\ Stranded(w, Consumers, Len(results)) => Stranded(pc', Consumers, Len(results'))
    BY <1>e, PerformEffect
  <2>2. \A c \in Consumers : /\ pc[c] \in OnTheWay => w[c] \in OnTheWay
                             /\ w[c] = "wait" => pc[c] = "wait"
    BY <1>e
  <2>3. Stranded(w, Consumers, Len(results))
    BY <1>0, <1>a, <2>2, KeepStranded
  <2>4. \A t \in PoolThreads : pc'[t] = w[t]
    BY <1>0, <2>1 DEF Woken
  <2>5. \A t \in PoolThreads : /\ pc[t] \in OnTheWay => pc'[t] \in OnTheWay
                               /\ pc'[t] = "wait" => pc[t] = "wait"
    BY <1>e, <2>4
  <2>6. Stranded(pc', PoolThreads, Len(queue'))
    BY <1>0, <1>a, <1>e, <2>5, KeepStranded
  <2>7. pc'[Main] = "wait" => count' > 0
    BY <1>0, <1>a, <1>e, <2>1
  <2>8. QED
    BY <1>b, <2>1, <2>3, <2>6, <2>7
<1>10. ASSUME NEW t \in PoolThreads, Exec(t)
       PROVE  SignalInv'
  <2>1. PICK w : w = [pc EXCEPT ![t] = IF task[t] \in Throwing THEN "done" ELSE "test"]
    OBVIOUS
  <2>2. pc[t] = "exec" /\ Perform(task[t], w) /\ queue' = queue
    BY <1>10, <2>1 DEF Exec
  <2>3. task[t] \in Tasks
    BY <1>0, <2>2 DEF PoolTypes, TypeOK
  <2>4. w \in [Threads -> PCs] /\ \A c \in {Main} \cup Consumers : w[c] = pc[c]
    BY <1>0, <2>1 DEF PCs
  <2>5. \A u \in PoolThreads : /\ pc[u] \in OnTheWay => w[u] \in OnTheWay
                               /\ w[u] = "wait" => pc[u] = "wait"
    BY <1>0, <2>1, <2>2 DEF OnTheWay
  <2>6. QED
    BY <1>e, <2>2, <2>3, <2>4, <2>5
<1>11. ASSUME NEW tk \in Tasks, Run(tk)
       PROVE  SignalInv'
  <2>1. CASE threads = {}
    <3>1. Perform(tk, pc) /\ queue' = queue
      BY <1>11, <2>1 DEF Run
    <3>2. QED
      BY <1>0, <1>e, <3>1
  <2>2. CASE threads # {}
    <3>1. queue' = Append(queue, tk) /\ pc' \in Weakup(pc, PoolThreads) /\ UNCHANGED doneVars
      BY <1>11, <2>2 DEF Run, PushWakes
    <3>2. PICK v : v = pc'
      OBVIOUS
    <3>3. v \in Weakup(pc, PoolThreads)
      BY <3>1, <3>2
    <3>4. Woken(pc, v, PoolThreads)
      BY <1>0, <3>3, WeakupWoken
    <3>5. Stranded(v, PoolThreads, Len(queue) + 1)
      BY <1>0, <1>a, <3>3, SignalStranded
    <3>6. Len(queue') = Len(queue) + 1
      BY <1>0, <3>1
    <3>7. v[Main] = pc[Main] /\ \A c \in Consumers : v[c] = pc[c]
      BY <1>0, <3>4 DEF Woken
    <3>8. Stranded(pc', PoolThreads, Len(queue')) /\ UNCHANGED <<results, count>>
      BY <3>1, <3>2, <3>5, <3>6 DEF doneVars
    <3>9. QED
      BY <1>a, <1>b, <1>c, <3>2, <3>7, <3>8
  <2>3. QED
    BY <2>1, <2>2
\* A consumer goes on, and the results with it.
<1>r. ASSUME NEW c \in Consumers, NEW p \in PCs, pc' = [pc EXCEPT ![c] = p],
             Stranded(pc', Consumers, Len(results')), UNCHANGED <<queue, count>>
      PROVE  SignalInv'
  <2>1. pc'[Main] = pc[Main] /\ \A t \in PoolThreads : pc'[t] = pc[t]
    BY <1>0, <1>r
  <2>2. QED
    BY <1>a, <1>b, <1>p, <1>r, <2>1
<1>13. ASSUME NEW c \in Consumers, TakeCall(c)
       PROVE  SignalInv'
  <2>1. /\ pc[c] = "new" /\ pc' = [pc EXCEPT ![c] = "at"]
        /\ UNCHANGED <<queue, results, count>>
    BY <1>13 DEF TakeCall, Go, poolVars, doneVars
  <2>2. \A u \in Consumers : /\ pc[u] \in OnTheWay => pc'[u] \in OnTheWay
                             /\ pc'[u] = "wait" => pc[u] = "wait"
    BY <1>0, <2>1 DEF OnTheWay
  <2>3. Stranded(pc', Consumers, Len(results'))
    BY <1>0, <1>a, <2>1, <2>2, KeepStranded
  <2>4. QED
    BY <1>r, <2>1, <2>3 DEF PCs
<1>14. ASSUME NEW c \in Consumers, TakeResult(c)
       PROVE  SignalInv'
  <2>1. pc[c] = "at" /\ UNCHANGED <<queue, count>>
    BY <1>14 DEF TakeResult, poolVars
  <2>2. CASE results = <<>>
    <3>1. pc' = [pc EXCEPT ![c] = "wait"] /\ results' = results
      BY <1>14, <2>2 DEF TakeResult, Go
    <3>2. Len(results') = 0
      BY <2>2, <3>1
    <3>3. Stranded(pc', Consumers, Len(results'))
      BY <1>0, <3>2, ReadyFinite DEF Stranded
    <3>4. QED
      BY <1>r, <2>1, <3>1, <3>3 DEF PCs
  <2>3. CASE results # <<>>
    <3>1. pc' = [pc EXCEPT ![c] = "new"] /\ results' = Tail(results)
      BY <1>14, <2>3 DEF TakeResult, Go
    <3>2. Len(results) = Len(results') + 1
      BY <1>0, <2>3, <3>1
    <3>3. pc'[c] # "wait" /\ \A u \in Consumers \ {c} : pc'[u] = pc[u]
      BY <1>0, <3>1
    <3>4. Stranded(pc, Consumers, Len(results') + 1)
      BY <1>a, <3>2
    <3>5. Stranded(pc', Consumers, Len(results'))
      BY <1>0, <3>3, <3>4, RemoveStranded
    <3>6. QED
      BY <1>r, <2>1, <3>1, <3>5 DEF PCs
  <2>4. QED
    BY <2>2, <2>3
<1>15. ASSUME NEW t \in Threads, Spurious(t)
       PROVE  SignalInv'
  <2>1. /\ pc[t] = "wait" /\ pc' = [pc EXCEPT ![t] = "at"]
        /\ UNCHANGED <<queue, results, count>>
    BY <1>15 DEF Spurious, poolVars, doneVars
  <2>2. \A u \in Threads : /\ pc[u] \in OnTheWay => pc'[u] \in OnTheWay
                           /\ pc'[u] = "wait" => pc[u] = "wait"
    BY <1>0, <2>1 DEF OnTheWay
  <2>3. Stranded(pc', PoolThreads, Len(queue'))
    BY <1>0, <1>a, <2>1, <2>2, KeepStranded
  <2>4. Stranded(pc', Consumers, Len(results'))
    BY <1>0, <1>a, <2>1, <2>2, KeepStranded
  <2>5. pc'[Main] = "wait" => count' > 0
    BY <1>0, <1>a, <2>1
  <2>6. QED
    BY <1>b, <2>3, <2>4, <2>5
<1>16. CASE UNCHANGED vars
  BY <1>a, <1>b, <1>16 DEF vars, poolVars, doneVars
<1>17. QED
  BY <1>1, <1>2, <1>3, <1>4, <1>5, <1>6, <1>7, <1>8, <1>9, <1>10, <1>11, <1>13,
     <1>14, <1>15, <1>16 DEF Next, PoolStep

\* While a thread of the pool, or a consumer, waits, as many others as there are
\* tasks, or results, are on their way to take them; and the main thread never
\* waits for a latch that is open.
THEOREM SignalsNeverLost == Spec => []NoSignalLost
<1>1. SignalInv => NoSignalLost
  BY DEF SignalInv, NoSignalLost, NoStranded, Stranded, Ready, OnTheWay
<1>2. TypeOK /\ SignalInv /\ [Next]_vars => (TypeOK /\ SignalInv)'
  BY TypeStep, SignalStep
<1>3. QED
  BY TypeInit, SignalInit, <1>1, <1>2, PTL DEF Spec
=============================================================================
