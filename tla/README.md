# A verification model of LALI_RPC_FRAME

LALI_RPC_FRAME (`src/LALI`) is a C++ RPC framework on a reactor network library in
the style of muduo. This directory holds TLA+ models of the framework, from the event loop to the generated stubs, the
TLC configurations that check them on small instances, and TLAPS proofs of what
holds for every instance. Every definition is translated from the source;
`PROJECT.json` names, under `map`, the lines each one stands for.

## 1. Inventory

| Part (source) | State | Operations | Interacts with | What is hard | What makes it correct |
|---|---|---|---|---|---|
| EventLoop (`net/EventLoop.*`) | `pendingFunctors_`, `callPendingFunctor_`, `quit_`, `looping_`, the eventfd | `loop`, `queueInLoop`, `runInLoop`, `quit`, `doPendingFunctor` | every other part of `net/` queues functors on it, from any thread | the wake-up is decided after the mutex is released; functors that queue functors; `quit` against `loop` | no lost wake-up; each functor once and in order; it is run without waiting for a time-out |
| ThreadEventLoop, EventLoopThreadPool | `loop_`, a thread; `loops_`, `next_` | `startLoop`, the destructor, `threadFunc`; `start`, `getNextLoop` | owns an EventLoop on another thread's stack | publication of the pointer, shutdown while the thread starts, others that quit the loop | start and join return, the pointer is good for as long as its users may rely on it |
| TimerQueue, Timer | `timers_`, the timerfd | `addTimer`, `handleRead`, `getExpired`, `reset` | one channel of the EventLoop; callbacks add timers | one fd for all timers, armed from three places; slow callbacks | no timer overlooked, early or too frequent |
| TcpConnection | `state_`, `outputBuffer_`, the channel | `send`, `shutdown`, `forceClose`, `handleRead/Write/Close`, `connectEstablished/Destroyed` | its IO loop, the base loop through TcpServer, user threads | `state_` tested on one thread and set on another; partial writes; close seen repeatedly | data in order and complete; FIN after the data; released once closed |
| Channel, Poller | `events_`, `index_`, the epoll set | `enable*`, `disable*`, `handleEvent`, `poll`, `updateChannel`, `removeChannel` | EventLoop | `disableAll` changes nothing (`Channel.h:48`) | a removed channel is never dispatched |
| TcpServer, Acceptor | `connection_`, `connId_`; the listening socket | `start`, `newConnection`, `destroyConnection`; `handleRead` | base loop and IO loops | the close travels IO loop, base loop, IO loop | every closed connection is forgotten |
| TcpClient, Connector | `connection_`, `connect_`, `channel_`, `retryDelatMs_` | `connect`, `stop`, `disconnect`, `retry`, `restart` | a loop, timers | retry timers outlive `stop`; the channel is reset by a queued functor | one attempt at a time; no connection after stop |
| Buffer, HTTP server | two indices into a vector; the parser's state | `retrieve*`, `append`, `makeSpace`, `readFd`; `onMessage`, `parseRequst`, `onRequest` | TcpConnection | boundaries; messages that arrive in pieces; a context that does not outlive a read | behaves as a byte queue; a request is answered as it asks |
| AsyncLogging, LogFile | four buffers, `buffers_`, `running_` | `append`, `start`, `stop`, `threadFunc` | every thread logs | buffers move between threads unchecked; a late back end; a lost signal | no null buffer, nothing reordered, nothing lost of what a swap took over |
| ThreadPool, BlockingQueue, CountDownLatch | a queue, a flag, waiters | `run`, `stop`, `take`, `put`, `wait` | condition variables | lost signals, stop against take | every task once; stop returns |
| RPC server (`zrpc/server`) | the services; the shared data of a batch | `handleMessage`, `handleRequest`, batch, notify | TcpConnection; procedures may answer from other threads | the batch answer is sent by the last owner's destructor; failures in the middle of a batch | one answer per request, complete |
| RPC client (`zrpc/client`) | `id_`, `callbacks_` | `sendCall`, `handleResponse` | TcpConnection | answers in any order | the right callback, once |
| Stub generator (`zrpc/stub`) | a definition; the code generated from it | `parseRpc`, the client's `call`, the service's dispatch | Procedure validates what the one sends and the other picks apart | two generators and a validator written apart must agree | what the generators accept can be called, and the arguments arrive in their order |
| jackson (`jackson`) | Reader, Document, Writer and their stacks | `parse`, `writeTo`, the handlers' events | every message of RPC goes through it | what is written must be read back; texts come from outside | round trip; no assertion but for a known one |

## 2. Modules

| Module | Models | Notes |
|---|---|---|
| `Executor` | what a loop promises its callers: a queue of functors, each run once in order | abstract specification |
| `EventLoop` | `EventLoop.cpp` with the poll of `Poller.cpp` | `queueInLoop` is two steps, `Push` (under the mutex) and `Weakup` (after it). `inCall` is the time user code has the loop thread; the loop thread calls the loop only then, or before `loop()` |
| `ThreadEventLoop` | `ThreadEventLoop.cpp`, EXTENDS `EventLoop` | the owner's steps beside all of the loop's; other threads use the loop between `startLoop` and the destructor, and they and its callbacks may `quit()` it |
| `TimerQueue` | `TimerQueue.cpp`, `Timer.*`, `EventLoop::run*` | a clock that advances between any two steps; one tick is the 100 microseconds `howMuchTimeFromNow` never goes below |
| `TcpConnection` | `TcpConnection.cpp` with what TcpServer, Channel and Poller do for one connection | the IO loop's poll, events and functors in order; `send` and `shutdown` of a worker are split where another thread can run |
| `AsyncLogging` | `AsyncLogging.*`, `FixedBuffer` | a buffer is a sequence of message numbers, a `unique_ptr` a buffer or `NoBuffer`; a critical section is a step |
| `RpcServer` | `BaseServer.cpp`, `Rpcserver.cpp`, `RpcService.cpp`, `Procedure.cpp` | the bytes of a connection are tokens, a length line or a body, that arrive in any portions; a request is what the server tells apart in it. Procedures answer from any thread; a batch's data is owned by the frame of `handleBatchRequests` and the callbacks of its open calls, and the last owner sends. `aborted` stands for an Exception that leaves a loop: unwinding fails the assertion of `~EventLoop` |
| `ThreadPool` | `ThreadPool.cpp`, `BlockingQueue.h`, `CountDownLatch.cpp`, `Condition.h` | threads are `at` the while around a wait or in `wait`; a signal (`Weakup`) moves one that waits, a broadcast all, and `Spurious` any at any time. Tasks put results into a BlockingQueue, count a latch down or throw |
| `TcpServer` | `TcpServer.cpp`, `Acceptor.cpp`, `EventLoopThreadPool.cpp`, the map of `Poller.cpp` | several connections on several loops, descriptors that are used again, and who holds a TcpConnectionPtr, which workers drop whenever they like; what passes over one connection stays in `TcpConnection` |
| `TcpClient` | `TcpClient.cpp`, `Connector.cpp` | attempts, retry timers, the functor that resets `channel_`, restart |
| `RpcClient` | `RpcClient.cpp`, EXTENDS `TcpClient` | `user` says whose TcpClient it is; an RpcClient makes calls on connections that come and go, the peer answers in any order and portions, and strangely |
| `Buffer` | `Buffer.h`, `Buffer.cpp` | operators on a record of the two indices and the vector |
| `HttpServer` | `HttpServer.cpp`, `HttpContext.cpp`, `HttpRespond.cpp`, EXTENDS `Buffer` | one connection; a byte stands for a line's text or its end |
| `Json` | jackson | events of a value, tokens of a text; texts of a Writer and texts of any tokens; numbers digit by digit, as `countDigits` and `itoa` write them |
| `Stub` | `StubGenerator.cpp`, `ClientStub.cpp`, `ServiceStub.cpp`, `Procedure::validateGeneric`, EXTENDS `Json` | a definition is parsed, the client's stub is called, its message is written and read by `Json`, validated, and the service's stub picks the arguments |
| `*Proofs` | theorems about the module they are named for; `EventLoopProofs` is also about `ThreadEventLoop` and `TimerQueue`, `HttpServerProofs` about `Buffer`; `RpcCallProofs` is about `TcpClient`, `RpcClient`, `Json` and `Stub` | section 5 |
| `MC*` | instances for TLC | |

Definitions whose names end in `_Something` after the name of another definition
(`Swap_KeepsPending`) are deliberate mistakes. The specifications do not use
them; each shows, put in place of the definition it is named for, that a
property can fail.

How variables correspond to the code is said beside their declarations. What is
common to all models: code under one mutex is one step, code of one thread that
touches nothing shared joins the step before or after it, and user code may call
any member function wherever the library hands it control. Ghost variables, which
no guard of the code's actions depends on, are `fresh`, `ran` and `early`
(EventLoop), `userQuit` (ThreadEventLoop), `start` and `runs` (TimerQueue), `accepted`, `ups`, `downs`,
`closes` (TcpConnection), `appended`, `taken` and `dropped` (AsyncLogging), `hasty`
(RpcServer), `careful` (TcpClient), `sentOn` and `disorderly` (RpcClient),
`unread` and `orderly` (HttpServer) and `written` (Json); `log` (RpcServer,
HttpServer) is what the tokens or bytes stand for. `fresh`, `unsent`, `closes`,
`appended` and `log` also bound what the environment does.

## 3. Runs

| Run | Bounds | Shows |
|---|---|---|
| `event_loop` | loop thread, 2 workers, 1 fd, 3 functors | `NoLostWakeup`, exactly-once in order (`ImplementsExecutor`), `QueuedRuns`. Two workers and the loop itself can all be inside `queueInLoop` at once, around a batch and the next one |
| `loop_thread` | owner, 1 worker, 2 functors | `startLoop` returns, whether it waits or finds `loop_` set; the loop it hands out lives until the destructor's `quit()` or somebody else's (`OwnedLoopAlive`); the destructor returns if a quit finds the loop inside `loop()`. The owner, the worker and the loop's own callbacks can all quit it |
| `timer_queue` | 3 timers, delays 0 to 2, clock to 5 | `AllTimersCovered`, `NeverEarly`, `NeverTooOften`. Three timers give an earliest, a later one and one added while the others are out of the set; five ticks let a repeating timer be late twice |
| `tcp_connection` | 1 worker, 2 messages of 2 units, high-water mark 3, `handleClose` at most twice | order, completeness, FIN after the buffer, release after close, and that closes and shutdowns are completed. A message can be taken whole, half or not at all, while the other one is waiting |
| `tcp_twice` | the same | **violated**: what `::write` leaves over is buffered twice (`TcpConnection.cpp:116` and `:124`) |
| `async_logging` | buffers of 2, batches cut at more than 3, 9 messages | no null buffer, order, flushing, stop; what a swap has taken over is written or dropped, and only what was appended since is not (`NothingLost`). Nine messages fill a batch of more than three buffers and still leave some |
| `rpc_server` | 1 connection, 3 messages, batches of 2 | answers complete (`AnswersComplete`) and sent once (`AnsweredOnce`); a client that sends legal calls, one message at a time, is answered (`OrderlyAnswered`) and does not bring the server down (`OrderlyStaysUp`), however its bytes arrive |
| `thread_pool` | 2 threads, 2 consumers, 4 tasks: two that put, one that throws, one that counts down | `NoSignalLost`, `TasksRun`, `StopReturns`. Two of each let one thread take what another one was woken for, and one thread die while the other works |
| `tcp_server` | 3 peers, 2 descriptors, no pool or one of two loops | what the pollers use by address is alive, and a connection that is gone was destroyed before (`AliveWhenUsed`), the loops take turns (`Balanced`), `ClosedReleased`, `BacklogDrained`. With a third peer the descriptors run out, and are used again while the close of their last owner is still on its way |
| `rpc_client` | 2 connections, 2 failures, 2 calls of the connector, 2 RPC calls, 1 strange answer | `OneAtATime`, `Connects`, `CalledOnce`, `CalledBack`. Two failures double the delay to its limit; two connections show a restart; two calls can be answered in either order, together, in pieces and on a connection that is lost |
| `http_server` | a buffer of 4 with 1 in front and 2 more per read, 3 messages | `BufferExact`, `OrderlyAnswered`. A request takes more than the buffer has, so it grows, is compacted and is retrieved from in between |
| `marshal` | values of 5 events and depth 2, texts of 8 tokens, 13 definitions, 1 call | `RoundTrip`, `OnlyDuplicatesAbort`, `CallArrives`. Numbers at the limits of `countDigits`, escapes and surrogates, arrays in objects and the reverse; eight tokens are an object that repeats a key; two parameters show an order; some parameters have names that members of the request have too |

In the runs that may stop (a loop that was quit, the clock's end, a joined
thread, peers that have all closed) the configuration switches the deadlock check off and says so. The TCP
run has it on.

Every bound on the environment is named: `Functors`, `MaxTime`, `MaxCloses`,
`MaxMessages`, `MaxBatch`, `Menu` (what clients of the RPC server send),
`MaxClients`, `MaxRepeats`, `MaxConns`, `MaxFailures`, `MaxCalls`, `MaxIds`,
`MaxStrange`, `MaxEvents`, `MaxTokens`, `MaxDepth` and the sets of messages, tasks,
scalars and workers. Connections of the RPC server share nothing but
`aborted`, so one is enough for TLC; three messages let a late answer, a batch and
the next message overlap, and two calls race for the end of a batch. The theorems
are about any number of each. `forceClose` is queued one at
a time. `LateForceClose = FALSE` keeps user code from calling it after the loop has
noticed a close, which user code cannot know. `TcpServer`'s `start` is called once.
`careful` (TcpClient) excludes a second `connect`, `stop` and `forceClose`; section 6
says what the code does without each of these.

The constants `MaxBuffers` (25 in the code), `HighWaterMark` (64 MiB), the sizes of
`Buffer` (8, 1024 and 65536) and `MaxInt32` are small in the runs so that they are
exceeded; `MaxDelay` is three times `InitDelay`, so that the second doubling is cut.

The type invariants of the modules are theorems (section 5) and no run checks them
again; `Json` and `Stub`, which build events, tokens and texts by functions, have none.

## 4. Fairness

- The loop thread is scheduled (`WF(LoopStep)`); a thread that has pushed a functor
  finishes `queueInLoop`. `PollTimeout` has no fairness in `event_loop`, so
  `QueuedRuns` does not rest on the ten-second time-out; in `loop_thread` it has,
  because `quit()` does not wake the loop up and only the time-out makes join
  return.
- In `tcp_connection` both loops keep running and a worker inside a call returns.
  Strong fairness of the poll that reports room in the socket: a peer that goes
  on reading makes room again and again. Nothing makes users send, shut down or
  close.
- In `async_logging` `timedWait` returns in the end, signalled or not.
- In `rpc_server` the loops and the network go on, and a procedure calls its done
  callback in the end: the framework has no time-out and requires it. Nothing
  makes clients send or close.
- In `thread_pool` threads that do not wait go on. Nothing ends a wait but a signal:
  spurious wake-ups may come and need not. A consumer calls `take` again.
- In `tcp_server` every loop goes on, and a worker drops its pointer in the end.
- In `rpc_client` the loop goes on. Nothing makes attempts succeed, so `Connects`
  says it of at most `MaxFailures` failures; nothing makes the peer answer.
- `http_server` and `marshal` have safety properties only.

## 5. Proofs

All theorems hold for every value of the constants that satisfies the ASSUMEs of
the modules.

The assumptions that matter: a loop's own thread is no worker and its eventfd
no channel of the user (`EventLoop`), delays and bounds are natural
numbers, `MaxBuffers` is at least two (`AsyncLogging`), and the address of the
listening socket's channel is no connection's (`AcceptorAssumption` of `TcpServer`).

### Loops, timers and the log

- `EventLoopProofs`: `TypeCorrect`; `WakeupNeverLost`, from the types and the
  flags they tie to `pc` (`callPending <=> pc = "run"`, a thread of the loop in
  `pushed` only inside user code): the step that matters is `Weakup` by the loop
  thread, which may skip the write only if the batch is not being run, and then
  the loop is in `handle`, before the swap. `Refinement` maps the abstract queue
  to `batch \o pending` and shows each step to be an `Executor` step or a stutter.

  ThreadEventLoop: `OwnedLoopStaysAlive` needs what the owner knows of the thread
  (`OwnerKnows`): once it has `loop_`, the thread is in `loop()` or beyond; as long as
  nobody but its destructor has set `quit_` there, the thread has not left it, and
  `loop_` is still what the thread published; and a `quit()` before `loop()` leaves no
  trace, so `userQuit` need not count it. `RunsAnEventLoop` shows that the loop
  inside is an `EventLoop`, so the theorems above hold of it.

  TimerQueue: `TimersInOnePlace`; `NoTimerOverlooked`, by cases on what each
  action does to the fd; `CallbacksNeverEarly`, through the invariant that the
  timers taken out have expired at `readNow <= now`; `CallbacksNeverTooOften`, an
  induction on the sum of intervals that needs the same invariant.
- `AsyncLoggingProofs`: `TypeCorrect` and `NeverNull` rest on `BufferInv`. Beside
  the two properties it says that the spares are empty, that both are there
  whenever the back end has no batch, and that `nextBuffer_` is used up only if
  a buffer was queued since the last swap; so the swap gives a second spare away
  only when the batch has a second buffer to replace it. `NoMessageLost`, about
  what the last swap took over and what the front has since: an append adds to the
  front only (`AppendFront`), a swap hands all of it over, as a spare it leaves there is
  empty (`SwapStored`), and the back end moves messages from the batch to the file or
  drops them (`BackStored`). `InAppendOrder`, with `OrderInv`: the file, the rest of the
  batch, `buffers_` and `currentBuffer_`, one after the other, are in the order of
  the appends. A spare joins the order only when it is filled, and it is empty
  until then; that is why `BufferInv` is needed again.
- `ThreadPoolProofs`: `TypeCorrect`; `SignalsNeverLost`, with `Stranded`: while a
  thread waits, at least as many threads as there are items are ready, that is, at
  or on the way to the while around the wait. A put adds an item and one ready
  thread, since its signal finds one that waits (`SignalStranded`); a take removes
  both (`RemoveStranded`); a thread goes to wait only on an empty queue; a task
  that throws ends its thread after the item is gone, and a turn of the loop gives
  the thread back. Numbers of threads, consumers and tasks are any.

### Connections

- `TcpConnectionProofs`: `TypeCorrect`; `DrainedFirst`, for any users and
  interleavings of `shutdown` and `send`; `NothingIsLost`; `SendsStayInOrder`,
  whose invariant orders the units of the wire and of the output buffer by the
  calls of `sendInLoop` and needs that a direct write finds the buffer empty; and
  `DownMeansReleased`. The user is told of the end by `handleClose` and by
  `connectDestroyed`, and what may be queued when is the invariant: nothing is
  left to establish or erase once the connection is destroyed, and a `handleClose`
  that level triggering repeats finds it still in the map.
- `TcpServerProofs`: the inductive invariant `Inv` says for each connection how far
  its life has come, and what that means for the queues (`Registered`, `Owned`), the
  descriptors (`Named`) and the order of the functors of one connection
  (`Ordered`, `EstablishedOnce`): they travel from the base loop to the IO loop and back, and no
  functor overtakes the one that made it possible. `AliveInv` adds who holds a
  TcpConnectionPtr (`Kept`: until `connectDestroyed` has run, `connection_` or a bound
  functor does), and `NothingDangles` follows, whenever workers send and drop.
  What does not follow, as the code has nothing that would keep the connection, is
  that a raw `sendInLoop` finds it alive (section 6). `Dealt`
  counts the connections of each loop against `next_`; `DealtEvenly` is about any
  number of loops.
- `HttpServerProofs`: `Sound` (the indices are in the vector)
  with `Contents(input) = unread` is inductive. For each of `Retrieve`, `Write`,
  `EnsureWritable` and `ReadFd` a lemma says what the contents are afterwards; the
  step that matters is `EnsureExact`, by cases on growing or compacting, and it
  needs that `CheapPrepend` is never used up by `Compact`. `BufferAlwaysExact`
  follows for any sizes, requests, fragments and portions. `AnsweredInOrder` needs
  to know, of a request that came whole, how much of its text is left and what the
  context has learned from the headers before it (`Underway`: `unread = Rest(r, k)`
  and `Known(r, k)`); `addHeader` overwrites, so it is the last Connection header that
  counts.

### RPC

- `RpcServerProofs`: `TypeCorrect`, `CompleteAnswers` and `AtMostOneAnswer` rest
  on `IInv`. `StreamInv`: what is on the way and in the buffer is younger than the
  message being handled, so no message is taken twice. `FutureInv`: no call is
  made before its message is taken. `DataInv`: the shared data of a batch holds
  exactly the responses of the calls that were answered. `FrameInv`: a batch in
  hand has calls below `elem` only. `AnswerInv`: what was answered has no owner
  left and its answer all its calls. The step that matters is the end of
  a call (`CallStep`): a call that is open keeps every other owner from sending,
  and the owner that sends leaves none behind. `OwnedNotAnswered` shows that no
  earlier answer was to the same message. `OrderlyClientsHarmless` adds `AloneInv`:
  of a client that waits until its message is taken, the buffer and the wire hold
  a part of one message only, so `handleMessage` never parses two bodies as one.
- `RpcCallProofs`, of the connection: `TypeCorrect`. `AttemptsNeverOverlap`, with `Orderly`: a channel that was
  removed is reset in the same turn of the loop, before anything can attempt again
  (`Resetting`); the functor of the first `connect` finds nothing begun
  (`Starting`); all that `epoll_wait` reported together is of one kind, attempt, timer or
  connection, and still so when it is handled (`Reported`); and what is queued to be destroyed has
  been closed (`Expected`). `CallbacksCalledOnce`, with `CallInv`: each number
  below `id_` is in `callbacks_` or was called back, never both. It assumes
  nothing of the peer.

### jackson and the stubs

All in `RpcCallProofs`; values may have any depth and size, texts any length.

- Numbers. `Twos` and `Tens` are tables, whose entries the provers compute one by one.
  `CountDigitsExact` is by cases on the 64 bit lengths: the estimate `b * 1233 >> 12` is
  the number of digits or one less, and the comparison with the table decides.
  `ItoaAtoi` follows the digits from the left: after `i` of them `Atoi` has
  `u \div Tens[count - i]`. Where an induction is needed, for the tables, bit lengths
  and prefixes of digits, the proof takes the least counterexample: `Least`, that a
  set of natural numbers has a least one, is proved from the well-founded order of
  finite sets.
- `Reading`. `ReaderInv` ties what Reader is about to read to what Document has open
  (`Nested`: the frames of the one are the levels of the other, and an object around
  the top has as many values as keys; `Fits`: `want` says whether the top has a key or a
  value due). So an event that Reader gives is one that Document accepts, whatever the
  text; what is left is the key that an object has already.
- `RoundTrips`. `JacksonInv` and `Marshalled` are inductive together. While the value is
  written, `Trace` keeps, for each number of events, the stack that Writer had after them
  and where the text of the next one begins (`TraceStep`). While it is read, `Follows`
  says that Reader has read the text of the first `k` events, that Document has their
  `ReadBack`, and that its levels are `Alike` to Writer's stack at `k`. `ReadNext` is the
  step that matters: the next token is the mark before event `k + 1` or the event itself,
  since Writer's prefix and Reader's state both follow from the same stack. A value is
  complete only when the stack is empty, so Reader ends after the last event. What a
  value gives back is the `ReadBack` of each event: an Int64 that fits comes back as an
  Int32, a negative whole double as an integer (`DoubleText`, `MinusAtoi`), `-inf`
  as `inf`, and all other events, the other doubles among them, unchanged. `CanBeRead`
  excludes keys that need an escape, which `Key` does not make, and denormal doubles,
  which Reader refuses (section 6).
- `CallsArrive`, on `RoundTrips`. `Sent`: nothing is written before the call, and the
  server does not read before all of its message is. `MessageShape` gives the message
  event by event, `KeysOfCall` where its keys are, and `CallRead` what the server has of
  it. The members of the request are found first (`Found`), whatever names the parameters
  have; among the members of params no two names are the same, so each is found where it
  was written (`FoundWithin`), and the arguments are picked in their order (`Served`).
  The theorem is about arguments that `ReadBack` leaves as they are; `Procedure` refuses
  a negative whole double, for one, as it comes back as an integer.

The proofs rest on what the constants of `Json` and `Stub` may be: `MaxInt32` and the
bounds are natural numbers, the first 2^31 - 1 at most (`JsonAssumption`); scalars are those of `Value`, with
integers below 2^64 (`ScalarsAssumption`); a token of a foreign text is not the end, and a
broken string carries an error that `parseString` throws (`TokensAssumption`); arguments
are scalars, and a definition has any number of parameters, whose names are distinct and
have no quote (`StubAssumption`). The proto that the generators read cannot repeat a name,
as Document asserts (`Value.cc:158`), and the names become identifiers. Some that
`StubAssumption` admits make stubs that do not compile, such as `params` or `call`, which
the templates declare themselves (`ClientStub.cpp:82`, `ServiceStub.cpp:109`). A double
is a minus and digits (a negative whole number above -10^17, or -0), denormal, or any
other text that `%.17g` prints (`ScalarsAssumption`).

Only model-checked: the liveness properties (`QueuedRuns`, `StartReturns`,
`JoinReturnsIfLooping`, `PeerCloseNoticed`, `ShutdownCompletes`, `Flushed`,
`StopReturns`, `TasksRun`, `ClosedReleased`, `BacklogDrained`, `Connects`,
`CalledBack` and the `OrderlyAnswered` of `RpcServer`), since temporal reasoning under
fairness and ENABLED are out of the prover's reach. Every safety property that a run
checks and that holds is also a theorem.

## 6. Findings

A run shows: a partial write makes `sendInLoop` buffer the rest twice
(`tcp_twice`, `TcpConnection.cpp:116` and `:124`).

Met while modelling. Where nothing else is said the models behave so too, and their
properties say by a condition of theirs, or a constant, what they leave out.

Loops and connections:
- `loop()` overwrites a quit that came before it (`EventLoop.cpp:140`), so a
  ThreadEventLoop destroyed right after `startLoop` may never be joined;
  `JoinReturnsIfLooping` is about the others.
- A message that `send` accepts on a worker is lost if the loop finishes a shutdown
  first.
- `forceClose` after the loop has noticed a close fails the assertion of
  `handleClose` (`LateForceClose = TRUE` lets it happen).
- `disableAll` is a no-op, so `handleClose` and `connectDestroyed` repeat and the
  user sees several "down" callbacks.
- Anybody may `quit()` a loop that a ThreadEventLoop owns, from its own callbacks too (as
  `test/TimerQueue_test.cpp:18` does with its loop). Its thread then returns, and the
  EventLoop is gone with its stack, while the pool's `loops_` and all users still point
  to it. The destructor reads `loop_` without the mutex: it may call `quit()` on the
  loop that is gone, or find `loop_` cleared and destroy the mutex that the thread still
  holds. `OwnedLoopAlive` is about the time before such a quit.
- A functor of `send` binds a raw `this` (`TcpConnection.cpp:84`). A procedure that answers
  on another thread sends and then lets go of its connection, as the callback of
  `BaseServer.cpp:80` does; if the peer has closed meanwhile, `connectDestroyed` comes
  first and destroys the connection, and the functor runs on what is gone. In the model
  such a functor does nothing; `AliveWhenUsed` says that nothing else can do so.
- A second `TcpServer::start` would start as many loops again (`TcpServer.cpp:27`,
  `EventLoopThreadPool.cpp:24`); the model starts once.
- `connectDestroyed` calls the user back before it removes the channel
  (`TcpConnection.cpp:48`); the model has both in one step.
- TimerQueue compares with `gettimeofday` and its timerfd counts `CLOCK_MONOTONIC`; the
  model has one clock, so it says nothing of a system whose time is set.
- Connector: `connect_` is never reset, so `stop` follows a null `channel_` or
  retries all the same (`Connector.cpp:41`); a second `connect` fails the assertion
  of `connecting`; `forceClose` and an end of file in one turn of the loop restart a
  client twice; `disconnect` before the connection is there does not prevent it.

The log: `threadFunc` ends without a last swap (`AsyncLogging.cpp:60`), so what was
appended since the one before is never written, even if `stop()` came after it.
`NothingLost` says that it is exactly this that is missing.

RPC:
- A notification is refused for lacking an id (`Rpcserver.cpp:198`), and the
  Exception ends the server; so do calls that arrive together, which are parsed as
  one text (`BaseServer.cpp:78`). `OrderlyStaysUp` is about clients that send calls,
  one at a time.
- A refused request is not answered at all, so its caller waits for ever; a batch
  whose first request is refused is answered with the empty array, which RpcClient
  treats as an error. The rest of a batch after a refused or bad request is not looked at.
- RpcClient takes all it has received for one response: responses that arrive
  together are lost, and a length that is too long leaves the connection waiting.
  Calls that were outstanding on a lost connection are never called back.
- RpcClient erases a callback through an iterator that it has held over the call
  (`RpcClient.cpp:112` to `:127`); a callback that calls again may have made the table rehash. The
  model erases the callback. An element of a response that is itself an array of three
  fails the assertion of `findMember` (`RpcClient.cpp:131`, `Value.cc:142`); the model's peer
  does not send it.

HTTP: a request that is split over two reads loses its request line and is
answered 400; a second request waits in the buffer until more arrives; a body is
never consumed.

Buffer, JSON and stubs:
- `shrink` leaves the indices wrong and `prepend` checks nothing; neither is used.
- A repeated key in a text fails an assertion (`Value.cc:158`); `Writer::Key` does
  not escape; `-inf` loses its sign; `Writer::Double` adds `.0` only to what has nothing
  but digits (`Writer.h:90`), so every negative whole double, `-0` too, is written and
  read back as an integer; an Int64 that fits comes back as an Int32, and
  `Procedure` then refuses either; a denormal double
  is written and then refused by Reader with `PARSE_NUMBER_TOO_BIG` (`Reader.h:187`,
  `:216`).
- The client's stub of a procedure without parameters is always refused; stubs of
  notifications call `Hello.Goodbye`, without params, and service stubs of
  notifications with params do not compile; an example of type null passes
  `validateParams`, which looks at the key, and aborts in `getGenericParams`; a
  definition whose params are an array aborts in `getObject`.

## 7. Plan

Done: 1 `EventLoop` with `Executor`, 2 `ThreadEventLoop`, 3 `TimerQueue`,
4 `TcpConnection`, 5 `AsyncLogging`, 6 `RpcServer`, 7 `ThreadPool`, 8 `TcpServer`,
9 `TcpClient` and `RpcClient`, 10 `Buffer` and `HttpServer`, 11 `Json` and `Stub`,
12 the proofs of section 5.

Left, in this order:

13. An abstract specification of a remote call, implemented by RpcClient and
    RpcServer together.
14. The destructors of TcpClient and Connector, with the use counts they read.

Not modelled: text templates and file names of the stub generator; white space,
reference counts, file streams and the pretty printer of jackson; the unused
members of Buffer; Timestamp, formatting, log files and the socket wrappers (values
and single system calls); Singleton and ThreadLocal (one call of pthread each);
BoundBlockingQueue (does not compile, unused); the example programs.
