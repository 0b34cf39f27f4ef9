------------------------------ MODULE Executor ------------------------------
(***************************************************************************)
(* What an EventLoop promises to whoever hands it a functor: a functor     *)
(* given to queueInLoop is run at most once, after every functor queued    *)
(* before it; a functor given to runInLoop by the loop's own thread is run *)
(* on the spot, ahead of the queue.  No thread, mutex or eventfd is        *)
(* mentioned: EventLoop is shown to implement this specification.          *)
(***************************************************************************)
EXTENDS Sequences

CONSTANT Functors       \* the functors of a run; each is handed over once

VARIABLES
  fresh,                \* functors nobody has handed over yet
  queue,                \* functors accepted and not yet started, in order
  ran                   \* functors started, in order

vars == <<fresh, queue, ran>>

Init ==
  /\ fresh = Functors
  /\ queue = <<>>
  /\ ran = <<>>

Accept(f) ==
  /\ f \in fresh
  /\ fresh' = fresh \ {f}
  /\ queue' = Append(queue, f)
  /\ UNCHANGED ran

RunInline(f) ==
  /\ f \in fresh
  /\ fresh' = fresh \ {f}
  /\ ran' = Append(ran, f)
  /\ UNCHANGED queue

RunNext ==
  /\ queue # <<>>
  /\ queue' = Tail(queue)
  /\ ran' = Append(ran, Head(queue))
  /\ UNCHANGED fresh

Next ==
  \/ \E f \in Functors : Accept(f) \/ RunInline(f)
  \/ RunNext

Spec == Init /\ [][Next]_vars
=============================================================================
