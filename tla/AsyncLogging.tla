---------------------------- MODULE AsyncLogging ----------------------------
(***************************************************************************)
(* base/AsyncLogging.*: the double-buffered log.  Any thread appends to    *)
(* currentBuffer_ under mutex_ and never waits for the disk; the back-end  *)
(* thread swaps the filled buffers out, under mutex_ too, and writes them. *)
(* Four buffers go round: two in the front (currentBuffer_, nextBuffer_)   *)
(* and two spares in the back (newBuffer1, newBuffer2) that the written    *)
(* ones replenish.  They are unique_ptrs that are moved from place to      *)
(* place, so each place is a buffer or NoBuffer.                           *)
(*                                                                         *)
(* A critical section is one step; the mutex is released inside timedWait  *)
(* (Wait, then Wake).  The n-th append appends the message n.  The file    *)
(* stands for all the files LogFile rolls through.                         *)
(***************************************************************************)
EXTENDS Integers, Sequences, Functions

CONSTANTS
  Capacity,             \* messages that fit into a buffer
  MaxBuffers,           \* more buffers than this in a batch are dropped (25)
  NoBuffer,             \* the null unique_ptr
  MaxMessages           \* bound on the appends of a run

ASSUME CapacityAssumption == Capacity \in Nat \ {0}
ASSUME MaxBuffersAssumption == MaxBuffers \in Nat /\ MaxBuffers >= 2
ASSUME MaxMessagesAssumption == MaxMessages \in Nat
ASSUME NoBufferAssumption == NoBuffer \notin Seq(Nat)

VARIABLES
  running,              \* running_
  owner,                \* where the owner is: start, stop, join
  pc,                   \* where the back end is in threadFunc
  currentBuffer,        \* currentBuffer_
  nextBuffer,           \* nextBuffer_
  buffers,              \* buffers_
  newBuffer1,           \* threadFunc's spare for currentBuffer_
  newBuffer2,           \* threadFunc's spare for nextBuffer_
  bufferToWrite,        \* BufferToWrite
  written,              \* how many of its buffers have been written
  file,                 \* what LogFile::append was given
  appended,             \* appends so far
  taken,                \* ghost: how many of them the last swap has taken over
  dropped               \* messages discarded because the back end fell behind

frontVars == <<currentBuffer, nextBuffer, buffers>>
backVars == <<newBuffer1, newBuffer2, bufferToWrite, written, taken>>
vars == <<running, owner, pc, frontVars, backVars, file, appended, dropped>>

Buffer == Seq(Nat)
BufferPtr == Buffer \cup {NoBuffer}

\* The types; the thread runs between start and join, and a batch exists only
\* while it is being written.
TypeOK ==
  /\ running \in BOOLEAN
  /\ owner \in {"constructed", "starting", "started", "stopping", "joined"}
  /\ pc \in {"unstarted", "created", "while", "wait", "swap", "write", "refill",
             "exited"}
  /\ currentBuffer \in BufferPtr
  /\ nextBuffer \in BufferPtr
  /\ buffers \in Seq(BufferPtr)
  /\ newBuffer1 \in BufferPtr
  /\ newBuffer2 \in BufferPtr
  /\ bufferToWrite \in Seq(BufferPtr)
  /\ written \in Nat
  /\ file \in Seq(Nat)
  /\ appended \in Nat
  /\ taken \in 0 .. appended
  /\ dropped \subseteq Nat
  /\ owner = "constructed" <=> pc = "unstarted"
  /\ owner = "joined" => pc = "exited"
  /\ pc \notin {"write", "refill"} => bufferToWrite = <<>>
  /\ pc # "write" => written = 0
  /\ written <= Len(bufferToWrite)

Init ==
  /\ running = FALSE
  /\ owner = "constructed"
  /\ pc = "unstarted"
  /\ currentBuffer = <<>>
  /\ nextBuffer = <<>>
  /\ buffers = <<>>
  /\ newBuffer1 = <<>>
  /\ newBuffer2 = <<>>
  /\ bufferToWrite = <<>>
  /\ written = 0
  /\ file = <<>>
  /\ appended = 0
  /\ taken = 0
  /\ dropped = {}

-----------------------------------------------------------------------------
(* The threads that log.                                                   *)

\* FixedBuffer::append silently ignores what does not fit.
AppendTo(buffer, m) ==
  IF Len(buffer) < Capacity THEN Append(buffer, m) ELSE buffer

\* append while currentBuffer_ has room ...
AppendToCurrent ==
  /\ Len(currentBuffer) < Capacity
  /\ currentBuffer' = AppendTo(currentBuffer, appended + 1)
  /\ UNCHANGED <<nextBuffer, buffers>>

\* ... and when it has none: queue it, go on with the spare or, if that has
\* been used too, with a new buffer, and signal cond_.
AppendToNext ==
  /\ Len(currentBuffer) >= Capacity
  /\ buffers' = Append(buffers, currentBuffer)
  /\ currentBuffer' =
       AppendTo(IF nextBuffer # NoBuffer THEN nextBuffer ELSE <<>>, appended + 1)
  /\ nextBuffer' = NoBuffer

AppendMessage ==
  /\ owner # "joined"
  /\ appended < MaxMessages
  /\ AppendToCurrent \/ AppendToNext
  /\ appended' = appended + 1
  /\ UNCHANGED <<running, owner, pc, backVars, file, dropped>>

-----------------------------------------------------------------------------
(* The owner.                                                              *)

Start ==
  /\ owner = "constructed"
  /\ owner' = "starting"
  /\ running' = TRUE
  /\ pc' = "created"
  /\ UNCHANGED <<frontVars, backVars, file, appended, dropped>>

\* start() returns when the thread has counted latch_ down.
StartReturns ==
  /\ owner = "starting"
  /\ pc # "created"
  /\ owner' = "started"
  /\ UNCHANGED <<running, pc, frontVars, backVars, file, appended, dropped>>

\* stop() clears running_ and signals cond_, neither under mutex_: the signal
\* is lost if the back end is between its tests and the wait.
Stop ==
  /\ owner = "started"
  /\ owner' = "stopping"
  /\ running' = FALSE
  /\ UNCHANGED <<pc, frontVars, backVars, file, appended, dropped>>

Join ==
  /\ owner = "stopping"
  /\ pc = "exited"
  /\ owner' = "joined"
  /\ UNCHANGED <<running, pc, frontVars, backVars, file, appended, dropped>>

-----------------------------------------------------------------------------
(* The back end.                                                           *)

CountDown ==
  /\ pc = "created"
  /\ pc' = "while"
  /\ UNCHANGED <<running, owner, frontVars, backVars, file, appended, dropped>>

TestRunning_Always == TRUE
TestRunning == running

\* The test of the while, on the way to the critical section.
While ==
  /\ pc = "while"
  /\ pc' = IF TestRunning THEN "swap" ELSE "exited"
  /\ UNCHANGED <<running, owner, frontVars, backVars, file, appended, dropped>>

\* Nothing to write yet: timedWait releases mutex_.
Wait ==
  /\ pc = "swap"
  /\ buffers = <<>>
  /\ pc' = "wait"
  /\ UNCHANGED <<running, owner, frontVars, backVars, file, appended, dropped>>

Woken_OnlyBySignal == buffers # <<>>
Woken == TRUE

CurrentPushed_OnlyIfFull ==
  IF Len(currentBuffer) < Capacity THEN buffers ELSE Append(buffers, currentBuffer)
CurrentPushed == Append(buffers, currentBuffer)

SpareNeeded_Always == TRUE
SpareNeeded == nextBuffer = NoBuffer

\* Take everything that was logged and leave the spares.
Swap ==
  /\ bufferToWrite' = CurrentPushed
  /\ buffers' = bufferToWrite
  /\ currentBuffer' = newBuffer1
  /\ newBuffer1' = NoBuffer
  /\ IF SpareNeeded
       THEN nextBuffer' = newBuffer2 /\ newBuffer2' = NoBuffer
       ELSE UNCHANGED <<nextBuffer, newBuffer2>>
  /\ pc' = "write"
  /\ taken' = appended
  /\ UNCHANGED <<running, owner, written, file, appended, dropped>>

SwapAtOnce == pc = "swap" /\ buffers # <<>> /\ Swap

\* timedWait returns, signalled or after flushInterval_; the code does not
\* look which, nor at buffers_ again.
Wake == pc = "wait" /\ Woken /\ Swap

\* Too far behind: all but the first two buffers of the batch are discarded.
DropExcess ==
  /\ pc = "write"
  /\ written = 0
  /\ Len(bufferToWrite) > MaxBuffers
  /\ bufferToWrite' = SubSeq(bufferToWrite, 1, 2)
  /\ dropped' = dropped \cup
       UNION {Range(bufferToWrite[i]) : i \in 3 .. Len(bufferToWrite)}
  /\ UNCHANGED <<running, owner, pc, frontVars, newBuffer1, newBuffer2, written,
                 taken, file, appended>>

WriteBuffer ==
  /\ pc = "write"
  /\ written > 0 \/ Len(bufferToWrite) <= MaxBuffers
  /\ written < Len(bufferToWrite)
  /\ file' = file \o bufferToWrite[written + 1]
  /\ written' = written + 1
  /\ UNCHANGED <<running, owner, pc, frontVars, newBuffer1, newBuffer2,
                 bufferToWrite, taken, appended, dropped>>

\* The batch is written; resize(2) keeps what can replenish the spares.
Resize ==
  /\ pc = "write"
  /\ written = Len(bufferToWrite)
  /\ pc' = "refill"
  /\ bufferToWrite' =
       SubSeq(bufferToWrite, 1, IF Len(bufferToWrite) > 2 THEN 2
                                ELSE Len(bufferToWrite))
  /\ written' = 0
  /\ UNCHANGED <<running, owner, frontVars, newBuffer1, newBuffer2, taken,
                 file, appended, dropped>>

Emptied_NotReset(buffer) == buffer
Emptied(buffer) == <<>>

Batch == <<>>

\* Both spares are replenished from the back of the batch, as needed; they
\* are reset, the rest of the batch is freed and the file flushed.
Refill ==
  /\ pc = "refill"
  /\ pc' = "while"
  /\ LET last == Len(bufferToWrite)
         second == IF newBuffer1 = NoBuffer THEN last - 1 ELSE last
     IN
     /\ newBuffer1' = IF newBuffer1 = NoBuffer
                        THEN Emptied(bufferToWrite[last]) ELSE newBuffer1
     /\ newBuffer2' = IF newBuffer2 = NoBuffer
                        THEN Emptied(bufferToWrite[second]) ELSE newBuffer2
  /\ bufferToWrite' = Batch
  /\ UNCHANGED <<running, owner, frontVars, written, taken, file, appended,
                 dropped>>

BackStep ==
  \/ CountDown \/ While
  \/ Wait \/ SwapAtOnce \/ Wake
  \/ DropExcess \/ WriteBuffer \/ Resize \/ Refill

Next ==
  \/ AppendMessage
  \/ Start \/ StartReturns \/ Stop \/ Join
  \/ BackStep

Spec == Init /\ [][Next]_vars

\* The back end keeps running, timedWait returns in the end, and the owner
\* finishes the calls it makes; nothing makes it call them.
Fairness == WF_vars(BackStep) /\ WF_vars(StartReturns) /\ WF_vars(Join)

FairSpec == Spec /\ Fairness

-----------------------------------------------------------------------------
Missing ==
  (IF newBuffer1 = NoBuffer THEN 1 ELSE 0) +
  (IF newBuffer2 = NoBuffer THEN 1 ELSE 0)

\* No null unique_ptr is dereferenced and no element is taken from an empty
\* vector: append always has a buffer, so has the swap that follows, and the
\* batch is long enough to replenish every spare that was given away.  The
\* code tests none of this.
BuffersAvailable ==
  /\ currentBuffer # NoBuffer
  /\ \A i \in DOMAIN buffers : buffers[i] # NoBuffer
  /\ \A i \in DOMAIN bufferToWrite : bufferToWrite[i] # NoBuffer
  /\ pc \in {"write", "refill"} => Missing <= Len(bufferToWrite)
  /\ pc \notin {"write", "refill"} => newBuffer1 # NoBuffer

Contents(bs, first) ==
  UNION {Range(bs[i]) : i \in {j \in DOMAIN bs : j >= first}}

\* Messages in the front: they wait for the next swap.
InFront == Range(currentBuffer) \cup Contents(buffers, 1)

\* Messages the back end has taken over and is about to write.
InFlight ==
  IF pc = "write" THEN Contents(bufferToWrite, written + 1) ELSE {}

\* What a swap has taken over is in the file, about to be written, or among
\* the messages dropped because the back end fell too far behind; what was
\* appended since is in the front, and nothing else is there: no message gets
\* lost in the moves between the buffers, and none comes back in a spare that
\* was not emptied.  The front is looked at by the next swap only, and a back
\* end that finds running_ cleared exits without one: then nothing is about to
\* be written, and exactly the messages appended after the last swap never
\* reach the file, whether they came before stop() or after it.
NothingLost ==
  /\ 1 .. taken \subseteq Range(file) \cup InFlight \cup dropped
  /\ InFront = taken + 1 .. appended

\* The file has the messages in the order of the appends, none of them twice.
WrittenInOrder == \A i, j \in DOMAIN file : i < j => file[i] < file[j]

\* Every message reaches the file without another append to push it there,
\* unless it is dropped or the log is stopped first.
Flushed ==
  \A m \in 1 .. MaxMessages :
    (m <= appended /\ owner = "started") ~>
      (m \in Range(file) \cup dropped \/ ~running)

\* stop() returns, even if its signal came when nobody was waiting.
StopReturns == owner = "stopping" ~> owner = "joined"

=============================================================================
