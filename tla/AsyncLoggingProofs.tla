------------------------- MODULE AsyncLoggingProofs -------------------------
(***************************************************************************)
(* Proofs about AsyncLogging: the types, that no null unique_ptr is ever   *)
(* dereferenced, that no message is lost, and that the file is in the      *)
(* order of the appends, for buffers of any capacity and any bound on the  *)
(* batches.                                                                *)
(***************************************************************************)
EXTENDS AsyncLogging, SequenceTheorems, TLAPS

-----------------------------------------------------------------------------
\* Spares are empty wherever they are.  The back end has given none away
\* except while it has a batch, and the front has used its spare only if it
\* has queued a buffer since: that is why the batch can replenish both.
Spares ==
  /\ nextBuffer \in {<<>>, NoBuffer}
  /\ newBuffer1 \in {<<>>, NoBuffer}
  /\ newBuffer2 \in {<<>>, NoBuffer}
  /\ pc \notin {"write", "refill"} => newBuffer2 # NoBuffer
  /\ nextBuffer = NoBuffer => buffers # <<>>

BufferInv == TypeOK /\ BuffersAvailable /\ Spares

\* No buffer is the null pointer.
LEMMA BufferNotNull ==
  ASSUME NEW b \in Seq(Nat)
  PROVE  b # NoBuffer
BY NoBufferAssumption

\* An empty buffer is a buffer, not the null pointer.
LEMMA EmptyIsBuffer == <<>> \in Seq(Nat) /\ <<>> # NoBuffer
<1>1. <<>> \in Seq(Nat)
  OBVIOUS
<1>2. QED
  BY <1>1, BufferNotNull

\* buffers_ is not empty once a buffer was pushed.
LEMMA QueueNotEmpty ==
  ASSUME NEW bs \in Seq(BufferPtr), NEW b \in BufferPtr
  PROVE  Append(bs, b) # <<>>
BY AppendProperties

\* FixedBuffer::append returns a buffer.
LEMMA AppendToType ==
  ASSUME NEW b \in Buffer, NEW m \in Nat
  PROVE  AppendTo(b, m) \in Buffer
BY DEF AppendTo, Buffer

\* An unchanged state keeps the invariant, and so does what the owner does.
LEMMA BufferInvInit == Init => BufferInv
<1> SUFFICES ASSUME Init PROVE BufferInv
    OBVIOUS
<1>1. <<>> \in Seq(Nat) /\ <<>> # NoBuffer
  BY EmptyIsBuffer
<1>2. TypeOK
  <2>1. running \in BOOLEAN
    BY DEF Init
  <2>2. <<>> \in BufferPtr /\ <<>> \in Seq(BufferPtr) /\ Len(<<>>) = 0
    BY <1>1 DEF Buffer, BufferPtr
  <2>3. QED
    BY <1>1, <2>1, <2>2 DEF Init, TypeOK
<1>3. BuffersAvailable
  BY <1>1 DEF Init, BuffersAvailable
<1>4. QED
  BY <1>1, <1>2, <1>3 DEF Init, BufferInv, Spares

\* append keeps the buffers where they belong.
LEMMA AppendStep == BufferInv /\ AppendMessage => BufferInv'
<1> SUFFICES ASSUME BufferInv, AppendMessage PROVE BufferInv'
    OBVIOUS
<1> USE DEF BufferInv, TypeOK, BuffersAvailable, Spares, Buffer, BufferPtr
<1>1. currentBuffer \in Seq(Nat) /\ appended + 1 \in Nat
  OBVIOUS
<1>2. UNCHANGED <<running, owner, pc, backVars, file, dropped>> /\ appended' = appended + 1
  BY DEF AppendMessage
<1>3. CASE AppendToCurrent
  <2>1. currentBuffer' \in Seq(Nat)
    BY <1>1, <1>3, AppendToType DEF AppendToCurrent
  <2>2. currentBuffer' # NoBuffer
    BY <2>1, BufferNotNull
  <2>3. QED
    BY <1>1, <1>2, <1>3, <2>1, <2>2 DEF AppendToCurrent, backVars, Missing
<1>4. CASE AppendToNext
  <2>1. currentBuffer' \in Seq(Nat) /\ currentBuffer' # NoBuffer
    <3>1. (IF nextBuffer # NoBuffer THEN nextBuffer ELSE <<>>) \in Buffer
      BY EmptyIsBuffer
    <3>2. currentBuffer' \in Buffer
      BY <1>1, <1>4, <3>1, AppendToType DEF AppendToNext
    <3>3. QED
      BY <3>2, BufferNotNull
  <2>2. /\ buffers' \in Seq(BufferPtr)
        /\ buffers' # <<>>
        /\ \A i \in DOMAIN buffers' : buffers'[i] # NoBuffer
        /\ nextBuffer' = NoBuffer
    <3>1. buffers' = Append(buffers, currentBuffer) /\ nextBuffer' = NoBuffer
      BY <1>4 DEF AppendToNext
    <3>2. Len(buffers') = Len(buffers) + 1 /\ buffers' \in Seq(BufferPtr)
      BY <3>1
    <3>3. \A i \in DOMAIN buffers' : buffers'[i] # NoBuffer
      BY <3>1
    <3>4. buffers' # <<>>
      <4>1. buffers \in Seq(BufferPtr) /\ currentBuffer \in BufferPtr
        OBVIOUS
      <4>2. Append(buffers, currentBuffer) # <<>>
        BY <4>1, QueueNotEmpty
      <4>3. QED
        BY <3>1, <4>2
    <3>5. QED
      BY <3>1, <3>2, <3>3, <3>4
  <2>3. QED
    BY <1>1, <1>2, <2>1, <2>2 DEF backVars, Missing
<1>5. QED
  BY <1>3, <1>4 DEF AppendMessage

\* So do the calls of the thread that owns the logger.
LEMMA OwnerStep == BufferInv /\ (Start \/ StartReturns \/ Stop \/ Join) => BufferInv'
<1> SUFFICES ASSUME BufferInv, Start \/ StartReturns \/ Stop \/ Join
             PROVE  BufferInv'
    OBVIOUS
<1> USE DEF BufferInv, TypeOK, BuffersAvailable, Spares, Missing, frontVars, backVars
<1>1. CASE Start
  BY <1>1 DEF Start
<1>2. CASE StartReturns
  BY <1>2 DEF StartReturns
<1>3. CASE Stop
  BY <1>3 DEF Stop
<1>4. CASE Join
  BY <1>4 DEF Join
<1>5. QED
  BY <1>1, <1>2, <1>3, <1>4

\* The swap gives one spare away, and the other only if a buffer was queued.
LEMMA SwapStep == BufferInv /\ pc \in {"swap", "wait"} /\ Swap => BufferInv'
<1> SUFFICES ASSUME BufferInv, pc \in {"swap", "wait"}, Swap PROVE BufferInv'
    OBVIOUS
<1> USE DEF BufferInv, TypeOK, BuffersAvailable, Spares, Buffer, BufferPtr
<1>1. bufferToWrite' = Append(buffers, currentBuffer) /\ buffers' = <<>>
  BY DEF Swap, CurrentPushed
<1>2. /\ bufferToWrite' \in Seq(BufferPtr)
      /\ Len(bufferToWrite') = Len(buffers) + 1
      /\ \A i \in DOMAIN bufferToWrite' : bufferToWrite'[i] # NoBuffer
  BY <1>1
<1>3. currentBuffer' = <<>> /\ newBuffer1' = NoBuffer /\ newBuffer2 = <<>>
  BY DEF Swap
<1>4. /\ nextBuffer' = <<>>
      /\ newBuffer2' \in {<<>>, NoBuffer}
      /\ newBuffer2' = NoBuffer => buffers # <<>>
  BY <1>3 DEF Swap, SpareNeeded
<1>5. Missing' <= Len(bufferToWrite')
  BY <1>2, <1>3, <1>4 DEF Missing
<1>6. QED
  BY <1>1, <1>2, <1>3, <1>4, <1>5 DEF Swap

\* So does every step of the logging thread.
LEMMA BackStepInv == BufferInv /\ BackStep => BufferInv'
<1> SUFFICES ASSUME BufferInv, BackStep PROVE BufferInv'
    OBVIOUS
<1> USE DEF BufferInv, TypeOK, BuffersAvailable, Spares, Buffer, BufferPtr
<1>1. CASE CountDown
  BY <1>1 DEF CountDown, frontVars, backVars, Missing
<1>2. CASE While
  BY <1>2 DEF While, frontVars, backVars, Missing
<1>3. CASE Wait
  BY <1>3 DEF Wait, frontVars, backVars, Missing
<1>4. CASE SwapAtOnce
  BY <1>4, SwapStep DEF SwapAtOnce
<1>5. CASE Wake
  BY <1>5, SwapStep DEF Wake
<1>6. CASE DropExcess
  <2>1. /\ bufferToWrite' \in Seq(BufferPtr)
        /\ Len(bufferToWrite') = 2
        /\ \A i \in DOMAIN bufferToWrite' : bufferToWrite'[i] # NoBuffer
    <3>1. bufferToWrite' = SubSeq(bufferToWrite, 1, 2) /\ Len(bufferToWrite) > 2
      BY <1>6, MaxBuffersAssumption DEF DropExcess
    <3>2. QED
      BY <3>1
  <2>2. Missing' <= 2
    BY DEF Missing
  <2>3. dropped' \subseteq Nat
    <3>1. \A i \in 3 .. Len(bufferToWrite) : Range(bufferToWrite[i]) \subseteq Nat
      BY DEF Range
    <3>2. QED
      BY <1>6, <3>1 DEF DropExcess
  <2>4. QED
    BY <1>6, <2>1, <2>2, <2>3 DEF DropExcess, frontVars
<1>7. CASE WriteBuffer
  <2>1. bufferToWrite[written + 1] \in Seq(Nat)
    BY <1>7 DEF WriteBuffer
  <2>2. file' \in Seq(Nat)
    BY <1>7, <2>1 DEF WriteBuffer
  <2>3. QED
    BY <1>7, <2>2 DEF WriteBuffer, frontVars, Missing
<1>8. CASE Resize
  <2>1. /\ bufferToWrite' \in Seq(BufferPtr)
        /\ Len(bufferToWrite') = IF Len(bufferToWrite) > 2 THEN 2 ELSE Len(bufferToWrite)
        /\ \A i \in DOMAIN bufferToWrite' : bufferToWrite'[i] # NoBuffer
    BY <1>8 DEF Resize
  <2>2. Missing' = Missing /\ Missing <= 2 /\ Missing <= Len(bufferToWrite)
    BY <1>8 DEF Resize, Missing
  <2>3. QED
    BY <1>8, <2>1, <2>2 DEF Resize, frontVars
<1>9. CASE Refill
  <2>1. /\ newBuffer1' = <<>>
        /\ newBuffer2' = <<>>
        /\ bufferToWrite' = <<>>
    BY <1>9 DEF Refill, Emptied, Batch
  <2>2. written = 0
    BY <1>9 DEF Refill
  <2>3. newBuffer1' # NoBuffer /\ newBuffer2' # NoBuffer
    BY <2>1, EmptyIsBuffer
  <2>4. TypeOK'
    <3>1. /\ newBuffer1' \in BufferPtr /\ newBuffer2' \in BufferPtr
          /\ bufferToWrite' \in Seq(BufferPtr) /\ Len(bufferToWrite') = 0
      BY <2>1, EmptyIsBuffer
    <3>2. QED
      BY <1>9, <2>2, <3>1, <2>1 DEF Refill, frontVars
  <2>5. BuffersAvailable'
    BY <1>9, <2>1, <2>3 DEF Refill, frontVars
  <2>6. Spares'
    BY <1>9, <2>1, <2>3 DEF Refill, frontVars
  <2>7. QED
    BY <2>4, <2>5, <2>6
<1>10. QED
  BY <1>1, <1>2, <1>3, <1>4, <1>5, <1>6, <1>7, <1>8, <1>9 DEF BackStep

\* Every step keeps the buffers where they belong.
LEMMA BufferInvStep == BufferInv /\ [Next]_vars => BufferInv'
<1> SUFFICES ASSUME BufferInv, [Next]_vars PROVE BufferInv'
    OBVIOUS
<1>1. CASE UNCHANGED vars
  BY <1>1 DEF BufferInv, TypeOK, BuffersAvailable, Spares, Missing, vars, frontVars, backVars
<1>2. QED
  BY <1>1, AppendStep, OwnerStep, BackStepInv DEF Next

\* The buffers are always where they belong.
LEMMA BufferInvariant == Spec => []BufferInv
BY BufferInvInit, BufferInvStep, PTL DEF Spec

\* The types of the state, the life of the thread and of its batch.
THEOREM TypeCorrect == Spec => []TypeOK
BY BufferInvariant, PTL DEF BufferInv

\* append and threadFunc never dereference a null unique_ptr nor take from an
\* empty vector, whatever the capacity of a buffer and the size of a batch.
THEOREM NeverNull == Spec => []BuffersAvailable
BY BufferInvariant, PTL DEF BufferInv

-----------------------------------------------------------------------------
\* Where the messages are that the back end has taken over.
Stored == Range(file) \cup InFlight \cup dropped

\* A message is in a list of buffers when it is in one of them.
LEMMA ContentsMember ==
  ASSUME NEW bs, NEW first, NEW m
  PROVE  m \in Contents(bs, first) <=>
           \E i \in DOMAIN bs : i >= first /\ m \in Range(bs[i])
BY DEF Contents

\* Appending adds one element.
LEMMA RangeAppend ==
  ASSUME NEW S, NEW s \in Seq(S), NEW e \in S
  PROVE  Range(Append(s, e)) = Range(s) \cup {e}
<1>1. DOMAIN Append(s, e) = 1 .. Len(s) + 1 /\ DOMAIN s = 1 .. Len(s)
  OBVIOUS
<1>2. \A i \in 1 .. Len(s) : Append(s, e)[i] = s[i]
  OBVIOUS
<1>3. Append(s, e)[Len(s) + 1] = e /\ Len(s) + 1 \in DOMAIN Append(s, e)
  OBVIOUS
<1>4. QED
  BY <1>1, <1>2, <1>3 DEF Range

\* Concatenation keeps the elements of both.
LEMMA RangeConcat ==
  ASSUME NEW S, NEW s \in Seq(S), NEW t \in Seq(S)
  PROVE  Range(s) \subseteq Range(s \o t) /\ Range(t) \subseteq Range(s \o t)
<1>1. \A i \in 1 .. Len(s) : i \in 1 .. Len(s \o t) /\ (s \o t)[i] = s[i]
  OBVIOUS
<1>2. \A i \in 1 .. Len(t) :
        Len(s) + i \in 1 .. Len(s \o t) /\ (s \o t)[Len(s) + i] = t[i]
  OBVIOUS
<1>3. /\ DOMAIN s = 1 .. Len(s)
      /\ DOMAIN t = 1 .. Len(t)
      /\ DOMAIN (s \o t) = 1 .. Len(s \o t)
  OBVIOUS
<1>4. QED
  BY <1>1, <1>2, <1>3 DEF Range

\* A buffer queued behind the others takes its messages along.
LEMMA ContentsAppend ==
  ASSUME NEW bs \in Seq(BufferPtr), NEW b \in BufferPtr, NEW m
  PROVE  m \in Contents(Append(bs, b), 1) <=>
           m \in Contents(bs, 1) \/ m \in Range(b)
<1>1. DOMAIN Append(bs, b) = 1 .. Len(bs) + 1 /\ DOMAIN bs = 1 .. Len(bs)
  OBVIOUS
<1>2. \A i \in 1 .. Len(bs) : Append(bs, b)[i] = bs[i]
  OBVIOUS
<1>3. Append(bs, b)[Len(bs) + 1] = b /\ Len(bs) \in Nat
  OBVIOUS
<1>4. ASSUME m \in Contents(bs, 1) PROVE m \in Contents(Append(bs, b), 1)
  <2>1. PICK i \in 1 .. Len(bs) : m \in Range(bs[i])
    BY <1>1, <1>4, ContentsMember
  <2>2. /\ i \in DOMAIN Append(bs, b) /\ i >= 1
        /\ m \in Range(Append(bs, b)[i])
    BY <1>1, <1>2, <1>3, <2>1
  <2>3. QED
    BY <2>2, ContentsMember
<1>5. ASSUME m \in Range(b) PROVE m \in Contents(Append(bs, b), 1)
  <2>1. /\ Len(bs) + 1 \in DOMAIN Append(bs, b) /\ Len(bs) + 1 >= 1
        /\ m \in Range(Append(bs, b)[Len(bs) + 1])
    BY <1>1, <1>3, <1>5
  <2>2. QED
    BY <2>1, ContentsMember
<1>6. ASSUME m \in Contents(Append(bs, b), 1)
      PROVE  m \in Contents(bs, 1) \/ m \in Range(b)
  <2>1. PICK i \in 1 .. Len(bs) + 1 : m \in Range(Append(bs, b)[i])
    BY <1>1, <1>6, ContentsMember
  <2>2. CASE i = Len(bs) + 1
    BY <1>3, <2>1, <2>2
  <2>3. CASE i \in 1 .. Len(bs)
    <3>1. i \in DOMAIN bs /\ i >= 1 /\ m \in Range(bs[i])
      BY <1>1, <1>2, <2>1, <2>3
    <3>2. QED
      BY <3>1, ContentsMember
  <2>4. QED
    BY <1>3, <2>1, <2>2, <2>3
<1>7. QED
  BY <1>4, <1>5, <1>6

\* append puts its message into the front.
LEMMA AppendFront ==
  BufferInv /\ AppendMessage =>
    Stored' = Stored /\ InFront' = InFront \cup {appended + 1}
<1> SUFFICES ASSUME BufferInv, AppendMessage
             PROVE  Stored' = Stored /\ InFront' = InFront \cup {appended + 1}
    OBVIOUS
<1>1. /\ UNCHANGED <<file, dropped, pc, bufferToWrite, written>>
      /\ currentBuffer \in Seq(Nat) /\ buffers \in Seq(BufferPtr)
      /\ appended + 1 \in Nat
  BY DEF AppendMessage, backVars, BufferInv, TypeOK, BuffersAvailable, Buffer, BufferPtr
<1>2. SUFFICES Range(currentBuffer') \cup Contents(buffers', 1) =
                 Range(currentBuffer) \cup Contents(buffers, 1) \cup {appended + 1}
  BY <1>1 DEF Stored, InFlight, InFront, Contents
<1>3. CASE AppendToCurrent
  <2>1. currentBuffer' = Append(currentBuffer, appended + 1) /\ buffers' = buffers
    BY <1>3 DEF AppendToCurrent, AppendTo
  <2>2. Range(Append(currentBuffer, appended + 1)) = Range(currentBuffer) \cup {appended + 1}
    BY <1>1, RangeAppend
  <2>3. Range(currentBuffer') = Range(currentBuffer) \cup {appended + 1}
    BY <2>1, <2>2
  <2>4. Contents(buffers', 1) = Contents(buffers, 1)
    BY <2>1
  <2>5. QED
    BY <2>3, <2>4
<1>4. CASE AppendToNext
  <2>1. buffers' = Append(buffers, currentBuffer)
    BY <1>4 DEF AppendToNext
  <2>2. currentBuffer' = Append(<<>>, appended + 1)
    <3>1. (IF nextBuffer # NoBuffer THEN nextBuffer ELSE <<>>) = <<>>
      BY DEF BufferInv, Spares
    <3>2. Len(<<>>) < Capacity
      BY CapacityAssumption
    <3>3. QED
      BY <1>4, <3>1, <3>2 DEF AppendToNext, AppendTo
  <2>3. Range(currentBuffer') = {appended + 1}
    <3>1. <<>> \in Seq(Nat) /\ Range(<<>>) = {}
      BY DEF Range
    <3>2. Range(Append(<<>>, appended + 1)) = Range(<<>>) \cup {appended + 1}
      BY <1>1, <3>1, RangeAppend
    <3>3. QED
      BY <2>2, <3>1, <3>2
  <2>4. currentBuffer \in BufferPtr
    BY <1>1 DEF BufferPtr, Buffer
  <2>5. \A m : m \in Contents(buffers', 1) <=>
                 m \in Contents(buffers, 1) \/ m \in Range(currentBuffer)
    BY <1>1, <2>1, <2>4, ContentsAppend
  <2>6. QED
    BY <2>3, <2>5
<1>5. QED
  BY <1>3, <1>4 DEF AppendMessage

\* The swap moves both places where the front holds messages into the batch.
LEMMA SwapStored ==
  BufferInv /\ pc \in {"swap", "wait"} /\ Swap =>
    /\ Stored \cup InFront \subseteq Stored'
    /\ InFront' = {}
    /\ taken' = appended /\ appended' = appended
<1> SUFFICES ASSUME BufferInv, pc \in {"swap", "wait"}, Swap
             PROVE  /\ Stored \cup InFront \subseteq Stored'
                    /\ InFront' = {}
                    /\ taken' = appended /\ appended' = appended
    OBVIOUS
<1>1. /\ bufferToWrite' = Append(buffers, currentBuffer)
      /\ written' = 0 /\ pc' = "write"
      /\ UNCHANGED <<file, dropped>>
  BY DEF Swap, CurrentPushed, BufferInv, TypeOK
<1>2. buffers \in Seq(BufferPtr) /\ currentBuffer \in BufferPtr
  BY DEF BufferInv, TypeOK
<1>3. \A m : m \in Contents(bufferToWrite', 1) <=>
               m \in Contents(buffers, 1) \/ m \in Range(currentBuffer)
  BY <1>1, <1>2, ContentsAppend
<1>4. InFlight = {}
  BY DEF InFlight
<1>5. Contents(bufferToWrite', 1) \subseteq InFlight'
  BY <1>1 DEF InFlight
<1>6. InFront' = {}
  <2>1. currentBuffer' = <<>> /\ buffers' = <<>>
    BY DEF Swap, BufferInv, TypeOK, BuffersAvailable, Spares
  <2>2. QED
    BY <2>1 DEF InFront, Contents, Range
<1>7. QED
  BY <1>1, <1>3, <1>4, <1>5, <1>6 DEF Stored, InFront, Swap

\* The rest of the logging thread moves or drops messages and loses none.
LEMMA BackStored ==
  BufferInv /\ BackStep /\ ~(SwapAtOnce \/ Wake) => Stored \subseteq Stored'
<1> SUFFICES ASSUME BufferInv, BackStep, ~(SwapAtOnce \/ Wake)
             PROVE  Stored \subseteq Stored'
    OBVIOUS
<1>1. /\ bufferToWrite \in Seq(BufferPtr) /\ written \in Nat
      /\ written <= Len(bufferToWrite)
      /\ DOMAIN bufferToWrite = 1 .. Len(bufferToWrite)
  BY DEF BufferInv, TypeOK
<1>2. CASE CountDown \/ While \/ Wait
  <2>1. /\ UNCHANGED <<file, dropped, currentBuffer, buffers>>
        /\ pc # "write"
    BY <1>2 DEF CountDown, While, Wait, frontVars
  <2>2. QED
    BY <2>1 DEF Stored, InFlight, Contents
<1>4. CASE DropExcess
  <2>1. /\ UNCHANGED <<file, currentBuffer, buffers, pc, written>>
        /\ pc = "write" /\ written = 0
        /\ Len(bufferToWrite) > 2
        /\ bufferToWrite' = SubSeq(bufferToWrite, 1, 2)
        /\ dropped' = dropped \cup
             UNION {Range(bufferToWrite[i]) : i \in 3 .. Len(bufferToWrite)}
    BY <1>4, MaxBuffersAssumption DEF DropExcess, frontVars
  <2>2. /\ DOMAIN bufferToWrite' = 1 .. 2
        /\ \A i \in 1 .. 2 : bufferToWrite'[i] = bufferToWrite[i]
    BY <1>1, <2>1
  <2>3. ASSUME NEW m \in Contents(bufferToWrite, 1)
        PROVE  m \in Contents(bufferToWrite', 1) \cup dropped'
    <3>1. PICK i \in DOMAIN bufferToWrite : i >= 1 /\ m \in Range(bufferToWrite[i])
      BY <2>3, ContentsMember
    <3>2. CASE i <= 2
      BY <1>1, <2>2, <3>1, <3>2, ContentsMember
    <3>3. CASE i > 2
      <4>1. i \in 3 .. Len(bufferToWrite)
        BY <1>1, <3>1, <3>3
      <4>2. QED
        BY <2>1, <3>1, <4>1
    <3>4. QED
      BY <1>1, <3>2, <3>3
  <2>4. /\ InFlight = Contents(bufferToWrite, 1)
        /\ InFlight' = Contents(bufferToWrite', 1)
    BY <2>1 DEF InFlight, Contents
  <2>5. QED
    BY <2>1, <2>3, <2>4 DEF Stored
<1>5. CASE WriteBuffer
  <2>1. /\ UNCHANGED <<dropped, currentBuffer, buffers, pc, bufferToWrite>>
        /\ pc = "write" /\ written < Len(bufferToWrite)
        /\ written' = written + 1
        /\ file' = file \o bufferToWrite[written + 1]
    BY <1>5 DEF WriteBuffer, frontVars
  <2>2. bufferToWrite[written + 1] \in Seq(Nat) /\ file \in Seq(Nat)
    <3>1. written + 1 \in DOMAIN bufferToWrite
      BY <1>1, <2>1
    <3>2. bufferToWrite[written + 1] # NoBuffer /\ file \in Seq(Nat)
      BY <3>1 DEF BufferInv, TypeOK, BuffersAvailable
    <3>3. bufferToWrite[written + 1] \in BufferPtr
      BY <1>1, <3>1
    <3>4. QED
      BY <3>2, <3>3 DEF BufferPtr, Buffer
  <2>3. /\ Range(file) \subseteq Range(file')
        /\ Range(bufferToWrite[written + 1]) \subseteq Range(file')
    BY <2>1, <2>2, RangeConcat
  <2>4. ASSUME NEW m \in Contents(bufferToWrite, written + 1)
        PROVE  m \in Range(file') \cup Contents(bufferToWrite, written' + 1)
    <3>1. PICK i \in DOMAIN bufferToWrite :
            i >= written + 1 /\ m \in Range(bufferToWrite[i])
      BY <2>4, ContentsMember
    <3>2. CASE i = written + 1
      BY <2>3, <3>1, <3>2
    <3>3. CASE i # written + 1
      <4>1. i >= written' + 1
        BY <1>1, <2>1, <3>1, <3>3
      <4>2. QED
        BY <3>1, <4>1, ContentsMember
    <3>4. QED
      BY <3>2, <3>3
  <2>5. /\ InFlight = Contents(bufferToWrite, written + 1)
        /\ InFlight' = Contents(bufferToWrite, written' + 1)
    BY <2>1 DEF InFlight, Contents
  <2>6. QED
    BY <2>1, <2>3, <2>4, <2>5 DEF Stored
<1>6. CASE Resize
  <2>1. /\ UNCHANGED <<file, dropped, currentBuffer, buffers>>
        /\ pc = "write" /\ written = Len(bufferToWrite) /\ pc' = "refill"
    BY <1>6 DEF Resize, frontVars
  <2>2. \A m : m \notin Contents(bufferToWrite, written + 1)
    BY <1>1, <2>1, ContentsMember
  <2>3. InFlight = Contents(bufferToWrite, written + 1) /\ InFlight' = {}
    BY <2>1 DEF InFlight, Contents
  <2>4. QED
    BY <2>1, <2>2, <2>3 DEF Stored
<1>7. CASE Refill
  <2>1. /\ UNCHANGED <<file, dropped, currentBuffer, buffers>>
        /\ pc # "write" /\ pc' # "write"
    BY <1>7 DEF Refill, frontVars
  <2>2. QED
    BY <2>1 DEF Stored, InFlight, Contents
<1>8. QED
  BY <1>2, <1>4, <1>5, <1>6, <1>7 DEF BackStep

\* No step loses a message that was not dropped.
LEMMA NothingLostStep == NothingLost /\ BufferInv /\ [Next]_vars => NothingLost'
<1> SUFFICES ASSUME NothingLost, BufferInv, [Next]_vars PROVE NothingLost'
    OBVIOUS
<1>1. /\ appended \in Nat /\ taken \in 0 .. appended
      /\ 1 .. taken \subseteq Stored
      /\ InFront = taken + 1 .. appended
  BY DEF NothingLost, Stored, BufferInv, TypeOK
<1>2. CASE AppendMessage
  <2>1. /\ Stored' = Stored /\ InFront' = InFront \cup {appended + 1}
        /\ appended' = appended + 1 /\ taken' = taken
    BY <1>2, AppendFront DEF AppendMessage, backVars
  <2>2. taken + 1 .. appended + 1 = (taken + 1 .. appended) \cup {appended + 1}
    BY <1>1
  <2>3. QED
    BY <1>1, <2>1, <2>2 DEF NothingLost, Stored
<1>3. CASE SwapAtOnce \/ Wake
  <2>1. /\ Stored \cup InFront \subseteq Stored'
        /\ InFront' = {} /\ taken' = appended /\ appended' = appended
    BY <1>3, SwapStored DEF SwapAtOnce, Wake
  <2>2. 1 .. appended \subseteq (1 .. taken) \cup (taken + 1 .. appended)
    BY <1>1
  <2>3. 1 .. appended \subseteq Stored \cup InFront
    BY <1>1, <2>2
  <2>4. appended + 1 .. appended = {}
    BY <1>1
  <2>5. QED
    BY <2>1, <2>3, <2>4 DEF NothingLost, Stored
<1>4. CASE BackStep /\ ~(SwapAtOnce \/ Wake)
  <2>1. UNCHANGED <<appended, taken, currentBuffer, buffers>>
    BY <1>4 DEF BackStep, CountDown, While, Wait, DropExcess, WriteBuffer, Resize,
                Refill, frontVars, backVars
  <2>2. Stored \subseteq Stored'
    BY <1>4, BackStored
  <2>3. QED
    BY <1>1, <2>1, <2>2 DEF NothingLost, Stored, InFront, Contents
<1>5. CASE Start \/ StartReturns \/ Stop \/ Join
  <2>1. /\ UNCHANGED <<file, dropped, currentBuffer, buffers, bufferToWrite,
                       written, taken, appended>>
        /\ pc = "write" <=> pc' = "write"
    BY <1>5 DEF Start, StartReturns, Stop, Join, frontVars, backVars,
                BufferInv, TypeOK
  <2>2. QED
    BY <2>1 DEF NothingLost, InFront, InFlight, Contents
<1>6. CASE UNCHANGED vars
  BY <1>6 DEF NothingLost, InFront, InFlight, Contents, vars, frontVars, backVars
<1>7. QED
  BY <1>2, <1>3, <1>4, <1>5, <1>6 DEF Next

\* Every message that a swap has taken over is in the file, about to be written,
\* or was dropped because the back end had fallen behind; those appended since,
\* and no others, are in the front - for good, if the back end has exited.
THEOREM NoMessageLost == Spec => []NothingLost
<1>1. Init => NothingLost
  <2>1. 1 .. 0 = {}
    OBVIOUS
  <2>2. QED
    BY <2>1 DEF Init, NothingLost, InFront, Contents, Range
<1>2. QED
  BY <1>1, NothingLostStep, BufferInvariant, PTL DEF Spec

-----------------------------------------------------------------------------
(* The order of the messages.                                              *)

Increasing(s) == \A a, b \in 1 .. Len(s) : a < b => s[a] < s[b]

UpTo(s, n) == \A a \in 1 .. Len(s) : s[a] <= n

\* Every element of s is less than every element of t.
Before(s, t) == \A a \in 1 .. Len(s), b \in 1 .. Len(t) : s[a] < t[b]

Good(f, s, n) == Increasing(s) /\ UpTo(s, n) /\ Before(f, s)

\* The messages of f, then of the sequences of line one after the other, are
\* increasing and at most n.
Ordered(f, line, n) ==
  /\ Increasing(f) /\ UpTo(f, n)
  /\ \A i \in 1 .. Len(line) : Good(f, line[i], n)
  /\ \A i, j \in 1 .. Len(line) : i < j => Before(line[i], line[j])

\* What holds of one buffer, and of two.
LEMMA UpToLater ==
  ASSUME NEW s \in Seq(Nat), NEW n \in Nat, UpTo(s, n)
  PROVE  UpTo(s, n + 1)
BY DEF UpTo

\* The newest message goes to the end of an increasing line.
LEMMA NewIsLast ==
  ASSUME NEW c \in Seq(Nat), NEW n \in Nat, Increasing(c), UpTo(c, n)
  PROVE  Increasing(Append(c, n + 1)) /\ UpTo(Append(c, n + 1), n + 1)
<1> DEFINE d == Append(c, n + 1)
<1>1. /\ Len(d) = Len(c) + 1 /\ d[Len(c) + 1] = n + 1
      /\ \A a \in 1 .. Len(c) : d[a] = c[a]
      /\ \A a \in 1 .. Len(c) : c[a] \in Nat
      /\ Len(c) \in Nat
  OBVIOUS
<1> HIDE DEF d
<1>2. UpTo(d, n + 1)
  BY <1>1 DEF UpTo
<1>3. ASSUME NEW a \in 1 .. Len(d), NEW b \in 1 .. Len(d), a < b
      PROVE  d[a] < d[b]
  <2>1. a \in 1 .. Len(c) /\ d[a] = c[a] /\ c[a] \in Nat
    BY <1>1, <1>3
  <2>2. CASE b = Len(c) + 1
    BY <1>1, <2>1, <2>2 DEF UpTo
  <2>3. CASE b \in 1 .. Len(c)
    BY <1>1, <1>3, <2>1, <2>3 DEF Increasing
  <2>4. b = Len(c) + 1 \/ b \in 1 .. Len(c)
    BY <1>1
  <2>5. QED
    BY <2>2, <2>3, <2>4
<1>4. Increasing(d)
  BY <1>3 DEF Increasing
<1>5. QED
  BY <1>2, <1>4 DEF d

\* What was appended earlier stays before the newest message.
LEMMA BeforeNew ==
  ASSUME NEW s \in Seq(Nat), NEW c \in Seq(Nat), NEW n \in Nat,
         Before(s, c), UpTo(s, n)
  PROVE  Before(s, Append(c, n + 1))
<1> DEFINE d == Append(c, n + 1)
<1>1. /\ Len(d) = Len(c) + 1 /\ d[Len(c) + 1] = n + 1
      /\ \A a \in 1 .. Len(c) : d[a] = c[a]
      /\ \A a \in 1 .. Len(s) : s[a] \in Nat
      /\ Len(c) \in Nat
  OBVIOUS
<1> HIDE DEF d
<1>2. ASSUME NEW a \in 1 .. Len(s), NEW b \in 1 .. Len(d)
      PROVE  s[a] < d[b]
  <2>1. CASE b = Len(c) + 1
    <3>1. s[a] \in Nat /\ s[a] <= n
      BY <1>1 DEF UpTo
    <3>2. d[b] = n + 1
      BY <1>1, <2>1
    <3>3. QED
      BY <3>1, <3>2
  <2>2. CASE b \in 1 .. Len(c)
    BY <1>1, <2>2 DEF Before
  <2>3. b = Len(c) + 1 \/ b \in 1 .. Len(c)
    BY <1>1
  <2>4. QED
    BY <2>1, <2>2, <2>3
<1>3. Before(s, d)
  BY <1>2 DEF Before
<1>4. QED
  BY <1>3 DEF d

\* An empty buffer follows anything.
LEMMA EmptyIsGood == \A f, n : Good(f, <<>>, n)
BY DEF Good, Increasing, UpTo, Before

\* Anything is before an empty buffer.
LEMMA BeforeEmpty == \A f : Before(f, <<>>)
BY DEF Before

\* The elements of a concatenation are those of its parts.
LEMMA ConcatElement ==
  ASSUME NEW f \in Seq(Nat), NEW h \in Seq(Nat), NEW a \in 1 .. Len(f \o h)
  PROVE  \/ a \in 1 .. Len(f) /\ (f \o h)[a] = f[a]
         \/ a - Len(f) \in 1 .. Len(h) /\ (f \o h)[a] = h[a - Len(f)]
<1>1. Len(f) \in Nat /\ Len(h) \in Nat /\ Len(f \o h) = Len(f) + Len(h)
  OBVIOUS
<1>2. CASE a <= Len(f)
  BY <1>1, <1>2
<1>3. CASE a > Len(f)
  <2>1. a - Len(f) \in 1 .. Len(h)
    BY <1>1, <1>3
  <2>2. QED
    BY <1>3, <2>1
<1>4. QED
  BY <1>1, <1>2, <1>3

\* Two lines before a third are, joined, before it.
LEMMA ConcatBefore ==
  ASSUME NEW f \in Seq(Nat), NEW h \in Seq(Nat), NEW t, Before(f, t), Before(h, t)
  PROVE  Before(f \o h, t)
<1>1. ASSUME NEW a \in 1 .. Len(f \o h), NEW b \in 1 .. Len(t)
      PROVE  (f \o h)[a] < t[b]
  <2>1. CASE a \in 1 .. Len(f) /\ (f \o h)[a] = f[a]
    BY <2>1 DEF Before
  <2>2. CASE a - Len(f) \in 1 .. Len(h) /\ (f \o h)[a] = h[a - Len(f)]
    BY <2>2 DEF Before
  <2>3. QED
    BY <2>1, <2>2, ConcatElement
<1>2. QED
  BY <1>1 DEF Before

\* Two lines of messages up to n make a line of messages up to n.
LEMMA ConcatUpTo ==
  ASSUME NEW f \in Seq(Nat), NEW h \in Seq(Nat), NEW n \in Nat, UpTo(f, n), UpTo(h, n)
  PROVE  UpTo(f \o h, n)
<1>1. ASSUME NEW a \in 1 .. Len(f \o h)
      PROVE  (f \o h)[a] <= n
  <2>1. CASE a \in 1 .. Len(f) /\ (f \o h)[a] = f[a]
    BY <2>1 DEF UpTo
  <2>2. CASE a - Len(f) \in 1 .. Len(h) /\ (f \o h)[a] = h[a - Len(f)]
    BY <2>2 DEF UpTo
  <2>3. QED
    BY <2>1, <2>2, ConcatElement
<1>2. QED
  BY <1>1 DEF UpTo

\* An increasing line before another makes an increasing line with it.
LEMMA ConcatIncreasing ==
  ASSUME NEW f \in Seq(Nat), NEW h \in Seq(Nat),
         Increasing(f), Increasing(h), Before(f, h)
  PROVE  Increasing(f \o h)
<1> DEFINE g == f \o h
<1>1. Len(f) \in Nat /\ Len(h) \in Nat /\ Len(g) = Len(f) + Len(h)
  OBVIOUS
<1>2. ASSUME NEW a \in 1 .. Len(g), NEW b \in 1 .. Len(g), a < b
      PROVE  g[a] < g[b]
  <2>1. \/ a \in 1 .. Len(f) /\ g[a] = f[a]
        \/ a - Len(f) \in 1 .. Len(h) /\ g[a] = h[a - Len(f)]
    BY ConcatElement
  <2>2. \/ b \in 1 .. Len(f) /\ g[b] = f[b]
        \/ b - Len(f) \in 1 .. Len(h) /\ g[b] = h[b - Len(f)]
    BY ConcatElement
  <2> HIDE DEF g
  <2>3. CASE b \in 1 .. Len(f) /\ g[b] = f[b]
    <3>1. a \in 1 .. Len(f) /\ g[a] = f[a]
      BY <1>1, <1>2, <2>1, <2>3
    <3>2. QED
      BY <1>2, <2>3, <3>1 DEF Increasing
  <2>4. CASE b - Len(f) \in 1 .. Len(h) /\ g[b] = h[b - Len(f)]
    <3>1. CASE a \in 1 .. Len(f) /\ g[a] = f[a]
      BY <2>4, <3>1 DEF Before
    <3>2. CASE a - Len(f) \in 1 .. Len(h) /\ g[a] = h[a - Len(f)]
      <4>1. a - Len(f) < b - Len(f)
        BY <1>1, <1>2
      <4>2. QED
        BY <2>4, <3>2, <4>1 DEF Increasing
    <3>3. QED
      BY <2>1, <3>1, <3>2
  <2>5. QED
    BY <2>2, <2>3, <2>4
<1>3. Increasing(g)
  BY <1>2 DEF Increasing
<1>4. QED
  BY <1>3 DEF g

\* A line that differs from l only from its L-th place, which is its last.
LEMMA OrderedEnd ==
  ASSUME NEW f, NEW l, NEW r, NEW m, NEW L \in Nat,
         Len(l) \in Nat, L <= Len(l) + 1, Len(r) = L, 
         \A i \in 1 .. L - 1 : r[i] = l[i] /\ UpTo(l[i], m) /\ Before(l[i], r[L]),
         \A i \in 1 .. Len(l) : Increasing(l[i]) /\ Before(f, l[i]),
         \A i, j \in 1 .. Len(l) : i < j => Before(l[i], l[j]),
         Good(f, r[L], m), Increasing(f), UpTo(f, m)
  PROVE  Ordered(f, r, m)
<1>1. ASSUME NEW i \in 1 .. Len(r)
      PROVE  Good(f, r[i], m)
  <2>1. CASE i = L
    BY <2>1
  <2>2. CASE i # L
    <3>1. i \in 1 .. L - 1 /\ i \in 1 .. Len(l)
      BY <2>2
    <3>2. QED
      BY <3>1 DEF Good
  <2>3. QED
    BY <2>1, <2>2
<1>2. ASSUME NEW i \in 1 .. Len(r), NEW j \in 1 .. Len(r), i < j
      PROVE  Before(r[i], r[j])
  <2>1. i \in 1 .. L - 1 /\ i \in 1 .. Len(l) /\ r[i] = l[i]
    BY <1>2
  <2>2. CASE j = L
    BY <2>1, <2>2
  <2>3. CASE j # L
    <3>1. j \in 1 .. L - 1 /\ j \in 1 .. Len(l) /\ r[j] = l[j]
      BY <2>3
    <3>2. QED
      BY <1>2, <2>1, <3>1
  <2>4. QED
    BY <2>2, <2>3
<1>3. QED
  BY <1>1, <1>2 DEF Ordered

\* A line whose places are some of those of l, in the same order.
LEMMA OrderedPart ==
  ASSUME NEW f, NEW g, NEW l, NEW r, NEW n, NEW from,
         Ordered(f, l, n), Increasing(g), UpTo(g, n),
         \A i \in 1 .. Len(r) : /\ from[i] \in 1 .. Len(l) /\ r[i] = l[from[i]]
                                /\ Before(g, r[i]),
         \A i, j \in 1 .. Len(r) : i < j => from[i] < from[j]
  PROVE  Ordered(g, r, n)
<1>1. ASSUME NEW i \in 1 .. Len(r)
      PROVE  Good(g, r[i], n)
  <2>1. PICK k \in 1 .. Len(l) : r[i] = l[k]
    OBVIOUS
  <2>2. Good(f, l[k], n)
    BY DEF Ordered
  <2>3. Before(g, r[i])
    OBVIOUS
  <2>4. QED
    BY <2>1, <2>2, <2>3 DEF Good
<1>2. ASSUME NEW i \in 1 .. Len(r), NEW j \in 1 .. Len(r), i < j
      PROVE  Before(r[i], r[j])
  <2>1. PICK k : k = from[i] /\ k \in 1 .. Len(l) /\ r[i] = l[k]
    OBVIOUS
  <2>2. PICK e : e = from[j] /\ e \in 1 .. Len(l) /\ r[j] = l[e]
    OBVIOUS
  <2>3. k < e
    BY <1>2, <2>1, <2>2
  <2>4. Before(l[k], l[e])
    BY <2>1, <2>2, <2>3 DEF Ordered
  <2>5. QED
    BY <2>1, <2>2, <2>4
<1>3. QED
  BY <1>1, <1>2 DEF Ordered

\* The i-th buffer of a line of buffers.
LEMMA Place ==
  ASSUME NEW S, NEW line \in Seq(S), NEW i \in 1 .. Len(line)
  PROVE  line[i] \in S
OBVIOUS

\* A sequence that is not empty has a length that is a successor.
LEMMA NotEmpty ==
  ASSUME NEW S, NEW s \in Seq(S), s # <<>>
  PROVE  \E k \in Nat : k + 1 = Len(s)
<1>1. Len(s) \in Nat /\ Len(s) # 0
  OBVIOUS
<1>2. Len(s) - 1 \in Nat /\ (Len(s) - 1) + 1 = Len(s)
  BY <1>1
<1>3. QED
  BY <1>2

\* The places of a prefix.
LEMMA Prefix ==
  ASSUME NEW S, NEW s \in Seq(S), NEW k \in 0 .. Len(s)
  PROVE  /\ SubSeq(s, 1, k) \in Seq(S)
         /\ Len(SubSeq(s, 1, k)) = k
         /\ \A i \in 1 .. k : SubSeq(s, 1, k)[i] = s[i]
OBVIOUS

\* The places of a concatenation.
LEMMA ConcatPlaces ==
  ASSUME NEW S, NEW s \in Seq(S), NEW t \in Seq(S)
  PROVE  /\ Len(s \o t) = Len(s) + Len(t)
         /\ \A i \in 1 .. Len(s) : (s \o t)[i] = s[i]
         /\ \A i \in 1 .. Len(t) : (s \o t)[Len(s) + i] = t[i]
OBVIOUS

\* The places of a suffix.
LEMMA Suffix ==
  ASSUME NEW S, NEW s \in Seq(S), NEW m \in 1 .. Len(s) + 1
  PROVE  /\ SubSeq(s, m, Len(s)) \in Seq(S)
         /\ Len(SubSeq(s, m, Len(s))) = Len(s) - m + 1
         /\ \A i \in 1 .. Len(s) - m + 1 : SubSeq(s, m, Len(s))[i] = s[m + i - 1]
<1>1. m \in Int /\ Len(s) \in Nat /\ \A i \in m .. Len(s) : s[i] \in S
  OBVIOUS
<1>2. QED
  BY <1>1, SubSeqProperties

\* The places of a tail.
LEMMA TailPlaces ==
  ASSUME NEW S, NEW s \in Seq(S), s # <<>>
  PROVE  /\ Tail(s) \in Seq(S) /\ Len(Tail(s)) = Len(s) - 1
         /\ \A i \in 1 .. Len(s) - 1 : Tail(s)[i] = s[i + 1]
OBVIOUS

\* A function on 1 .. n with values in S is a sequence of S.
LEMMA SequenceOf ==
  ASSUME NEW S, NEW n \in Nat, NEW s, s = [i \in 1 .. n |-> s[i]],
         \A i \in 1 .. n : s[i] \in S
  PROVE  s \in Seq(S)
<1>1. [i \in 1 .. n |-> s[i]] \in Seq(S)
  OBVIOUS
<1>2. QED
  BY <1>1

\* Appending to the second part appends to the whole.
LEMMA AppendToLine ==
  ASSUME NEW s \in Seq(Seq(Nat)), NEW t \in Seq(Seq(Nat)), NEW e \in Seq(Nat)
  PROVE  Append(s \o t, e) = s \o Append(t, e)
<1>1. PICK T : T = Seq(Nat)
  OBVIOUS
<1>2. s \in Seq(T) /\ t \in Seq(T) /\ e \in T
  BY <1>1
<1>3. PICK x : x = s \o t
  OBVIOUS
<1>4. x \in Seq(T)
  BY <1>2, <1>3, ConcatProperties
<1>5. PICK o : o = <<e>>
  OBVIOUS
<1>6. o \in Seq(T)
  BY <1>2, <1>5
<1>7. Append(x, e) = x \o o
  BY <1>2, <1>4, <1>5, AppendIsConcat
<1>8. Append(t, e) = t \o o
  BY <1>2, <1>5, AppendIsConcat
<1>9. (s \o t) \o o = s \o (t \o o)
  BY <1>2, <1>6, ConcatAssociative
<1>10. QED
  BY <1>3, <1>7, <1>8, <1>9

\* Nothing is left after the last place.
LEMMA NothingAfterTheEnd ==
  ASSUME NEW S, NEW s \in Seq(S)
  PROVE  SubSeq(s, Len(s) + 1, Len(s)) = <<>>
OBVIOUS

\* Taking the first element of the first part takes it from the whole.
LEMMA HeadTailConcat ==
  ASSUME NEW S, NEW s \in Seq(S), NEW t \in Seq(S), s # <<>>
  PROVE  /\ s \o t # <<>> /\ Head(s \o t) = Head(s)
         /\ Tail(s \o t) = Tail(s) \o t
<1>1. PICK k \in Nat : k + 1 = Len(s)
  BY NotEmpty
<1>2. PICK c \in Seq(S) : c = s \o t
  BY ConcatProperties
<1>3. /\ Len(c) = Len(s) + Len(t)
      /\ \A i \in 1 .. Len(s) : c[i] = s[i]
      /\ \A i \in 1 .. Len(t) : c[Len(s) + i] = t[i]
  BY <1>2, ConcatPlaces
<1>4. c # <<>> /\ Head(c) = Head(s)
  BY <1>1, <1>3
<1>5. PICK u \in Seq(S) : u = Tail(s)
  BY TailPlaces
<1>6. Len(u) = k /\ \A i \in 1 .. k : u[i] = s[i + 1]
  BY <1>1, <1>5, TailPlaces
<1>7. PICK v \in Seq(S) : v = u \o t
  BY ConcatProperties
<1>8. /\ Len(v) = k + Len(t)
      /\ \A i \in 1 .. k : v[i] = u[i]
      /\ \A i \in 1 .. Len(t) : v[k + i] = t[i]
  <2>1. /\ Len(v) = Len(u) + Len(t)
        /\ \A i \in 1 .. Len(u) : v[i] = u[i]
        /\ \A i \in 1 .. Len(t) : v[Len(u) + i] = t[i]
    BY <1>7, ConcatPlaces
  <2>2. QED
    BY <1>6, <2>1
<1>9. PICK x \in Seq(S) : x = Tail(c)
  BY <1>4, TailPlaces
<1>10. Len(x) = k + Len(t) /\ \A i \in 1 .. k + Len(t) : x[i] = c[i + 1]
  <2>1. Len(c) - 1 = k + Len(t)
    BY <1>1, <1>3
  <2>2. Len(x) = Len(c) - 1 /\ \A i \in 1 .. Len(c) - 1 : x[i] = c[i + 1]
    BY <1>4, <1>9, TailPlaces
  <2>3. QED
    BY <2>1, <2>2
<1>11. ASSUME NEW i \in 1 .. k + Len(t)
       PROVE  x[i] = v[i]
  <2>1. CASE i <= k
    <3>1. i \in 1 .. k /\ i + 1 \in 1 .. Len(s)
      BY <1>1, <2>1
    <3>2. QED
      BY <1>3, <1>6, <1>8, <1>10, <3>1
  <2>2. CASE i > k
    <3>1. PICK j \in 1 .. Len(t) : i = k + j
      <4>1. i - k \in 1 .. Len(t) /\ i = k + (i - k)
        BY <2>2
      <4>2. QED
        BY <4>1
    <3>2. i + 1 = Len(s) + j
      <4>1. i + 1 = (k + 1) + j
        BY <3>1
      <4>2. QED
        BY <1>1, <4>1
    <3>3. QED
      BY <1>3, <1>8, <1>10, <3>1, <3>2
  <2>3. QED
    BY <2>1, <2>2
<1>12. x = v
  BY <1>8, <1>10, <1>11, SeqEqual
<1>13. QED
  BY <1>2, <1>4, <1>5, <1>7, <1>9, <1>12

\* The first of the buffers that are left, and those after it.
LEMMA FirstOfRest ==
  ASSUME NEW S, NEW b \in Seq(S), NEW q \in Seq(S), NEW w \in Nat, w < Len(b)
  PROVE  LET l == SubSeq(b, w + 1, Len(b)) \o q
         IN  /\ l # <<>> /\ Head(l) = b[w + 1]
             /\ Tail(l) = SubSeq(b, (w + 1) + 1, Len(b)) \o q
<1>1. PICK k \in Nat : k + w = Len(b) /\ k > 0
  <2>1. Len(b) - w \in Nat /\ (Len(b) - w) + w = Len(b) /\ Len(b) - w > 0
    OBVIOUS
  <2>2. QED
    BY <2>1
<1>2. PICK o \in Seq(S) : o = SubSeq(b, w + 1, Len(b))
  <2>1. w + 1 \in 1 .. Len(b) + 1
    BY <1>1
  <2>2. QED
    BY <2>1, Suffix
<1>3. Len(o) = k /\ \A i \in 1 .. k : o[i] = b[w + i]
  <2>1. w + 1 \in 1 .. Len(b) + 1 /\ Len(b) - (w + 1) + 1 = k
    BY <1>1
  <2>2. Len(o) = k /\ \A i \in 1 .. k : o[i] = b[(w + 1) + i - 1]
    BY <1>2, <2>1, Suffix
  <2>3. \A i \in 1 .. k : (w + 1) + i - 1 = w + i
    OBVIOUS
  <2>4. QED
    BY <2>2, <2>3
<1>4. PICK r \in Seq(S) : r = SubSeq(b, (w + 1) + 1, Len(b))
  <2>1. (w + 1) + 1 \in 1 .. Len(b) + 1
    BY <1>1
  <2>2. QED
    BY <2>1, Suffix
<1>5. Len(r) = k - 1 /\ \A i \in 1 .. k - 1 : r[i] = b[w + (i + 1)]
  <2>1. (w + 1) + 1 \in 1 .. Len(b) + 1 /\ Len(b) - ((w + 1) + 1) + 1 = k - 1
    BY <1>1
  <2>2. Len(r) = k - 1 /\ \A i \in 1 .. k - 1 : r[i] = b[((w + 1) + 1) + i - 1]
    BY <1>4, <2>1, Suffix
  <2>3. \A i \in 1 .. k - 1 : ((w + 1) + 1) + i - 1 = w + (i + 1)
    OBVIOUS
  <2>4. QED
    BY <2>2, <2>3
<1>6. o # <<>> /\ Head(o) = b[w + 1]
  BY <1>1, <1>3
<1>7. Tail(o) = r
  <2>1. Tail(o) \in Seq(S) /\ Len(Tail(o)) = k - 1
    BY <1>3, <1>6
  <2>2. \A i \in 1 .. k - 1 : Tail(o)[i] = o[i + 1]
    BY <1>3
  <2>3. \A i \in 1 .. k - 1 : i + 1 \in 1 .. k
    OBVIOUS
  <2>4. \A i \in 1 .. k - 1 : Tail(o)[i] = r[i]
    BY <1>3, <1>5, <2>2, <2>3
  <2>5. QED
    BY <1>5, <2>1, <2>4, SeqEqual
<1>8. o \o q # <<>> /\ Head(o \o q) = Head(o) /\ Tail(o \o q) = Tail(o) \o q
  BY <1>6, HeadTailConcat
<1>9. QED
  BY <1>2, <1>4, <1>6, <1>7, <1>8

\* A new message goes behind all others, in the last buffer ...
LEMMA OrderedInLast ==
  ASSUME NEW f \in Seq(Nat), NEW p \in Seq(Seq(Nat)), NEW c \in Seq(Nat),
         NEW n \in Nat, Ordered(f, Append(p, c), n)
  PROVE  Ordered(f, Append(p, Append(c, n + 1)), n + 1)
<1> DEFINE m == n + 1
<1>1. PICK d : d = Append(c, m)
  OBVIOUS
<1>2. PICK l : l = Append(p, c)
  OBVIOUS
<1>3. PICK r : r = Append(p, d)
  OBVIOUS
<1>4. PICK k \in Nat : k = Len(p)
  OBVIOUS
<1>5. /\ Len(l) = k + 1 /\ l[k + 1] = c
      /\ \A i \in 1 .. k : l[i] = p[i]
  BY <1>2, <1>4
<1>6. d \in Seq(Nat)
  BY <1>1
<1>7. /\ Len(r) = k + 1 /\ r[k + 1] = d
      /\ \A i \in 1 .. k : r[i] = p[i]
  BY <1>3, <1>4, <1>6
<1>8. Ordered(f, l, n)
  BY <1>2
<1>9. Good(f, c, n)
  <2>1. k + 1 \in 1 .. Len(l)
    BY <1>5
  <2>2. QED
    BY <1>5, <1>8, <2>1 DEF Ordered
<1>10. Good(f, d, m) /\ Increasing(f) /\ UpTo(f, m)
  <2>1. Increasing(f) /\ UpTo(f, n) /\ Increasing(c) /\ UpTo(c, n) /\ Before(f, c)
    BY <1>8, <1>9 DEF Ordered, Good
  <2>2. Increasing(d) /\ UpTo(d, m)
    BY <1>1, <2>1, NewIsLast
  <2>3. Before(f, d)
    BY <1>1, <2>1, BeforeNew
  <2>4. UpTo(f, m)
    BY <2>1, UpToLater
  <2>5. QED
    BY <2>1, <2>2, <2>3, <2>4 DEF Good
<1>11. ASSUME NEW i \in 1 .. k
       PROVE  r[i] = l[i] /\ UpTo(l[i], m) /\ Before(l[i], d)
  <2>1. PICK s \in Seq(Nat) : s = p[i]
    BY <1>4, Place
  <2>2. s = l[i] /\ r[i] = s
    BY <1>5, <1>7, <2>1
  <2>3. i \in 1 .. Len(l) /\ k + 1 \in 1 .. Len(l) /\ i < k + 1
    BY <1>5
  <2>4. Good(f, s, n)
    BY <1>8, <2>2, <2>3 DEF Ordered
  <2>5. Before(s, c)
    BY <1>5, <1>8, <2>2, <2>3 DEF Ordered
  <2>6. UpTo(s, n)
    BY <2>4 DEF Good
  <2>7. UpTo(s, m) /\ Before(s, d)
    BY <1>1, <2>5, <2>6, UpToLater, BeforeNew
  <2>8. QED
    BY <2>2, <2>7
<1>12. /\ \A i \in 1 .. Len(l) : Increasing(l[i]) /\ Before(f, l[i])
       /\ \A i, j \in 1 .. Len(l) : i < j => Before(l[i], l[j])
  BY <1>8 DEF Ordered, Good
<1>13. k + 1 \in Nat /\ (k + 1) - 1 = k /\ Len(l) \in Nat /\ k + 1 <= Len(l) + 1
  BY <1>5
<1> HIDE DEF m
<1>14. Ordered(f, r, m)
  BY <1>5, <1>7, <1>10, <1>11, <1>12, <1>13, OrderedEnd
<1>15. QED
  BY <1>1, <1>3, <1>14 DEF m

\* ... also when that has just been begun.
LEMMA OrderedEmpty ==
  ASSUME NEW f \in Seq(Nat), NEW line \in Seq(Seq(Nat)), NEW n \in Nat,
         Ordered(f, line, n)
  PROVE  Ordered(f, Append(line, <<>>), n)
<1>1. PICK r : r = Append(line, <<>>)
  OBVIOUS
<1>2. PICK k \in Nat : k = Len(line)
  OBVIOUS
<1>3. <<>> \in Seq(Nat)
  OBVIOUS
<1>4. /\ Len(r) = k + 1 /\ r[k + 1] = <<>>
      /\ \A i \in 1 .. k : r[i] = line[i]
  BY <1>1, <1>2, <1>3
<1>5. /\ \A i \in 1 .. k : Increasing(line[i]) /\ UpTo(line[i], n) /\ Before(f, line[i])
      /\ \A i, j \in 1 .. k : i < j => Before(line[i], line[j])
      /\ Increasing(f) /\ UpTo(f, n)
  BY <1>2 DEF Ordered, Good
<1>6. Good(f, r[k + 1], n) /\ \A i \in 1 .. k : Before(line[i], r[k + 1])
  BY <1>4, EmptyIsGood, BeforeEmpty
<1>7. k + 1 \in Nat /\ (k + 1) - 1 = k /\ Len(line) \in Nat /\ k + 1 <= Len(line) + 1
  BY <1>2
<1>8. Ordered(f, r, n)
  BY <1>2, <1>4, <1>5, <1>6, <1>7, OrderedEnd
<1>9. QED
  BY <1>1, <1>8

\* The first buffer may be written to the file.
LEMMA OrderedWritten ==
  ASSUME NEW f \in Seq(Nat), NEW line \in Seq(Seq(Nat)), NEW n \in Nat,
         line # <<>>, Ordered(f, line, n)
  PROVE  Ordered(f \o Head(line), Tail(line), n)
<1>1. PICK k \in Nat : k + 1 = Len(line)
  BY NotEmpty
<1>2. PICK t : t = Tail(line)
  OBVIOUS
<1>3. Len(t) = k /\ \A i \in 1 .. k : t[i] = line[i + 1]
  BY <1>1, <1>2
<1>4. PICK h \in Seq(Nat) : h = line[1] /\ h = Head(line)
  BY <1>1, Place
<1>5. 1 \in 1 .. Len(line) /\ \A i \in 1 .. k : i + 1 \in 1 .. Len(line) /\ 1 < i + 1
  BY <1>1
<1>6. Increasing(f) /\ UpTo(f, n) /\ Good(f, h, n)
  BY <1>4, <1>5 DEF Ordered
<1>7. Increasing(f \o h) /\ UpTo(f \o h, n)
  BY <1>6, ConcatIncreasing, ConcatUpTo DEF Good
<1>8. ASSUME NEW i \in 1 .. k
      PROVE  Before(f \o h, t[i])
  <2>1. PICK s : s = t[i] /\ s = line[i + 1]
    BY <1>3
  <2>2. Good(f, s, n)
    BY <1>5, <2>1 DEF Ordered
  <2>3. Before(h, s)
    BY <1>4, <1>5, <2>1 DEF Ordered
  <2>4. Before(f \o h, s)
    BY <2>2, <2>3, ConcatBefore DEF Good
  <2>5. QED
    BY <2>1, <2>4
<1>9. PICK from : from = [i \in 1 .. k |-> i + 1]
  OBVIOUS
<1>10. \A i \in 1 .. k : from[i] = i + 1
  BY <1>9
<1>11. \A i, j \in 1 .. k : i < j => from[i] < from[j]
  BY <1>10
<1>12. \A i \in 1 .. k : /\ from[i] \in 1 .. Len(line) /\ t[i] = line[from[i]]
  BY <1>3, <1>5, <1>10
<1>13. Ordered(f \o h, t, n)
  BY <1>3, <1>7, <1>8, <1>11, <1>12, OrderedPart
<1>14. QED
  BY <1>2, <1>4, <1>13

\* Leaving buffers out of the line does not disturb the order.
LEMMA OrderedWithout ==
  ASSUME NEW f \in Seq(Nat), NEW p \in Seq(Seq(Nat)), NEW q \in Seq(Seq(Nat)),
         NEW n \in Nat, NEW k \in 0 .. Len(p), Ordered(f, p \o q, n)
  PROVE  Ordered(f, SubSeq(p, 1, k) \o q, n)
<1>1. PICK o \in Seq(Seq(Nat)) : o = SubSeq(p, 1, k)
  BY Prefix
<1>2. Len(o) = k /\ \A i \in 1 .. k : o[i] = p[i]
  BY <1>1, Prefix
<1>3. PICK x \in Nat, y \in Nat : x = Len(p) /\ y = Len(q) /\ k \in Nat /\ k <= x
  OBVIOUS
<1>4. PICK l : l = p \o q
  OBVIOUS
<1>5. /\ Len(l) = x + y
      /\ \A i \in 1 .. x : l[i] = p[i]
      /\ \A i \in 1 .. y : l[x + i] = q[i]
  BY <1>3, <1>4, ConcatPlaces
<1>6. PICK r : r = o \o q
  OBVIOUS
<1>7. /\ Len(r) = k + y
      /\ \A i \in 1 .. k : r[i] = o[i]
      /\ \A i \in 1 .. y : r[k + i] = q[i]
  <2>1. Len(o) = k /\ Len(q) = y
    BY <1>2, <1>3
  <2>2. /\ Len(r) = Len(o) + Len(q)
        /\ \A i \in 1 .. Len(o) : r[i] = o[i]
        /\ \A i \in 1 .. Len(q) : r[Len(o) + i] = q[i]
    BY <1>6, ConcatPlaces
  <2>3. QED
    BY <2>1, <2>2
<1>8. PICK from : from = [i \in 1 .. k + y |-> IF i <= k THEN i ELSE x + (i - k)]
  OBVIOUS
<1>9. \A i \in 1 .. k + y : from[i] = IF i <= k THEN i ELSE x + (i - k)
  BY <1>8
<1>10. \A i, j \in 1 .. k + y : i < j => from[i] < from[j]
  BY <1>3, <1>9
<1>11. Ordered(f, l, n)
  BY <1>4
<1>12. ASSUME NEW i \in 1 .. k + y
       PROVE  from[i] \in 1 .. Len(l) /\ r[i] = l[from[i]] /\ Before(f, r[i])
  <2>1. from[i] \in 1 .. Len(l) /\ r[i] = l[from[i]]
    <3>1. CASE i <= k
      <4>1. from[i] = i /\ i \in 1 .. k /\ i \in 1 .. x /\ i \in 1 .. x + y
        BY <1>3, <1>9, <3>1
      <4>2. r[i] = o[i] /\ o[i] = p[i] /\ l[i] = p[i]
        BY <1>2, <1>5, <1>7, <4>1
      <4>3. QED
        BY <1>5, <4>1, <4>2
    <3>2. CASE i > k
      <4>1. PICK e \in 1 .. y : e = i - k
        BY <1>3, <3>2
      <4>2. i = k + e /\ from[i] = x + e /\ x + e \in 1 .. x + y
        BY <1>3, <1>9, <3>2, <4>1
      <4>3. l[x + e] = q[e] /\ r[k + e] = q[e]
        BY <1>5, <1>7, <4>1
      <4>4. QED
        BY <1>5, <4>2, <4>3
    <3>3. QED
      BY <1>3, <3>1, <3>2
  <2>2. Good(f, l[from[i]], n)
    BY <1>11, <2>1 DEF Ordered
  <2>3. QED
    BY <2>1, <2>2 DEF Good
<1>13. Increasing(f) /\ UpTo(f, n)
  BY DEF Ordered
<1>14. Ordered(f, r, n)
  BY <1>7, <1>10, <1>11, <1>12, <1>13, OrderedPart
<1>15. QED
  BY <1>1, <1>6, <1>14

-----------------------------------------------------------------------------
(* The buffers in the order in which they will be written.                 *)

Rest == IF pc = "write"
          THEN SubSeq(bufferToWrite, written + 1, Len(bufferToWrite)) ELSE <<>>

Line == Append(Rest \o buffers, currentBuffer)

\* The file, then what is still on its way to it, is in the order of the
\* appends: WrittenInOrder is only about what has arrived.
OrderInv == Ordered(file, Line, appended)

\* What BufferInv says of the places, all of them sequences of messages.
LEMMA LineType ==
  BufferInv => /\ buffers \in Seq(Seq(Nat)) /\ currentBuffer \in Seq(Nat)
               /\ bufferToWrite \in Seq(Seq(Nat))
               /\ file \in Seq(Nat) /\ appended \in Nat
<1> SUFFICES ASSUME BufferInv
             PROVE  /\ buffers \in Seq(Seq(Nat)) /\ currentBuffer \in Seq(Nat)
                    /\ bufferToWrite \in Seq(Seq(Nat))
                    /\ file \in Seq(Nat) /\ appended \in Nat
    OBVIOUS
<1>1. /\ buffers \in Seq(BufferPtr) /\ bufferToWrite \in Seq(BufferPtr)
      /\ currentBuffer \in BufferPtr /\ file \in Seq(Nat) /\ appended \in Nat
  BY DEF BufferInv, TypeOK
<1>2. /\ currentBuffer # NoBuffer
      /\ \A i \in DOMAIN buffers : buffers[i] # NoBuffer
      /\ \A i \in DOMAIN bufferToWrite : bufferToWrite[i] # NoBuffer
  BY DEF BufferInv, BuffersAvailable
<1>3. ASSUME NEW bs \in Seq(BufferPtr), \A i \in DOMAIN bs : bs[i] # NoBuffer
      PROVE  bs \in Seq(Seq(Nat))
  <2>1. /\ Len(bs) \in Nat /\ DOMAIN bs = 1 .. Len(bs)
        /\ bs = [i \in 1 .. Len(bs) |-> bs[i]]
    OBVIOUS
  <2>2. \A i \in 1 .. Len(bs) : bs[i] \in BufferPtr
    OBVIOUS
  <2>3. \A i \in 1 .. Len(bs) : bs[i] \in Seq(Nat)
    BY <1>3, <2>1, <2>2 DEF BufferPtr, Buffer
  <2>4. QED
    BY <2>1, <2>3, SequenceOf
<1>4. QED
  BY <1>1, <1>2, <1>3 DEF BufferPtr, Buffer

\* What is left to write is a list of buffers, empty outside the write.
LEMMA RestType ==
  BufferInv => Rest \in Seq(Seq(Nat)) /\ (pc # "write" => Rest = <<>>)
<1>1. ASSUME BufferInv, pc = "write" PROVE Rest \in Seq(Seq(Nat))
  <2>1. PICK b \in Seq(Seq(Nat)) : b = bufferToWrite
    BY <1>1, LineType
  <2>2. PICK w \in Nat : w = written
    BY <1>1 DEF BufferInv, TypeOK
  <2>3. SubSeq(b, w + 1, Len(b)) \in Seq(Seq(Nat))
    BY SubSeqProperties
  <2>4. QED
    BY <1>1, <2>1, <2>2, <2>3 DEF Rest
<1>2. QED
  BY <1>1 DEF Rest

\* The order holds in an empty log.
LEMMA OrderInit == Init => OrderInv
<1> SUFFICES ASSUME Init PROVE OrderInv
    OBVIOUS
<1>1. Line = <<<<>>>> /\ file = <<>> /\ appended = 0
  BY DEF Line, Rest, Init
<1>2. Good(<<>>, <<>>, 0)
  BY EmptyIsGood
<1>3. Ordered(<<>>, <<<<>>>>, 0)
  <2>1. \A i \in 1 .. Len(<<<<>>>>) : i = 1 /\ <<<<>>>>[i] = <<>>
    OBVIOUS
  <2>2. QED
    BY <1>2, <2>1 DEF Ordered, Good
<1>4. QED
  BY <1>1, <1>3 DEF OrderInv

\* If the places of the buffers do not change, nor does the line.
LEMMA LineUnchanged ==
  ASSUME OrderInv, BufferInv, BufferInv',
         UNCHANGED <<currentBuffer, buffers, file, appended>>,
         \/ pc # "write" /\ pc' # "write"
         \/ UNCHANGED <<pc, bufferToWrite, written>>
  PROVE  OrderInv'
<1>1. Rest' = Rest
  BY DEF Rest
<1>2. Line' = Line
  BY <1>1 DEF Line
<1>3. QED
  BY <1>2 DEF OrderInv

\* append puts its message last.
LEMMA AppendOrder == OrderInv /\ BufferInv /\ AppendMessage => OrderInv'
<1> SUFFICES ASSUME OrderInv, BufferInv, AppendMessage PROVE OrderInv'
    OBVIOUS
<1>1. PICK p \in Seq(Seq(Nat)) : p = Rest
  BY RestType
<1>2. PICK bs \in Seq(Seq(Nat)), c \in Seq(Nat), f \in Seq(Nat), n \in Nat :
        bs = buffers /\ c = currentBuffer /\ f = file /\ n = appended
  BY LineType
<1>3. Rest' = p /\ file' = f /\ appended' = n + 1
  BY <1>1, <1>2 DEF Rest, AppendMessage, backVars
<1>4. p \o bs \in Seq(Seq(Nat))
  BY ConcatProperties
<1>5. Ordered(f, Append(p \o bs, c), n)
  BY <1>1, <1>2 DEF OrderInv, Line
<1>6. CASE AppendToCurrent
  <2>1. currentBuffer' = Append(c, n + 1) /\ buffers' = bs
    BY <1>2, <1>6 DEF AppendToCurrent, AppendTo
  <2>2. Ordered(f, Append(p \o bs, Append(c, n + 1)), n + 1)
    BY <1>4, <1>5, OrderedInLast
  <2>3. QED
    BY <1>3, <2>1, <2>2 DEF OrderInv, Line
<1>7. CASE AppendToNext
  <2>1. buffers' = Append(bs, c)
    BY <1>2, <1>7 DEF AppendToNext
  <2>2. currentBuffer' = Append(<<>>, n + 1)
    <3>1. (IF nextBuffer # NoBuffer THEN nextBuffer ELSE <<>>) = <<>>
      BY DEF BufferInv, Spares
    <3>2. Len(<<>>) < Capacity
      BY CapacityAssumption
    <3>3. QED
      BY <1>2, <1>7, <3>1, <3>2 DEF AppendToNext, AppendTo
  <2>3. PICK q : q = Append(p \o bs, c)
    OBVIOUS
  <2>4. q \in Seq(Seq(Nat))
    BY <1>4, <2>3, AppendProperties
  <2>5. q = p \o Append(bs, c)
    <3>1. Append(p \o bs, c) = p \o Append(bs, c)
      BY AppendToLine
    <3>2. QED
      BY <2>3, <3>1
  <2>6. Ordered(f, Append(q, <<>>), n)
    BY <1>5, <2>3, <2>4, OrderedEmpty
  <2>7. <<>> \in Seq(Nat)
    OBVIOUS
  <2>8. Ordered(f, Append(q, Append(<<>>, n + 1)), n + 1)
    BY <2>4, <2>6, <2>7, OrderedInLast
  <2>9. QED
    BY <1>3, <2>1, <2>2, <2>5, <2>8 DEF OrderInv, Line
<1>8. QED
  BY <1>6, <1>7 DEF AppendMessage

\* The swap makes a batch of the line and begins an empty buffer behind it.
LEMMA SwapOrder ==
  OrderInv /\ BufferInv /\ pc \in {"swap", "wait"} /\ Swap => OrderInv'
<1> SUFFICES ASSUME OrderInv, BufferInv, pc \in {"swap", "wait"}, Swap
             PROVE  OrderInv'
    OBVIOUS
<1>1. PICK bs \in Seq(Seq(Nat)), c \in Seq(Nat), f \in Seq(Nat), n \in Nat :
        bs = buffers /\ c = currentBuffer /\ f = file /\ n = appended
  BY LineType
<1>2. /\ bufferToWrite' = Append(bs, c) /\ buffers' = <<>> /\ pc' = "write"
      /\ written' = 0 /\ file' = f /\ appended' = n /\ currentBuffer' = <<>>
  <2>1. bufferToWrite = <<>> /\ written = 0
    BY DEF BufferInv, TypeOK
  <2>2. newBuffer1 = <<>>
    BY DEF BufferInv, BuffersAvailable, Spares
  <2>3. QED
    BY <1>1, <2>1, <2>2 DEF Swap, CurrentPushed
<1>3. Rest = <<>>
  BY RestType
<1>4. Line = Append(bs, c)
  <2>1. <<>> \o bs = bs
    BY ConcatEmptySeq
  <2>2. QED
    BY <1>1, <1>3, <2>1 DEF Line
<1>5. PICK q \in Seq(Seq(Nat)) : q = Append(bs, c)
  BY AppendProperties
<1>6. Rest' = q
  <2>1. SubSeq(q, 1, Len(q)) = q
    BY SubSeqFull
  <2>2. QED
    BY <1>2, <1>5, <2>1 DEF Rest
<1>7. q \o <<>> = q
  BY ConcatEmptySeq
<1>8. Line' = Append(q, <<>>)
  BY <1>2, <1>6, <1>7 DEF Line
<1>9. Ordered(f, q, n)
  BY <1>1, <1>4, <1>5 DEF OrderInv
<1>10. Ordered(f, Append(q, <<>>), n)
  BY <1>9, OrderedEmpty
<1>11. QED
  BY <1>2, <1>8, <1>10 DEF OrderInv

\* The drop of the excess leaves the rest in order.
LEMMA DropOrder == OrderInv /\ BufferInv /\ DropExcess => OrderInv'
<1> SUFFICES ASSUME OrderInv, BufferInv, DropExcess PROVE OrderInv'
    OBVIOUS
<1>1. PICK bs \in Seq(Seq(Nat)), c \in Seq(Nat), b \in Seq(Seq(Nat)),
           f \in Seq(Nat), n \in Nat :
        bs = buffers /\ c = currentBuffer /\ b = bufferToWrite
        /\ f = file /\ n = appended
  BY LineType
<1>2. /\ pc = "write" /\ written = 0 /\ pc' = "write" /\ written' = 0
      /\ 2 \in 0 .. Len(b)
      /\ bufferToWrite' = SubSeq(b, 1, 2) /\ buffers' = bs /\ currentBuffer' = c
      /\ file' = f /\ appended' = n
  BY <1>1, MaxBuffersAssumption DEF DropExcess, frontVars
<1>3. PICK o \in Seq(Seq(Nat)) : o = SubSeq(b, 1, 2)
  BY <1>2, Prefix
<1>4. Rest = b /\ Rest' = o
  <2>1. SubSeq(b, 1, Len(b)) = b
    BY SubSeqFull
  <2>2. SubSeq(o, 1, Len(o)) = o
    BY SubSeqFull
  <2>3. Rest = b
    BY <1>1, <1>2, <2>1 DEF Rest
  <2>4. Rest' = o
    BY <1>2, <1>3, <2>2 DEF Rest
  <2>5. QED
    BY <2>3, <2>4
<1>5. PICK q \in Seq(Seq(Nat)) : q = Append(bs, c)
  BY AppendProperties
<1>6. Line = b \o q
  <2>1. Append(b \o bs, c) = b \o Append(bs, c)
    BY AppendToLine
  <2>2. QED
    BY <1>1, <1>4, <1>5, <2>1 DEF Line
<1>7. Line' = o \o q
  <2>1. Append(o \o bs, c) = o \o Append(bs, c)
    BY AppendToLine
  <2>2. QED
    BY <1>2, <1>4, <1>5, <2>1 DEF Line
<1>8. Ordered(f, b \o q, n)
  BY <1>1, <1>6 DEF OrderInv
<1>9. Ordered(f, SubSeq(b, 1, 2) \o q, n)
  BY <1>2, <1>8, OrderedWithout
<1>10. QED
  BY <1>2, <1>3, <1>7, <1>9 DEF OrderInv

\* Writing the first buffer moves it to the end of the file.
LEMMA WriteOrder == OrderInv /\ BufferInv /\ WriteBuffer => OrderInv'
<1> SUFFICES ASSUME OrderInv, BufferInv, WriteBuffer PROVE OrderInv'
    OBVIOUS
<1>1. PICK bs \in Seq(Seq(Nat)), c \in Seq(Nat), b \in Seq(Seq(Nat)),
           f \in Seq(Nat), n \in Nat :
        bs = buffers /\ c = currentBuffer /\ b = bufferToWrite
        /\ f = file /\ n = appended
  BY LineType
<1>2. PICK w \in Nat : w = written
  BY DEF BufferInv, TypeOK
<1>3. /\ pc = "write" /\ pc' = "write" /\ written' = w + 1 /\ w < Len(b)
      /\ bufferToWrite' = b /\ buffers' = bs /\ currentBuffer' = c
      /\ file' = f \o b[w + 1] /\ appended' = n
  BY <1>1, <1>2 DEF WriteBuffer, frontVars
<1>4. PICK q \in Seq(Seq(Nat)) : q = Append(bs, c)
  BY AppendProperties
<1>5. w + 1 \in 1 .. Len(b) + 1 /\ (w + 1) + 1 \in 1 .. Len(b) + 1
  BY <1>3
<1>6. PICK o \in Seq(Seq(Nat)) : o = SubSeq(b, w + 1, Len(b))
  BY <1>5, Suffix
<1>7. PICK r \in Seq(Seq(Nat)) : r = SubSeq(b, (w + 1) + 1, Len(b))
  BY <1>5, Suffix
<1>8. Rest = o /\ Rest' = r
  BY <1>1, <1>2, <1>3, <1>6, <1>7 DEF Rest
<1>9. Line = o \o q
  <2>1. Append(o \o bs, c) = o \o Append(bs, c)
    BY AppendToLine
  <2>2. QED
    BY <1>1, <1>4, <1>8, <2>1 DEF Line
<1>10. Line' = r \o q
  <2>1. Append(r \o bs, c) = r \o Append(bs, c)
    BY AppendToLine
  <2>2. QED
    BY <1>3, <1>4, <1>8, <2>1 DEF Line
<1>11. PICK l \in Seq(Seq(Nat)) : l = o \o q
  BY ConcatProperties
<1>12. l # <<>> /\ Head(l) = b[w + 1] /\ Tail(l) = r \o q
  BY <1>3, <1>6, <1>7, <1>11, FirstOfRest
<1>13. Ordered(f, l, n)
  BY <1>1, <1>9, <1>11 DEF OrderInv
<1>14. Ordered(f \o Head(l), Tail(l), n)
  BY <1>12, <1>13, OrderedWritten
<1>15. QED
  BY <1>3, <1>10, <1>12, <1>14 DEF OrderInv

\* Cutting buffersToWrite to two moves no message.
LEMMA ResizeOrder == OrderInv /\ BufferInv /\ Resize => OrderInv'
<1> SUFFICES ASSUME OrderInv, BufferInv, Resize PROVE OrderInv'
    OBVIOUS
<1>1. PICK b \in Seq(Seq(Nat)) : b = bufferToWrite
  BY LineType
<1>2. /\ pc = "write" /\ written = Len(b) /\ pc' = "refill"
      /\ UNCHANGED <<currentBuffer, buffers, file, appended>>
  BY <1>1 DEF Resize, frontVars
<1>3. SubSeq(b, Len(b) + 1, Len(b)) = <<>>
  BY NothingAfterTheEnd
<1>4. Rest = <<>> /\ Rest' = <<>>
  BY <1>1, <1>2, <1>3 DEF Rest
<1>5. Line' = Line
  BY <1>2, <1>4 DEF Line
<1>6. QED
  BY <1>2, <1>5 DEF OrderInv

\* Every step keeps the messages in order.
LEMMA OrderStep == OrderInv /\ BufferInv /\ BufferInv' /\ [Next]_vars => OrderInv'
<1> SUFFICES ASSUME OrderInv, BufferInv, BufferInv', [Next]_vars PROVE OrderInv'
    OBVIOUS
<1>1. CASE AppendMessage
  BY <1>1, AppendOrder
<1>2. CASE Start \/ StartReturns \/ Stop \/ Join
  <2>1. /\ UNCHANGED <<currentBuffer, buffers, file, appended>>
        /\ \/ pc # "write" /\ pc' # "write"
           \/ UNCHANGED <<pc, bufferToWrite, written>>
    BY <1>2 DEF Start, StartReturns, Stop, Join, frontVars, backVars,
                BufferInv, TypeOK
  <2>2. QED
    BY <2>1, LineUnchanged
<1>3. CASE CountDown \/ While \/ Wait \/ Refill
  <2>1. /\ UNCHANGED <<currentBuffer, buffers, file, appended>>
        /\ pc # "write" /\ pc' # "write"
    BY <1>3 DEF CountDown, While, Wait, Refill, frontVars
  <2>2. QED
    BY <2>1, LineUnchanged
<1>4. CASE SwapAtOnce \/ Wake
  BY <1>4, SwapOrder DEF SwapAtOnce, Wake
<1>5. CASE DropExcess \/ WriteBuffer \/ Resize
  BY <1>5, DropOrder, WriteOrder, ResizeOrder
<1>6. CASE UNCHANGED vars
  BY <1>6, LineUnchanged DEF vars, frontVars, backVars
<1>7. QED
  BY <1>1, <1>2, <1>3, <1>4, <1>5, <1>6 DEF Next, BackStep

\* Whatever the back end drops, what it writes to the file is in the order of
\* the appends and nothing is written twice.
THEOREM InAppendOrder == Spec => []WrittenInOrder
<1>1. OrderInv /\ BufferInv => WrittenInOrder
  <2>1. OrderInv => Increasing(file)
    BY DEF OrderInv, Ordered
  <2>2. BufferInv => DOMAIN file = 1 .. Len(file)
    BY DEF BufferInv, TypeOK
  <2>3. QED
    BY <2>1, <2>2 DEF Increasing, WrittenInOrder
<1>2. QED
  BY <1>1, OrderInit, OrderStep, BufferInvariant, PTL DEF Spec

=============================================================================
