------------------------------- MODULE Buffer -------------------------------
(***************************************************************************)
(* net/Buffer.h and Buffer.cpp: the bytes between readerIndex_ and         *)
(* writerIndex_ of a vector.  Reading leaves room in front, which is used  *)
(* again by moving what is left (makeSpace) unless the vector has to grow. *)
(***************************************************************************)
EXTENDS Naturals, Sequences

CONSTANTS
  CheapPrepend,         \* kept free in front when the buffer is emptied
  InitialSize,
  ExtraSize,            \* sizeof extrabuf
  Byte, Zero            \* the bytes, and what resize fills with

ASSUME SizeAssumption ==
  CheapPrepend \in Nat /\ InitialSize \in Nat /\ ExtraSize \in Nat
ASSUME ByteAssumption == Zero \in Byte

\* The vector is mem; byte i of the code is mem[i + 1].
Buffers == [mem: Seq(Byte), reader: Nat, writer: Nat]

Zeros(n) == [i \in 1 .. n |-> Zero]
EmptyBuffer == [mem |-> Zeros(CheapPrepend + InitialSize),
                reader |-> CheapPrepend, writer |-> CheapPrepend]

Readable(b) == b.writer - b.reader
Writable(b) == Len(b.mem) - b.writer
Prependable(b) == b.reader
Contents(b) == SubSeq(b.mem, b.reader + 1, b.writer)

\* The indices are in order, in the vector, and leave the room in front.
InBounds(b) ==
  CheapPrepend <= b.reader /\ b.reader <= b.writer /\ b.writer <= Len(b.mem)

RetrieveAll(b) == [b EXCEPT !.reader = CheapPrepend, !.writer = CheapPrepend]
Retrieve(b, len) ==
  IF len < Readable(b) THEN [b EXCEPT !.reader = @ + len] ELSE RetrieveAll(b)

\* A mistake: the room that stays free in front is counted as usable.
TooSmall_All(b, len) == Writable(b) + Prependable(b) < len
TooSmall(b, len) == Writable(b) + Prependable(b) < len + CheapPrepend

Resize(b, n) ==
  [mem |-> [i \in 1 .. n |-> IF i <= Len(b.mem) THEN b.mem[i] ELSE Zero],
   reader |-> b.reader, writer |-> b.writer]

Compact(b) ==
  [mem |-> [i \in 1 .. Len(b.mem) |->
              IF CheapPrepend < i /\ i <= CheapPrepend + Readable(b)
              THEN b.mem[b.reader + i - CheapPrepend] ELSE b.mem[i]],
   reader |-> CheapPrepend,
   writer |-> CheapPrepend + Readable(b)]

EnsureWritable(b, len) ==
  IF Writable(b) >= len THEN b
  ELSE IF TooSmall(b, len) THEN Resize(b, b.writer + len) ELSE Compact(b)

\* Copies to beginWrite() and moves the index: what does not fit in the vector
\* is written behind its end.
Write(b, data) ==
  [mem |-> [i \in 1 .. Len(b.mem) |->
              IF b.writer < i /\ i <= b.writer + Len(data)
              THEN data[i - b.writer] ELSE b.mem[i]],
   reader |-> b.reader, writer |-> b.writer + Len(data)]

Append_(b, data) == Write(EnsureWritable(b, Len(data)), data)

\* readv fills the vector first and extrabuf then, which is appended.
Room(b) == Writable(b) + ExtraSize
ReadFd(b, data) ==
  IF Len(data) <= Writable(b) THEN Write(b, data)
  ELSE Append_(Write(b, SubSeq(data, 1, Writable(b))),
               SubSeq(data, Writable(b) + 1, Len(data)))

=============================================================================
