-------------------------- MODULE HttpServerProofs --------------------------
(***************************************************************************)
(* For any sizes of the buffer and any requests and fragments: the input   *)
(* buffer of a connection holds exactly what was read and not retrieved,   *)
(* and requests that come alone and whole are answered as they ask.        *)
(* First, what the operations of a buffer do to its contents: they keep    *)
(* the indices in the vector, and take, keep or extend the bytes between   *)
(* them exactly.                                                           *)
(***************************************************************************)
EXTENDS HttpServer, SequenceTheorems, WellFoundedInduction, TLAPS

USE SizeAssumption, ByteAssumption

\* What every operation keeps of a buffer.
Sound(b) == b \in Buffers /\ InBounds(b)

-----------------------------------------------------------------------------
\* A sequence is made of its length and its elements.
LEMMA IsSequence ==
  ASSUME NEW S, NEW n \in Nat, NEW f, f \in [1 .. n -> S]
  PROVE  f \in Seq(S) /\ Len(f) = n
BY SMT

\* A set of numbers that is not empty has a least one, as findCRLF finds one.
LEMMA LeastExists ==
  ASSUME NEW T, T \subseteq Nat, T # {}
  PROVE  \E n \in T : \A m \in T : n <= m
<1>1. \E x \in T : \A y \in T : ~(<<y, x>> \in OpToRel(<, Nat))
  BY WFMin, NatLessThanWellFounded, Zenon
<1>2. PICK x \in T : \A y \in T : ~(<<y, x>> \in OpToRel(<, Nat))
  BY <1>1
<1>3. ASSUME NEW y \in T
      PROVE  x <= y
  <2>1. ~(<<y, x>> \in OpToRel(<, Nat))
    BY <1>2
  <2>2. x \in Nat /\ y \in Nat
    OBVIOUS
  <2>3. ~(y < x)
    BY <2>1, <2>2 DEF OpToRel
  <2>4. QED
    BY <2>2, <2>3
<1>4. QED
  BY <1>3

\* The contents are as long as readableBytes says, and lie behind readerIndex_.
LEMMA ContentsExact ==
  ASSUME NEW b, Sound(b)
  PROVE  /\ b.mem \in [1 .. Len(b.mem) -> Byte] /\ Len(b.mem) \in Nat
         /\ b.reader \in Nat /\ b.writer \in Nat
         /\ Readable(b) \in Nat /\ Writable(b) \in Nat
         /\ Contents(b) \in Seq(Byte) /\ Len(Contents(b)) = Readable(b)
         /\ \A i \in 1 .. Readable(b) : Contents(b)[i] = b.mem[b.reader + i]
<1>1. /\ b.mem \in Seq(Byte) /\ b.reader \in Nat /\ b.writer \in Nat
      /\ CheapPrepend <= b.reader /\ b.reader <= b.writer /\ b.writer <= Len(b.mem)
  BY DEF Sound, Buffers, InBounds
<1>2. b.mem \in [1 .. Len(b.mem) -> Byte] /\ Len(b.mem) \in Nat
  BY <1>1, LenProperties
<1>3. Readable(b) \in Nat /\ Writable(b) \in Nat
  BY <1>1, <1>2 DEF Readable, Writable
<1>4. \A i \in b.reader + 1 .. b.writer : b.mem[i] \in Byte
  BY <1>1, <1>2
<1>5. b.reader + 1 \in Int /\ b.writer \in Int
  BY <1>1
<1>6. /\ Contents(b) \in Seq(Byte)
      /\ Len(Contents(b)) = IF b.reader + 1 <= b.writer
                            THEN b.writer - (b.reader + 1) + 1 ELSE 0
      /\ \A i \in 1 .. b.writer - (b.reader + 1) + 1 :
           Contents(b)[i] = b.mem[(b.reader + 1) + i - 1]
  BY <1>4, <1>5, SubSeqProperties DEF Contents
<1>7. Len(Contents(b)) = Readable(b)
  BY <1>1, <1>6 DEF Readable
<1>8. ASSUME NEW i \in 1 .. Readable(b)
      PROVE  Contents(b)[i] = b.mem[b.reader + i]
  <2>1. i \in 1 .. b.writer - (b.reader + 1) + 1 /\ (b.reader + 1) + i - 1 = b.reader + i
    BY <1>1 DEF Readable
  <2>2. QED
    BY <1>6, <2>1
<1>9. QED
  BY <1>1, <1>2, <1>3, <1>6, <1>7, <1>8

\* Two buffers with the same readable bytes have the same contents.
LEMMA SameContents ==
  ASSUME NEW b, NEW c, Sound(b), Sound(c),
         Readable(c) = Readable(b),
         \A i \in 1 .. Readable(b) : c.mem[c.reader + i] = b.mem[b.reader + i]
  PROVE  Contents(c) = Contents(b)
<1>1. /\ Contents(b) \in Seq(Byte) /\ Len(Contents(b)) = Readable(b)
      /\ \A i \in 1 .. Readable(b) : Contents(b)[i] = b.mem[b.reader + i]
  BY ContentsExact
<1>2. /\ Contents(c) \in Seq(Byte) /\ Len(Contents(c)) = Readable(c)
      /\ \A i \in 1 .. Readable(c) : Contents(c)[i] = c.mem[c.reader + i]
  BY ContentsExact
<1>3. Len(Contents(c)) = Len(Contents(b))
  BY <1>1, <1>2
<1>4. \A i \in 1 .. Len(Contents(c)) : Contents(c)[i] = Contents(b)[i]
  BY <1>1, <1>2
<1>5. QED
  BY <1>1, <1>2, <1>3, <1>4, SeqEqual

-----------------------------------------------------------------------------
\* A new buffer is sound and empty.
LEMMA EmptySound == Sound(EmptyBuffer) /\ Contents(EmptyBuffer) = <<>>
<1>1. Zeros(CheapPrepend + InitialSize) \in [1 .. CheapPrepend + InitialSize -> Byte]
  BY DEF Zeros
<1>2. /\ Zeros(CheapPrepend + InitialSize) \in Seq(Byte)
      /\ Len(Zeros(CheapPrepend + InitialSize)) = CheapPrepend + InitialSize
  BY <1>1, IsSequence
<1>3. Sound(EmptyBuffer)
  BY <1>2 DEF Sound, EmptyBuffer, Buffers, InBounds
<1>4. QED
  <2>1. CheapPrepend + 1 \in Int /\ CheapPrepend \in Int /\ CheapPrepend < CheapPrepend + 1
    OBVIOUS
  <2>2. QED
    BY <1>3, <2>1, SubSeqEmpty DEF Contents, EmptyBuffer

\* retrieve takes the first bytes; all of them if there are no more.
LEMMA RetrieveExact ==
  ASSUME NEW b, Sound(b), NEW len \in Nat
  PROVE  /\ Sound(Retrieve(b, len))
         /\ Contents(Retrieve(b, len)) = SubSeq(Contents(b), len + 1, Len(Contents(b)))
<1> DEFINE c == Retrieve(b, len)
           rest == SubSeq(Contents(b), len + 1, Len(Contents(b)))
<1>1. /\ b.mem \in Seq(Byte) /\ b.reader \in Nat /\ b.writer \in Nat
      /\ CheapPrepend <= b.reader /\ b.reader <= b.writer /\ b.writer <= Len(b.mem)
      /\ b = [mem |-> b.mem, reader |-> b.reader, writer |-> b.writer]
  BY DEF Sound, Buffers, InBounds
<1>2. /\ Contents(b) \in Seq(Byte) /\ Len(Contents(b)) = Readable(b)
      /\ Readable(b) \in Nat /\ Len(b.mem) \in Nat
      /\ \A i \in 1 .. Readable(b) : Contents(b)[i] = b.mem[b.reader + i]
  BY ContentsExact
<1>3. \A i \in len + 1 .. Len(Contents(b)) : Contents(b)[i] \in Byte
  <2>1. Contents(b) \in [1 .. Len(Contents(b)) -> Byte]
    BY <1>2, LenProperties
  <2>2. QED
    BY <2>1
<1>4. len + 1 \in Int /\ Len(Contents(b)) \in Int
  BY <1>2
<1>5. /\ rest \in Seq(Byte)
      /\ Len(rest) = IF len + 1 <= Readable(b) THEN Readable(b) - len ELSE 0
      /\ \A i \in 1 .. Len(Contents(b)) - (len + 1) + 1 :
           rest[i] = Contents(b)[(len + 1) + i - 1]
  <2>1. /\ rest \in Seq(Byte)
        /\ Len(rest) = IF len + 1 <= Len(Contents(b))
                       THEN Len(Contents(b)) - (len + 1) + 1 ELSE 0
        /\ \A i \in 1 .. Len(Contents(b)) - (len + 1) + 1 :
             rest[i] = Contents(b)[(len + 1) + i - 1]
    BY <1>3, <1>4, SubSeqProperties
  <2>2. QED
    BY <1>2, <2>1
<1>6. CASE len < Readable(b)
  <2>1. c = [mem |-> b.mem, reader |-> b.reader + len, writer |-> b.writer]
    BY <1>1, <1>6 DEF Retrieve
  <2>2. Sound(c) /\ Readable(c) = Readable(b) - len
    BY <1>1, <1>2, <1>6, <2>1 DEF Sound, Buffers, InBounds, Readable
  <2>3. /\ Contents(c) \in Seq(Byte) /\ Len(Contents(c)) = Readable(c)
        /\ \A i \in 1 .. Readable(c) : Contents(c)[i] = c.mem[c.reader + i]
    BY <2>2, ContentsExact
  <2>4. Len(Contents(c)) = Len(rest)
    BY <1>2, <1>5, <1>6, <2>2, <2>3
  <2>5. ASSUME NEW i \in 1 .. Len(Contents(c))
        PROVE  Contents(c)[i] = rest[i]
    <3>1. i \in 1 .. Readable(b) - len
      BY <2>2, <2>3
    <3>2. Contents(c)[i] = b.mem[b.reader + len + i]
      BY <2>1, <2>2, <2>3, <3>1
    <3>3. rest[i] = Contents(b)[(len + 1) + i - 1]
      BY <1>2, <1>5, <3>1
    <3>4. len + i \in 1 .. Readable(b) /\ (len + 1) + i - 1 = len + i
      BY <1>2, <1>6, <3>1
    <3>5. Contents(b)[len + i] = b.mem[b.reader + (len + i)]
      BY <1>2, <3>4
    <3>6. b.reader + (len + i) = b.reader + len + i
      BY <1>1, <3>4
    <3>7. QED
      BY <3>2, <3>3, <3>4, <3>5, <3>6
  <2>6. QED
    BY <1>5, <2>2, <2>3, <2>4, <2>5, SeqEqual
<1>7. CASE ~(len < Readable(b))
  <2>1. c = [mem |-> b.mem, reader |-> CheapPrepend, writer |-> CheapPrepend]
    BY <1>1, <1>7 DEF Retrieve, RetrieveAll
  <2>2. Sound(c)
    BY <1>1, <1>2, <2>1 DEF Sound, Buffers, InBounds
  <2>3. Contents(c) = <<>>
    <3>1. CheapPrepend + 1 \in Int /\ CheapPrepend \in Int /\ CheapPrepend < CheapPrepend + 1
      OBVIOUS
    <3>2. QED
      BY <2>1, <3>1, SubSeqEmpty DEF Contents
  <2>4. rest = <<>>
    <3>1. Len(Contents(b)) < len + 1
      BY <1>2, <1>7
    <3>2. QED
      BY <1>4, <3>1, SubSeqEmpty
  <2>5. QED
    BY <2>2, <2>3, <2>4
<1>8. QED
  BY <1>6, <1>7

\* Writing what fits appends it to the contents.
LEMMA WriteExact ==
  ASSUME NEW b, Sound(b), NEW data \in Seq(Byte), Len(data) <= Writable(b)
  PROVE  /\ Sound(Write(b, data))
         /\ Contents(Write(b, data)) = Contents(b) \o data
<1> DEFINE c == Write(b, data)
           m == [i \in 1 .. Len(b.mem) |->
                   IF b.writer < i /\ i <= b.writer + Len(data)
                   THEN data[i - b.writer] ELSE b.mem[i]]
<1>1. /\ b.mem \in Seq(Byte) /\ b.reader \in Nat /\ b.writer \in Nat
      /\ CheapPrepend <= b.reader /\ b.reader <= b.writer /\ b.writer <= Len(b.mem)
      /\ b = [mem |-> b.mem, reader |-> b.reader, writer |-> b.writer]
  BY DEF Sound, Buffers, InBounds
<1>2. /\ Contents(b) \in Seq(Byte) /\ Len(Contents(b)) = Readable(b)
      /\ Readable(b) \in Nat /\ Len(b.mem) \in Nat
      /\ b.mem \in [1 .. Len(b.mem) -> Byte]
      /\ \A i \in 1 .. Readable(b) : Contents(b)[i] = b.mem[b.reader + i]
  BY ContentsExact
<1>3. Len(data) \in Nat /\ data \in [1 .. Len(data) -> Byte]
  BY LenProperties
<1>4. \A i \in 1 .. Len(b.mem) :
        m[i] = IF b.writer < i /\ i <= b.writer + Len(data)
               THEN data[i - b.writer] ELSE b.mem[i]
  OBVIOUS
<1>5. c = [mem |-> m, reader |-> b.reader, writer |-> b.writer + Len(data)]
  BY DEF Write
<1>6. m \in [1 .. Len(b.mem) -> Byte]
  <2>1. ASSUME NEW i \in 1 .. Len(b.mem)
        PROVE  m[i] \in Byte
    <3>1. CASE b.writer < i /\ i <= b.writer + Len(data)
      <4>1. i - b.writer \in 1 .. Len(data)
        BY <1>1, <1>3, <3>1
      <4>2. QED
        BY <1>3, <3>1, <4>1
    <3>2. CASE ~(b.writer < i /\ i <= b.writer + Len(data))
      BY <1>2, <3>2
    <3>3. QED
      BY <3>1, <3>2
  <2>2. QED
    BY <2>1
<1> HIDE DEF m, c
<1>7. m \in Seq(Byte) /\ Len(m) = Len(b.mem)
  BY <1>2, <1>6, IsSequence
<1>8. Sound(c) /\ Readable(c) = Readable(b) + Len(data)
  BY <1>1, <1>2, <1>3, <1>5, <1>7 DEF Sound, Buffers, InBounds, Readable, Writable
<1>9. /\ Contents(c) \in Seq(Byte) /\ Len(Contents(c)) = Readable(c)
      /\ \A i \in 1 .. Readable(c) : Contents(c)[i] = c.mem[c.reader + i]
  BY <1>8, ContentsExact
<1>10. /\ Contents(b) \o data \in Seq(Byte)
       /\ Len(Contents(b) \o data) = Readable(b) + Len(data)
       /\ \A i \in 1 .. Readable(b) + Len(data) : (Contents(b) \o data)[i] =
            IF i <= Readable(b) THEN Contents(b)[i] ELSE data[i - Readable(b)]
  <2>1. PICK s : s = Contents(b)
    OBVIOUS
  <2>2. s \in Seq(Byte) /\ Len(s) = Readable(b)
    BY <1>2, <2>1
  <2>3. /\ s \o data \in Seq(Byte)
        /\ Len(s \o data) = Len(s) + Len(data)
        /\ \A i \in 1 .. Len(s) + Len(data) : (s \o data)[i] =
             IF i <= Len(s) THEN s[i] ELSE data[i - Len(s)]
    BY <2>2, ConcatProperties
  <2>4. QED
    BY <2>1, <2>2, <2>3
<1>11. ASSUME NEW i \in 1 .. Readable(b) + Len(data)
       PROVE  Contents(c)[i] = (Contents(b) \o data)[i]
  <2>0. PICK j : j = b.reader + i
    OBVIOUS
  <2>1. Contents(c)[i] = m[j] /\ j \in 1 .. Len(b.mem)
    <3>1. Contents(c)[i] = m[j]
      BY <1>5, <1>8, <1>9, <2>0
    <3>2. j \in 1 .. Len(b.mem)
      BY <1>1, <1>2, <1>3, <2>0 DEF Readable, Writable
    <3>3. QED
      BY <3>1, <3>2
  <2>2. m[j] = IF b.writer < j /\ j <= b.writer + Len(data)
               THEN data[j - b.writer] ELSE b.mem[j]
    BY <1>4, <2>1
  <2>3. CASE i <= Readable(b)
    <3>1. ~(b.writer < j)
      BY <1>1, <2>0, <2>3 DEF Readable
    <3>2. i \in 1 .. Readable(b)
      BY <1>2, <2>3
    <3>3. QED
      BY <1>2, <1>10, <2>0, <2>1, <2>2, <2>3, <3>1, <3>2
  <2>4. CASE ~(i <= Readable(b))
    <3>1. b.writer < j /\ j <= b.writer + Len(data) /\ j - b.writer = i - Readable(b)
      BY <1>1, <1>3, <2>0, <2>4 DEF Readable
    <3>2. QED
      BY <1>10, <2>1, <2>2, <2>4, <3>1
  <2>5. QED
    BY <2>3, <2>4
<1>12. QED
  <2>1. Len(Contents(c)) = Len(Contents(b) \o data)
    BY <1>8, <1>9, <1>10
  <2>2. \A i \in 1 .. Len(Contents(c)) : Contents(c)[i] = (Contents(b) \o data)[i]
    BY <1>8, <1>9, <1>11
  <2>3. Contents(c) = Contents(b) \o data
    BY <1>9, <1>10, <2>1, <2>2, SeqEqual
  <2>4. QED
    BY <1>8, <2>3 DEF c

\* makeSpace keeps the contents, whether the vector grows or is compacted, and
\* there is room for len bytes afterwards.
LEMMA EnsureExact ==
  ASSUME NEW b, Sound(b), NEW len \in Nat
  PROVE  /\ Sound(EnsureWritable(b, len))
         /\ Contents(EnsureWritable(b, len)) = Contents(b)
         /\ len <= Writable(EnsureWritable(b, len))
<1>1. /\ b.mem \in Seq(Byte) /\ b.reader \in Nat /\ b.writer \in Nat
      /\ CheapPrepend <= b.reader /\ b.reader <= b.writer /\ b.writer <= Len(b.mem)
      /\ b = [mem |-> b.mem, reader |-> b.reader, writer |-> b.writer]
  BY DEF Sound, Buffers, InBounds
<1>2. /\ Readable(b) \in Nat /\ Writable(b) \in Nat /\ Len(b.mem) \in Nat
      /\ b.mem \in [1 .. Len(b.mem) -> Byte]
  BY ContentsExact
<1>3. CASE Writable(b) >= len
  <2>1. EnsureWritable(b, len) = b
    BY <1>3 DEF EnsureWritable
  <2>2. QED
    BY <1>2, <1>3, <2>1
<1>4. CASE ~(Writable(b) >= len) /\ TooSmall(b, len)
  <2> DEFINE n == b.writer + len
             m == [i \in 1 .. n |-> IF i <= Len(b.mem) THEN b.mem[i] ELSE Zero]
             c == Resize(b, n)
  <2>1. EnsureWritable(b, len) = c
    BY <1>4 DEF EnsureWritable
  <2>2. n \in Nat /\ Len(b.mem) < n
    BY <1>1, <1>2, <1>4 DEF Writable
  <2>3. c = [mem |-> m, reader |-> b.reader, writer |-> b.writer]
    BY DEF Resize
  <2>4. m \in [1 .. n -> Byte]
    BY <1>2, <2>2
  <2>5. m \in Seq(Byte) /\ Len(m) = n
    BY <2>2, <2>4, IsSequence
  <2> HIDE DEF m
  <2>6. Sound(c) /\ Readable(c) = Readable(b) /\ Writable(c) = len
    BY <1>1, <1>2, <2>2, <2>3, <2>5 DEF Sound, Buffers, InBounds, Readable, Writable
  <2>elements. \A i \in 1 .. n : m[i] = IF i <= Len(b.mem) THEN b.mem[i] ELSE Zero
    BY DEF m
  <2>7. \A i \in 1 .. Readable(b) : c.mem[c.reader + i] = b.mem[b.reader + i]
    <3>1. ASSUME NEW i \in 1 .. Readable(b)
          PROVE  m[b.reader + i] = b.mem[b.reader + i]
      <4>1. b.reader + i \in 1 .. n /\ b.reader + i <= Len(b.mem)
        BY <1>1, <1>2, <2>2 DEF Readable
      <4>2. QED
        BY <2>elements, <4>1
    <3>2. c.mem = m /\ c.reader = b.reader
      BY <2>3
    <3>3. QED
      BY <3>1, <3>2
  <2>8. Contents(c) = Contents(b)
    BY <2>6, <2>7, SameContents
  <2>9. QED
    BY <2>1, <2>6, <2>8
<1>5. CASE ~(Writable(b) >= len) /\ ~TooSmall(b, len)
  <2> DEFINE m == [i \in 1 .. Len(b.mem) |->
                     IF CheapPrepend < i /\ i <= CheapPrepend + Readable(b)
                     THEN b.mem[b.reader + i - CheapPrepend] ELSE b.mem[i]]
             c == Compact(b)
  <2>1. EnsureWritable(b, len) = c
    BY <1>5 DEF EnsureWritable
  <2>2. c = [mem |-> m, reader |-> CheapPrepend, writer |-> CheapPrepend + Readable(b)]
    BY DEF Compact
  <2>3. m \in [1 .. Len(b.mem) -> Byte]
    <3>1. ASSUME NEW i \in 1 .. Len(b.mem)
          PROVE  m[i] \in Byte
      <4>1. CASE CheapPrepend < i /\ i <= CheapPrepend + Readable(b)
        <5>1. b.reader + i - CheapPrepend \in 1 .. Len(b.mem)
          BY <1>1, <1>2, <4>1 DEF Readable
        <5>2. QED
          BY <1>2, <4>1, <5>1
      <4>2. CASE ~(CheapPrepend < i /\ i <= CheapPrepend + Readable(b))
        BY <1>2, <4>2
      <4>3. QED
        BY <4>1, <4>2
    <3>2. QED
      BY <3>1
  <2>4. m \in Seq(Byte) /\ Len(m) = Len(b.mem)
    BY <1>2, <2>3, IsSequence
  <2>5. Sound(c) /\ Readable(c) = Readable(b)
    BY <1>1, <1>2, <2>2, <2>4 DEF Sound, Buffers, InBounds, Readable
  <2>6. len <= Writable(c)
    BY <1>1, <1>2, <1>5, <2>2, <2>4 DEF TooSmall, Writable, Prependable, Readable
  <2>7. \A i \in 1 .. Readable(b) : c.mem[c.reader + i] = b.mem[b.reader + i]
    <3>1. ASSUME NEW i \in 1 .. Readable(b)
          PROVE  m[CheapPrepend + i] = b.mem[b.reader + i]
      <4>1. /\ CheapPrepend + i \in 1 .. Len(b.mem)
            /\ CheapPrepend < CheapPrepend + i
            /\ CheapPrepend + i <= CheapPrepend + Readable(b)
            /\ b.reader + (CheapPrepend + i) - CheapPrepend = b.reader + i
        BY <1>1, <1>2 DEF Readable
      <4>2. QED
        BY <4>1
    <3>2. c.mem = m /\ c.reader = CheapPrepend
      BY <2>2
    <3>3. QED
      BY <3>1, <3>2
  <2>8. Contents(c) = Contents(b)
    BY <2>5, <2>7, SameContents
  <2>9. QED
    BY <2>1, <2>5, <2>6, <2>8
<1>6. QED
  BY <1>3, <1>4, <1>5

\* append adds any data to the contents.
LEMMA AppendExact ==
  ASSUME NEW b, Sound(b), NEW data \in Seq(Byte)
  PROVE  /\ Sound(Append_(b, data))
         /\ Contents(Append_(b, data)) = Contents(b) \o data
<1>1. Len(data) \in Nat
  BY LenProperties
<1>2. PICK c : c = EnsureWritable(b, Len(data))
  OBVIOUS
<1>3. Sound(c) /\ Contents(c) = Contents(b) /\ Len(data) <= Writable(c)
  BY <1>1, <1>2, EnsureExact
<1>4. Sound(Write(c, data)) /\ Contents(Write(c, data)) = Contents(c) \o data
  BY <1>3, WriteExact
<1>5. QED
  BY <1>2, <1>3, <1>4 DEF Append_

\* readFd adds what was read, in the vector and in extrabuf, in order.
LEMMA ReadFdExact ==
  ASSUME NEW b, Sound(b), NEW data \in Seq(Byte)
  PROVE  /\ Sound(ReadFd(b, data))
         /\ Contents(ReadFd(b, data)) = Contents(b) \o data
<1>1. /\ Len(data) \in Nat /\ data \in [1 .. Len(data) -> Byte]
      /\ Writable(b) \in Nat /\ Contents(b) \in Seq(Byte)
  BY ContentsExact, LenProperties
<1>2. CASE Len(data) <= Writable(b)
  BY <1>2, WriteExact DEF ReadFd
<1>3. CASE ~(Len(data) <= Writable(b))
  <2>1. PICK first : first = SubSeq(data, 1, Writable(b))
    OBVIOUS
  <2>2. PICK last : last = SubSeq(data, Writable(b) + 1, Len(data))
    OBVIOUS
  <2>3. \A i \in 1 .. Writable(b) : data[i] \in Byte
    BY <1>1, <1>3
  <2>4. 1 \in Int /\ Writable(b) \in Int /\ Writable(b) + 1 \in Int /\ Len(data) \in Int
    BY <1>1
  <2>5. /\ first \in Seq(Byte)
        /\ Len(first) = IF 1 <= Writable(b) THEN Writable(b) - 1 + 1 ELSE 0
        /\ \A i \in 1 .. Writable(b) - 1 + 1 : first[i] = data[1 + i - 1]
    BY <2>1, <2>3, <2>4, SubSeqProperties
  <2>6. \A i \in Writable(b) + 1 .. Len(data) : data[i] \in Byte
    BY <1>1, <1>3
  <2>7. /\ last \in Seq(Byte)
        /\ Len(last) = IF Writable(b) + 1 <= Len(data)
                       THEN Len(data) - (Writable(b) + 1) + 1 ELSE 0
        /\ \A i \in 1 .. Len(data) - (Writable(b) + 1) + 1 :
             last[i] = data[(Writable(b) + 1) + i - 1]
    BY <2>2, <2>4, <2>6, SubSeqProperties
  <2>8. Len(first) = Writable(b) /\ Len(last) = Len(data) - Writable(b)
    BY <1>1, <1>3, <2>5, <2>7
  <2>9. first \o last = data
    <3>1. /\ first \o last \in Seq(Byte)
          /\ Len(first \o last) = Len(first) + Len(last)
          /\ \A i \in 1 .. Len(first) + Len(last) : (first \o last)[i] =
               IF i <= Len(first) THEN first[i] ELSE last[i - Len(first)]
      BY <2>5, <2>7, ConcatProperties
    <3>2. Len(first) + Len(last) = Len(data)
      BY <1>1, <2>8
    <3>3. ASSUME NEW i \in 1 .. Len(data)
          PROVE  (first \o last)[i] = data[i]
      <4>1. CASE i <= Writable(b)
        BY <1>1, <2>5, <2>8, <3>1, <3>2, <4>1
      <4>2. CASE ~(i <= Writable(b))
        <5>1. /\ i - Writable(b) \in 1 .. Len(data) - (Writable(b) + 1) + 1
              /\ (Writable(b) + 1) + (i - Writable(b)) - 1 = i
          BY <1>1, <4>2
        <5>2. last[i - Writable(b)] = data[i]
          BY <2>7, <5>1
        <5>3. QED
          BY <2>8, <3>1, <3>2, <4>2, <5>2
      <4>3. QED
        BY <4>1, <4>2
    <3>4. QED
      BY <3>1, <3>2, <3>3, SeqEqual
  <2>10. PICK c : c = Write(b, first)
    OBVIOUS
  <2>11. Sound(c) /\ Contents(c) = Contents(b) \o first
    <3>1. first \in Seq(Byte) /\ Len(first) <= Writable(b)
      BY <1>1, <2>5, <2>8
    <3>2. QED
      BY <2>10, <3>1, WriteExact
  <2>12. Sound(Append_(c, last)) /\ Contents(Append_(c, last)) = Contents(c) \o last
    BY <2>7, <2>11, AppendExact
  <2>13. ReadFd(b, data) = Append_(c, last)
    BY <1>3, <2>1, <2>2, <2>10 DEF ReadFd
  <2>14. (Contents(b) \o first) \o last = Contents(b) \o (first \o last)
    <3>1. PICK s : s = Contents(b)
      OBVIOUS
    <3>2. s \in Seq(Byte) /\ first \in Seq(Byte) /\ last \in Seq(Byte)
      BY <1>1, <2>5, <2>7, <3>1
    <3>3. (s \o first) \o last = s \o (first \o last)
      BY <3>2, ConcatAssociative
    <3>4. QED
      BY <3>1, <3>3
  <2>15. QED
    BY <2>9, <2>11, <2>12, <2>13, <2>14
<1>4. QED
  BY <1>2, <1>3

-----------------------------------------------------------------------------
(* The connection. *)

USE MessageAssumption

\* The inductive invariant, and what the parser relies on.
BufferInv ==
  /\ wire \in Seq(Byte) /\ unread \in Seq(Byte)
  /\ Sound(input) /\ Contents(input) = unread

-----------------------------------------------------------------------------
\* There is a first end of line where there is one.
LEMMA LineEndExists ==
  ASSUME BufferInv, Lines # {}
  PROVE  LineEnd \in Lines /\ LineEnd \in Nat
<1>1. Lines \subseteq Nat
  BY DEF Lines
<1>2. \E n \in Lines : \A m \in Lines : n <= m
  BY <1>1, LeastExists
<1>3. LineEnd \in Lines
  BY <1>2 DEF LineEnd
<1>4. QED
  BY <1>1, <1>3

\* What a part of a sequence holds.
LEMMA PartOf ==
  ASSUME NEW S, NEW s \in Seq(S), NEW m \in Nat \ {0}, NEW n \in Nat, n <= Len(s)
  PROVE  SubSeq(s, m, n) \in Seq(S)
<1>1. s \in [1 .. Len(s) -> S] /\ Len(s) \in Nat
  BY LenProperties
<1>2. \A i \in m .. n : s[i] \in S
  BY <1>1
<1>3. m \in Int /\ n \in Int
  OBVIOUS
<1>4. QED
  BY <1>2, <1>3, SubSeqProperties

-----------------------------------------------------------------------------
\* The buffer starts empty.
LEMMA InitBuffer == Init => BufferInv
<1> SUFFICES ASSUME Init PROVE BufferInv
  OBVIOUS
<1>1. input = EmptyBuffer /\ wire = <<>> /\ unread = <<>>
  BY DEF Init
<1>2. <<>> \in Seq(Byte)
  OBVIOUS
<1>3. Sound(input) /\ Contents(input) = unread
  BY EmptySound, <1>1
<1>4. QED
  BY <1>1, <1>2, <1>3 DEF BufferInv

\* A client sends.
LEMMA SendBuffer ==
  ASSUME BufferInv, NEW data \in Seq(Byte), wire' = wire \o data,
         UNCHANGED bufferVars
  PROVE  BufferInv'
<1>1. wire' \in Seq(Byte)
  BY ConcatProperties DEF BufferInv
<1>2. input' = input /\ unread' = unread
  BY DEF bufferVars
<1>3. QED
  BY <1>1, <1>2 DEF BufferInv

\* handleRead appends what readv delivers.
LEMMA OnMessageBuffer == BufferInv /\ OnMessage => BufferInv'
<1> SUFFICES ASSUME BufferInv, OnMessage
             PROVE  BufferInv'
  OBVIOUS
<1>1. PICK n \in 1 .. Len(wire) :
        /\ input' = ReadFd(input, SubSeq(wire, 1, n))
        /\ unread' = unread \o SubSeq(wire, 1, n)
        /\ wire' = SubSeq(wire, n + 1, Len(wire))
  BY DEF OnMessage
<1>2. Len(wire) \in Nat
  BY LenProperties DEF BufferInv
<1>3. PICK data : data = SubSeq(wire, 1, n)
  OBVIOUS
<1>4. PICK b : b = input
  OBVIOUS
<1>5. data \in Seq(Byte) /\ wire' \in Seq(Byte)
  BY <1>1, <1>2, <1>3, PartOf DEF BufferInv
<1>6. Sound(ReadFd(b, data)) /\ Contents(ReadFd(b, data)) = Contents(b) \o data
  BY <1>4, <1>5, ReadFdExact DEF BufferInv
<1>7. unread' \in Seq(Byte)
  BY <1>1, <1>3, <1>5, ConcatProperties DEF BufferInv
<1>8. input' = ReadFd(b, data) /\ unread' = Contents(b) \o data
  BY <1>1, <1>3, <1>4 DEF BufferInv
<1>9. QED
  BY <1>5, <1>6, <1>7, <1>8 DEF BufferInv

\* The parser retrieves a line.
LEMMA RetrieveBuffer ==
  ASSUME BufferInv, Lines # {}, RetrieveLine, wire' = wire
  PROVE  BufferInv'
<1>1. LineEnd \in Lines /\ LineEnd \in Nat
  BY LineEndExists
<1>2. PICK n : n = LineEnd
  OBVIOUS
<1>3. PICK b : b = input
  OBVIOUS
<1>4. n \in Nat /\ Sound(b) /\ Contents(b) = unread /\ unread \in Seq(Byte)
  BY <1>1, <1>2, <1>3 DEF BufferInv
<1>5. input' = Retrieve(b, n) /\ unread' = SubSeq(unread, n + 1, Len(unread))
  BY <1>2, <1>3 DEF RetrieveLine, Consumed
<1>6. /\ Sound(Retrieve(b, n))
      /\ Contents(Retrieve(b, n)) = SubSeq(Contents(b), n + 1, Len(Contents(b)))
  BY <1>4, RetrieveExact
<1>7. unread' \in Seq(Byte)
  <2>1. Len(unread) \in Nat /\ n + 1 \in Nat \ {0}
    BY <1>4, LenProperties
  <2>2. QED
    BY <1>4, <1>5, <2>1, PartOf
<1>8. Contents(input') = unread' /\ Sound(input')
  BY <1>4, <1>5, <1>6
<1>9. QED
  BY <1>7, <1>8 DEF BufferInv

\* Every step keeps the buffer's indices sound.
LEMMA BufferStep == BufferInv /\ [Next]_vars => BufferInv'
<1> SUFFICES ASSUME BufferInv, [Next]_vars
             PROVE  BufferInv'
  OBVIOUS
<1>1. CASE UNCHANGED <<wire, bufferVars>>
  BY <1>1 DEF BufferInv, bufferVars
<1>2. CASE UNCHANGED vars
  BY <1>1, <1>2 DEF vars
<1>3. CASE OnMessage
  BY <1>3, OnMessageBuffer
<1>4. CASE ParseRequestLine
  <2>1. wire' = wire /\ Lines # {} /\ (RetrieveLine \/ UNCHANGED bufferVars)
    BY <1>4 DEF ParseRequestLine
  <2>2. QED
    BY <1>1, <2>1, RetrieveBuffer
<1>5. CASE ParseHeader
  BY <1>5, RetrieveBuffer DEF ParseHeader
<1>6. CASE NotEnough
  BY <1>1, <1>6 DEF NotEnough
<1>7. CASE BadRequest
  BY <1>1, <1>7 DEF BadRequest, Answer
<1>8. CASE OnRequest
  BY <1>1, <1>8 DEF OnRequest, Answer
<1>9. ASSUME NEW r \in Requests, SendRequest(r)
      PROVE  BufferInv'
  <2>1. Encode(r) \in Seq(Byte)
    OBVIOUS
  <2>2. wire' = wire \o Encode(r) /\ UNCHANGED bufferVars
    BY <1>9 DEF SendRequest
  <2>3. QED
    BY <2>1, <2>2, SendBuffer
<1>10. ASSUME NEW f \in Fragments, SendFragment(f)
       PROVE  BufferInv'
  <2>1. f \in Seq(Byte)
    OBVIOUS
  <2>2. wire' = wire \o f /\ UNCHANGED bufferVars
    BY <1>10 DEF SendFragment
  <2>3. QED
    BY <2>1, <2>2, SendBuffer
<1>11. QED
  BY <1>2, <1>3, <1>4, <1>5, <1>6, <1>7, <1>8, <1>9, <1>10 DEF Next, Loop

\* The input buffer of a connection is exact: its indices stay in the vector, and
\* what lies between them is what was read and not retrieved, through growth,
\* compaction and reads that spill into extrabuf.
THEOREM BufferAlwaysExact == Spec => []BufferExact
<1>1. BufferInv => BufferExact
  BY DEF BufferInv, BufferExact, Sound
<1>2. QED
  BY InitBuffer, BufferStep, <1>1, PTL DEF Spec

-----------------------------------------------------------------------------
\* The parts of the state that are not about the buffer.
LEMMA TypeStep == TypeOK /\ BufferInv' /\ [Next]_vars => TypeOK'
<1> SUFFICES ASSUME TypeOK, BufferInv', [Next]_vars
             PROVE  TypeOK'
  OBVIOUS
<1>0. wire' \in Seq(Byte) /\ input' \in Buffers /\ unread' \in Seq(Byte)
  BY DEF BufferInv, Sound
<1> USE <1>0 DEF TypeOK, requestVars, bufferVars
<1>1. CASE UNCHANGED vars
  BY <1>1 DEF vars
<1>2. CASE OnMessage
  <2>1. pc' = "parse" /\ NewContext /\ UNCHANGED connected
    BY <1>2 DEF OnMessage
  <2>2. orderly' \in BOOLEAN
    BY <1>2, Zenon DEF OnMessage
  <2>3. QED
    BY <2>1, <2>2 DEF NewContext
<1>3. ASSUME NEW line
      PROVE  Version(line) \in {"Http10", "Http11", "Unknown"}
  BY DEF Version
<1>4. ASSUME NEW line
      PROVE  Connection(line) \in {"", "close", "Keep-Alive"}
  BY DEF Connection
<1>5. CASE ParseRequestLine
  <2>1. version' \in {"Http10", "Http11", "Unknown"}
    BY <1>3, <1>5 DEF ParseRequestLine
  <2>2. part' \in {"RequestLine", "Headers", "End"} /\ pc' \in {"idle", "parse", "bad", "answer"}
    BY <1>5 DEF ParseRequestLine
  <2>3. UNCHANGED <<connection, connected, orderly>>
    BY <1>5 DEF ParseRequestLine
  <2>4. QED
    BY <2>1, <2>2, <2>3
<1>6. CASE ParseHeader
  <2>1. connection' \in {"", "close", "Keep-Alive"}
    BY <1>4, <1>6 DEF ParseHeader
  <2>2. part' \in {"RequestLine", "Headers", "End"} /\ pc' \in {"idle", "parse", "bad", "answer"}
    BY <1>6 DEF ParseHeader
  <2>3. UNCHANGED <<version, connected, orderly>>
    BY <1>6 DEF ParseHeader
  <2>4. QED
    BY <2>1, <2>2, <2>3
<1>7. CASE NotEnough
  BY <1>7 DEF NotEnough
<1>8. ASSUME NEW status, NEW close, Answer(status, close)
      PROVE  TypeOK'
  <2>1. connected' \in BOOLEAN
    BY <1>8, Zenon DEF Answer
  <2>2. pc' = "idle" /\ UNCHANGED <<requestVars, orderly>>
    BY <1>8 DEF Answer
  <2>3. QED
    BY <2>1, <2>2
<1>9. CASE BadRequest
  BY <1>8, <1>9 DEF BadRequest
<1>10. CASE OnRequest
  BY <1>8, <1>10 DEF OnRequest
<1>11. ASSUME NEW r \in Requests, SendRequest(r)
       PROVE  TypeOK'
  <2>1. orderly' \in BOOLEAN
    BY <1>11, Zenon DEF SendRequest
  <2>2. UNCHANGED <<pc, requestVars, connected>>
    BY <1>11 DEF SendRequest
  <2>3. QED
    BY <2>1, <2>2
<1>12. ASSUME NEW f \in Fragments, SendFragment(f)
       PROVE  TypeOK'
  BY <1>12 DEF SendFragment
<1>13. QED
  BY <1>1, <1>2, <1>5, <1>6, <1>7, <1>9, <1>10, <1>11, <1>12 DEF Next, Loop

\* The types of a connection's state and of the request that is parsed.
THEOREM TypeCorrect == Spec => []TypeOK
<1>1. Init => TypeOK
  <2>1. Init => BufferInv
    BY InitBuffer
  <2>2. QED
    BY <2>1 DEF Init, TypeOK, BufferInv, Sound
<1>2. BufferInv /\ TypeOK /\ [Next]_vars => (BufferInv /\ TypeOK)'
  BY BufferStep, TypeStep
<1>3. QED
  BY InitBuffer, <1>1, <1>2, PTL DEF Spec
-----------------------------------------------------------------------------
(* Requests that come alone and whole. *)

\* What is left of a request after its line and k headers.
Rest(r, k) == SubSeq(Encode(r), 2 * k + 3, Len(Encode(r)))

\* The last Connection header of the first k.
LastOf(r, k, h) ==
  \E i \in 1 .. k :
    r.headers[i] = h /\ \A j \in i + 1 .. k : r.headers[j] = "Other:"

\* What the context knows of request r after its line and k headers.
Known(r, k) ==
  /\ version = IF r.line = "GET 1.0" THEN "Http10" ELSE "Http11"
  /\ connection = "close" <=> LastOf(r, k, "Connection: close")
  /\ connection = "Keep-Alive" <=> LastOf(r, k, "Connection: Keep-Alive")

Response == [status: {"400", "found", "NotFound"}, close: BOOLEAN]

Answered == \A n \in 1 .. Len(answers) : AnswerOf(log[n], answers[n])

\* The request that was sent last is on its way, is being parsed, or is answered.
Settled == wire = <<>> /\ unread = <<>> /\ pc = "idle" /\ Len(answers) = Len(log)
Last == log[Len(log)]
Underway ==
  /\ Len(log) = Len(answers) + 1 /\ connected
  /\ \/ pc = "idle" /\ wire = Encode(Last) /\ unread = <<>>
     \/ /\ pc = "parse" /\ part = "RequestLine" /\ wire = <<>> /\ unread = Encode(Last)
        /\ connection = ""
     \/ /\ pc = "parse" /\ part = "Headers" /\ wire = <<>>
        /\ \E k \in 0 .. Len(Last.headers) : unread = Rest(Last, k) /\ Known(Last, k)
     \/ /\ pc = "answer" /\ wire = <<>> /\ unread = <<>>
        /\ Known(Last, Len(Last.headers))

Exchange ==
  /\ log \in Seq(Requests) /\ answers \in Seq(Response)
  /\ Answered
  /\ Settled \/ Underway

OrderlyInv == orderly => Exchange

Joins(d, s, t) ==
  /\ d = s \o t /\ Len(d) = Len(s) + Len(t)
  /\ \A i \in 1 .. Len(s) : d[i] = s[i]
  /\ \A i \in 1 .. Len(t) : d[Len(s) + i] = t[i]

\* Two sequences can be joined.
LEMMA Joined ==
  ASSUME NEW S, NEW s \in Seq(S), NEW t \in Seq(S)
  PROVE  \E d \in Seq(S) : Joins(d, s, t)
<1>1. /\ s \o t \in Seq(S) /\ Len(s \o t) = Len(s) + Len(t)
      /\ \A i \in 1 .. Len(s) : (s \o t)[i] = s[i]
      /\ \A i \in 1 .. Len(t) : (s \o t)[Len(s) + i] = t[i]
  OBVIOUS
<1>2. QED
  BY <1>1 DEF Joins

\* Where the lines of a request are in its bytes.
LEMMA EncodePlaces ==
  ASSUME NEW r \in Requests
  PROVE  /\ r.headers \in Seq(Header) /\ Len(r.headers) \in Nat
         /\ Encode(r) \in Seq(Byte) /\ Len(Encode(r)) = 2 * Len(r.headers) + 3
         /\ Encode(r)[1] = r.line /\ Encode(r)[2] = "crlf"
         /\ \A i \in 1 .. Len(r.headers) :
              Encode(r)[2 * i + 1] = r.headers[i] /\ Encode(r)[2 * i + 2] = "crlf"
         /\ Encode(r)[2 * Len(r.headers) + 3] = "crlf"
<1>1. r.headers \in Seq(Header) /\ Encode(r) \in Seq(Byte)
  BY DEF Request
<1>2. PICK n \in Nat : n = Len(r.headers)
  BY <1>1, LenProperties
<1>3. PICK h : h = r.headers
  OBVIOUS
<1>4. PICK S : S = Header \cup {r.line, "crlf"}
  OBVIOUS
<1>5. PICK a : a = <<r.line, "crlf">>
  OBVIOUS
<1>6. PICK b : b = [i \in 1 .. 2 * n |-> IF i % 2 = 1 THEN h[(i + 1) \div 2] ELSE "crlf"]
  OBVIOUS
<1>7. PICK c : c = <<"crlf">>
  OBVIOUS
<1>8. Encode(r) = (a \o b) \o c
  BY <1>2, <1>3, <1>5, <1>6, <1>7 DEF Encode
<1>9. \A i \in 1 .. n : h[i] \in Header
  BY <1>1, <1>2, <1>3
<1>10. a \in Seq(S) /\ Len(a) = 2 /\ a[1] = r.line /\ a[2] = "crlf"
  BY <1>4, <1>5
<1>11. c \in Seq(S) /\ Len(c) = 1 /\ c[1] = "crlf"
  BY <1>4, <1>7
<1>12. b \in Seq(S) /\ Len(b) = 2 * n
  <2>1. ASSUME NEW i \in 1 .. 2 * n
        PROVE  (IF i % 2 = 1 THEN h[(i + 1) \div 2] ELSE "crlf") \in S
    <3>1. CASE i % 2 = 1
      <4>1. (i + 1) \div 2 \in 1 .. n
        BY <3>1
      <4>2. QED
        BY <1>4, <1>9, <3>1, <4>1
    <3>2. CASE i % 2 # 1
      BY <1>4, <3>2
    <3>3. QED
      BY <3>1, <3>2
  <2>2. b \in [1 .. 2 * n -> S]
    BY <1>6, <2>1
  <2>3. 2 * n \in Nat
    OBVIOUS
  <2>4. QED
    BY <2>2, <2>3, IsSequence
<1>13. \A i \in 1 .. n : b[2 * i - 1] = h[i] /\ b[2 * i] = "crlf"
  <2>1. ASSUME NEW i \in 1 .. n
        PROVE  b[2 * i - 1] = h[i] /\ b[2 * i] = "crlf"
    <3>1. /\ 2 * i - 1 \in 1 .. 2 * n /\ (2 * i - 1) % 2 = 1
          /\ ((2 * i - 1) + 1) \div 2 = i
      OBVIOUS
    <3>2. 2 * i \in 1 .. 2 * n /\ (2 * i) % 2 = 0
      OBVIOUS
    <3>3. QED
      BY <1>6, <3>1, <3>2
  <2>2. QED
    BY <2>1
<1>14. PICK d \in Seq(S) : Joins(d, a, b)
  BY <1>10, <1>12, Joined
<1>15. /\ Len(d) = 2 * n + 2 /\ d[1] = r.line /\ d[2] = "crlf"
       /\ \A i \in 1 .. 2 * n : d[2 + i] = b[i]
  BY <1>10, <1>12, <1>14 DEF Joins
<1>16. PICK e \in Seq(S) : Joins(e, d, c)
  BY <1>11, Joined
<1>17. /\ Len(e) = 2 * n + 3 /\ e[2 * n + 3] = "crlf"
       /\ \A i \in 1 .. 2 * n + 2 : e[i] = d[i]
  <2>1. 1 \in 1 .. Len(c) /\ Len(d) + 1 = 2 * n + 3
    BY <1>11, <1>15
  <2>2. QED
    BY <1>11, <1>15, <1>16, <2>1 DEF Joins
<1>18. \A i \in 1 .. n : e[2 * i + 1] = h[i] /\ e[2 * i + 2] = "crlf"
  <2>1. ASSUME NEW i \in 1 .. n
        PROVE  e[2 * i + 1] = h[i] /\ e[2 * i + 2] = "crlf"
    <3>1. /\ 2 * i + 1 = 2 + (2 * i - 1) /\ 2 * i - 1 \in 1 .. 2 * n
          /\ 2 * i + 1 \in 1 .. 2 * n + 2
      OBVIOUS
    <3>2. 2 * i + 2 = 2 + 2 * i /\ 2 * i \in 1 .. 2 * n /\ 2 * i + 2 \in 1 .. 2 * n + 2
      OBVIOUS
    <3>3. e[2 * i + 1] = b[2 * i - 1]
      BY <1>15, <1>17, <3>1
    <3>4. e[2 * i + 2] = b[2 * i]
      BY <1>15, <1>17, <3>2
    <3>5. QED
      BY <1>13, <3>3, <3>4
  <2>2. QED
    BY <2>1
<1>19. e[1] = r.line /\ e[2] = "crlf"
  BY <1>15, <1>17
<1>20. Encode(r) = e
  BY <1>8, <1>14, <1>16 DEF Joins
<1>21. QED
  BY <1>1, <1>2, <1>3, <1>17, <1>18, <1>19, <1>20

\* The next line of a request, and what is left behind it.
LEMMA RestPlaces ==
  ASSUME NEW r \in Requests, NEW k \in 0 .. Len(r.headers)
  PROVE  /\ Rest(r, k) \in Seq(Byte)
         /\ Len(Rest(r, k)) = 2 * (Len(r.headers) - k) + 1
         /\ k < Len(r.headers) =>
              /\ Rest(r, k)[1] = r.headers[k + 1] /\ Rest(r, k)[2] = "crlf"
              /\ SubSeq(Rest(r, k), 3, Len(Rest(r, k))) = Rest(r, k + 1)
         /\ k = Len(r.headers) => Rest(r, k) = <<"crlf">>
<1>1. PICK n \in Nat : n = Len(r.headers)
  BY EncodePlaces
<1>2. PICK e \in Seq(Byte) : e = Encode(r)
  BY EncodePlaces
<1>3. /\ Len(e) = 2 * n + 3 /\ e[2 * n + 3] = "crlf"
      /\ \A i \in 1 .. n : e[2 * i + 1] = r.headers[i] /\ e[2 * i + 2] = "crlf"
  BY <1>1, <1>2, EncodePlaces
<1>4. k \in Nat /\ k <= n
  BY <1>1
<1>5. \A j \in Nat : j <= n =>
        /\ Rest(r, j) \in Seq(Byte) /\ Len(Rest(r, j)) = 2 * (n - j) + 1
        /\ \A i \in 1 .. 2 * (n - j) + 1 : Rest(r, j)[i] = e[2 * j + 2 + i]
  <2>1. ASSUME NEW j \in Nat, j <= n
        PROVE  /\ Rest(r, j) \in Seq(Byte) /\ Len(Rest(r, j)) = 2 * (n - j) + 1
               /\ \A i \in 1 .. 2 * (n - j) + 1 : Rest(r, j)[i] = e[2 * j + 2 + i]
    <3>1. PICK m \in Int, p \in Int : m = 2 * j + 3 /\ p = 2 * n + 3
      OBVIOUS
    <3>2. Rest(r, j) = SubSeq(e, m, p)
      BY <1>2, <1>3, <3>1 DEF Rest
    <3>3. e \in [1 .. p -> Byte] /\ 1 <= m /\ m <= p + 1
      BY <1>3, <2>1, <3>1, LenProperties
    <3>4. \A i \in m .. p : e[i] \in Byte
      BY <3>3
    <3>5. /\ SubSeq(e, m, p) \in Seq(Byte)
          /\ Len(SubSeq(e, m, p)) = IF m <= p THEN p - m + 1 ELSE 0
          /\ \A i \in 1 .. p - m + 1 : SubSeq(e, m, p)[i] = e[m + i - 1]
      BY <3>4, SubSeqProperties
    <3>6. p - m + 1 = 2 * (n - j) + 1 /\ m <= p
      BY <2>1, <3>1
    <3>7. \A i \in 1 .. p - m + 1 : m + i - 1 = 2 * j + 2 + i
      BY <3>1
    <3>8. QED
      BY <3>2, <3>5, <3>6, <3>7
  <2>2. QED
    BY <2>1
<1>6. PICK u \in Seq(Byte) : u = Rest(r, k)
  BY <1>4, <1>5
<1>7. /\ Len(u) = 2 * (n - k) + 1
      /\ \A i \in 1 .. 2 * (n - k) + 1 : u[i] = e[2 * k + 2 + i]
  BY <1>4, <1>5, <1>6
<1>8. CASE k < n
  <2>1. u[1] = e[2 * (k + 1) + 1] /\ u[2] = e[2 * (k + 1) + 2]
    <3>1. /\ 1 \in 1 .. 2 * (n - k) + 1 /\ 2 \in 1 .. 2 * (n - k) + 1
          /\ 2 * k + 2 + 1 = 2 * (k + 1) + 1 /\ 2 * k + 2 + 2 = 2 * (k + 1) + 2
      BY <1>4, <1>8
    <3>2. QED
      BY <1>7, <3>1
  <2>2. k + 1 \in 1 .. n
    BY <1>4, <1>8
  <2>3. u[1] = r.headers[k + 1] /\ u[2] = "crlf"
    BY <1>3, <2>1, <2>2
  <2>4. PICK v \in Seq(Byte) : v = Rest(r, k + 1)
    BY <1>5, <2>2
  <2>5. /\ Len(v) = 2 * (n - k) - 1
        /\ \A i \in 1 .. 2 * (n - k) - 1 : v[i] = e[2 * k + 4 + i]
    <3>1. /\ Len(v) = 2 * (n - (k + 1)) + 1
          /\ \A i \in 1 .. 2 * (n - (k + 1)) + 1 : v[i] = e[2 * (k + 1) + 2 + i]
      <4>1. k + 1 \in Nat /\ k + 1 <= n
        BY <1>4, <1>8
      <4>2. QED
        BY <1>5, <2>4, <4>1
    <3>2. 2 * (n - (k + 1)) + 1 = 2 * (n - k) - 1 /\ 2 * (k + 1) + 2 = 2 * k + 4
      OBVIOUS
    <3>3. QED
      BY <3>1, <3>2
  <2>6. PICK w : w = SubSeq(u, 3, Len(u))
    OBVIOUS
  <2>7. /\ w \in Seq(Byte) /\ Len(w) = 2 * (n - k) - 1
        /\ \A i \in 1 .. 2 * (n - k) - 1 : w[i] = u[i + 2]
    <3>1. PICK p \in Nat : p = Len(u) /\ p = 2 * (n - k) + 1 /\ 3 <= p
      BY <1>4, <1>7, <1>8
    <3>2. \A i \in 3 .. p : u[i] \in Byte
      <4>1. u \in [1 .. p -> Byte]
        BY <3>1, LenProperties
      <4>2. QED
        BY <4>1
    <3>3. /\ SubSeq(u, 3, p) \in Seq(Byte)
          /\ Len(SubSeq(u, 3, p)) = IF 3 <= p THEN p - 3 + 1 ELSE 0
          /\ \A i \in 1 .. p - 3 + 1 : SubSeq(u, 3, p)[i] = u[3 + i - 1]
      BY <3>2, SubSeqProperties
    <3>4. p - 3 + 1 = 2 * (n - k) - 1 /\ \A i \in 1 .. p - 3 + 1 : 3 + i - 1 = i + 2
      BY <3>1
    <3>5. QED
      BY <2>6, <3>1, <3>3, <3>4
  <2>8. ASSUME NEW i \in 1 .. 2 * (n - k) - 1
        PROVE  w[i] = v[i]
    <3>1. i + 2 \in 1 .. 2 * (n - k) + 1 /\ 2 * k + 2 + (i + 2) = 2 * k + 4 + i
      BY <1>4, <1>8
    <3>2. u[i + 2] = e[2 * k + 4 + i]
      BY <1>7, <3>1
    <3>3. QED
      BY <2>5, <2>7, <3>2
  <2>9. w = v
    BY <2>5, <2>7, <2>8, SeqEqual
  <2>10. QED
    BY <1>1, <1>6, <1>7, <1>8, <2>3, <2>4, <2>6, <2>9
<1>9. CASE k = n
  <2>1. Len(u) = 1 /\ u[1] = e[2 * n + 3]
    BY <1>7, <1>9
  <2>2. u = <<"crlf">>
    BY <1>3, <2>1, SeqEqual
  <2>3. QED
    BY <1>1, <1>6, <1>7, <1>9, <2>2
<1>10. QED
  BY <1>4, <1>8, <1>9

\* findCRLF on what is unread, when the first line is empty or one text.
LEMMA FirstLine ==
  ASSUME BufferInv, Len(unread) \in Nat
  PROVE  /\ Len(unread) >= 1 /\ unread[1] = "crlf" =>
              Lines # {} /\ LineEnd = 1 /\ Line = <<>>
         /\ Len(unread) >= 2 /\ unread[1] # "crlf" /\ unread[2] = "crlf" =>
              Lines # {} /\ LineEnd = 2 /\ Line = <<unread[1]>>
<1>1. PICK u \in Seq(Byte) : u = unread /\ u = Contents(input) /\ Len(u) \in Nat
  BY DEF BufferInv
<1>2. /\ Lines = {n \in 1 .. Len(u) : u[n] = "crlf"}
      /\ Line = SubSeq(u, 1, LineEnd - 1)
  BY <1>1 DEF Lines, Line
<1>3. ASSUME Lines # {}
      PROVE  LineEnd \in Lines /\ \A m \in Lines : LineEnd <= m
  <2>1. Lines \subseteq Nat
    BY <1>2
  <2>2. \E n \in Lines : \A m \in Lines : n <= m
    BY <1>3, <2>1, LeastExists
  <2>3. QED
    BY <2>2 DEF LineEnd
<1>4. ASSUME Len(u) >= 1, u[1] = "crlf"
      PROVE  Lines # {} /\ LineEnd = 1 /\ Line = <<>>
  <2>1. 1 \in Lines
    BY <1>1, <1>2, <1>4
  <2>2. LineEnd \in 1 .. Len(u) /\ LineEnd <= 1
    BY <1>2, <1>3, <2>1
  <2>3. LineEnd = 1
    BY <1>1, <2>2
  <2>4. SubSeq(u, 1, 0) = <<>>
    OBVIOUS
  <2>5. QED
    BY <1>2, <2>1, <2>3, <2>4
<1>5. ASSUME Len(u) >= 2, u[1] # "crlf", u[2] = "crlf"
      PROVE  Lines # {} /\ LineEnd = 2 /\ Line = <<u[1]>>
  <2>1. 2 \in Lines /\ 1 \notin Lines
    BY <1>1, <1>2, <1>5
  <2>2. LineEnd \in 1 .. Len(u) /\ LineEnd <= 2 /\ LineEnd # 1
    BY <1>2, <1>3, <2>1
  <2>3. LineEnd = 2
    BY <1>1, <2>2
  <2>4. SubSeq(u, 1, 1) = <<u[1]>>
    <3>1. /\ SubSeq(u, 1, 1) \in Seq(Byte) /\ Len(SubSeq(u, 1, 1)) = 1
          /\ SubSeq(u, 1, 1)[1] = u[1]
      BY <1>1, <1>5
    <3>2. PICK w \in Seq(Byte), x \in Byte : w = SubSeq(u, 1, 1) /\ x = u[1]
      <4>1. u \in [1 .. Len(u) -> Byte] /\ 1 \in 1 .. Len(u)
        BY <1>1, <1>5, LenProperties
      <4>2. u[1] \in Byte
        BY <4>1
      <4>3. QED
        BY <3>1, <4>2
    <3>3. Len(w) = 1 /\ w[1] = x
      BY <3>1, <3>2
    <3>4. w = <<x>>
      BY <3>3, SeqEqual
    <3>5. QED
      BY <3>2, <3>4
  <2>5. QED
    BY <1>2, <2>1, <2>3, <2>4
<1>6. QED
  BY <1>1, <1>4, <1>5

\* One more header is read.
LEMMA LastStep ==
  ASSUME NEW r \in Requests, NEW k \in Nat, NEW x, x # "Other:"
  PROVE  LastOf(r, k + 1, x) <=>
           r.headers[k + 1] = x \/ (r.headers[k + 1] = "Other:" /\ LastOf(r, k, x))
<1>1. PICK h : h = r.headers
  OBVIOUS
<1>2. ASSUME NEW i \in 1 .. k + 1, h[i] = x, \A j \in i + 1 .. k + 1 : h[j] = "Other:"
      PROVE  h[k + 1] = x \/ (h[k + 1] = "Other:" /\ LastOf(r, k, x))
  <2>1. CASE i = k + 1
    BY <1>2, <2>1
  <2>2. CASE i # k + 1
    <3>1. i \in 1 .. k /\ k + 1 \in i + 1 .. k + 1
      BY <2>2
    <3>2. \A j \in i + 1 .. k : j \in i + 1 .. k + 1
      OBVIOUS
    <3>3. QED
      BY <1>1, <1>2, <3>1, <3>2 DEF LastOf
  <2>3. QED
    BY <2>1, <2>2
<1>3. ASSUME h[k + 1] = x
      PROVE  LastOf(r, k + 1, x)
  <2>1. k + 1 \in 1 .. k + 1 /\ \A j \in (k + 1) + 1 .. k + 1 : FALSE
    OBVIOUS
  <2>2. QED
    BY <1>1, <1>3, <2>1 DEF LastOf
<1>4. ASSUME h[k + 1] = "Other:", NEW i \in 1 .. k, h[i] = x,
             \A j \in i + 1 .. k : h[j] = "Other:"
      PROVE  LastOf(r, k + 1, x)
  <2>1. i \in 1 .. k + 1
    OBVIOUS
  <2>2. \A j \in i + 1 .. k + 1 : j = k + 1 \/ j \in i + 1 .. k
    OBVIOUS
  <2>3. QED
    BY <1>1, <1>4, <2>1, <2>2 DEF LastOf
<1>5. QED
  BY <1>1, <1>2, <1>3, <1>4 DEF LastOf

\* One more header read leaves the last Connection header known.
LEMMA HeaderRead ==
  ASSUME NEW r \in Requests, NEW k \in Nat, k < Len(r.headers), Known(r, k),
         connection' = Connection(<<r.headers[k + 1]>>), version' = version
  PROVE  Known(r, k + 1)'
<1>1. PICK h \in Header : h = r.headers[k + 1]
  <2>1. k + 1 \in 1 .. Len(r.headers)
    BY EncodePlaces
  <2>2. QED
    BY <2>1, EncodePlaces
<1>2. \A x : <<h>> = <<x>> <=> h = x
  OBVIOUS
<1>3. connection' = IF h = "Connection: close" THEN "close"
                    ELSE IF h = "Connection: Keep-Alive" THEN "Keep-Alive"
                    ELSE connection
  BY <1>1, <1>2 DEF Connection
<1>4. /\ LastOf(r, k + 1, "Connection: close") <=>
           h = "Connection: close" \/ (h = "Other:" /\ LastOf(r, k, "Connection: close"))
      /\ LastOf(r, k + 1, "Connection: Keep-Alive") <=>
           h = "Connection: Keep-Alive" \/ (h = "Other:" /\ LastOf(r, k, "Connection: Keep-Alive"))
  BY <1>1, LastStep
<1>5. h \in {"Connection: close", "Connection: Keep-Alive", "Other:"}
  BY DEF Header
<1>6. QED
  BY <1>3, <1>4, <1>5 DEF Known

\* The server answers the request that it has read.
LEMMA AnswerStep ==
  ASSUME Exchange, pc = "answer", Underway, OnRequest
  PROVE  Exchange'
<1>1. /\ Known(Last, Len(Last.headers)) /\ wire = <<>> /\ unread = <<>> /\ connected
      /\ Len(log) = Len(answers) + 1
  BY DEF Underway
<1>2. PICK n \in Nat : n = Len(answers) /\ Len(log) = n + 1
  BY <1>1, LenProperties DEF Exchange
<1>3. PICK r \in Requests : r = Last /\ r = log[n + 1]
  <2>1. log \in [1 .. Len(log) -> Requests]
    BY LenProperties DEF Exchange
  <2>2. QED
    BY <1>2, <2>1 DEF Last
<1>4. PICK a \in Response : /\ answers' = Append(answers, a)
                            /\ AnswerOf(r, a)
  <2>1. CASE Answer("NotFound", TRUE)
    <3>1. PICK a : a = [status |-> "NotFound", close |-> TRUE]
      OBVIOUS
    <3>2. answers' = Append(answers, a) /\ a \in Response /\ AnswerOf(r, a)
      BY <1>1, <2>1, <3>1 DEF Answer, Response, AnswerOf
    <3>3. QED
      BY <3>2
  <2>2. CASE Answer("found", Close(version, connection))
    <3>1. PICK c \in BOOLEAN : c = Close(version, connection)
      BY DEF Close
    <3>2. PICK a : a = [status |-> "found", close |-> c]
      OBVIOUS
    <3>3. answers' = Append(answers, a) /\ a \in Response
      BY <1>1, <2>2, <3>1, <3>2 DEF Answer, Response
    <3>4. r.line \in {"GET 1.0", "GET 1.1"}
      BY DEF Request
    <3>5. /\ LastIs(r, "Connection: close") <=> connection = "close"
          /\ LastIs(r, "Connection: Keep-Alive") <=> connection = "Keep-Alive"
          /\ version = IF r.line = "GET 1.0" THEN "Http10" ELSE "Http11"
      BY <1>1, <1>3 DEF Known, LastIs, LastOf
    <3>6. c <=> IF r.line = "GET 1.1" THEN LastIs(r, "Connection: close")
                ELSE ~LastIs(r, "Connection: Keep-Alive")
      BY <3>1, <3>4, <3>5 DEF Close
    <3>7. a.status = "found" /\ a.close = c
      BY <3>2
    <3>8. AnswerOf(r, a)
      BY <3>6, <3>7 DEF AnswerOf
    <3>9. QED
      BY <3>3, <3>8
  <2>3. QED
    BY <2>1, <2>2 DEF OnRequest
<1>5. UNCHANGED <<wire, unread, log>> /\ pc' = "idle"
  BY DEF OnRequest, Answer, bufferVars
<1>6. /\ Append(answers, a) \in Seq(Response) /\ Len(Append(answers, a)) = n + 1
      /\ Append(answers, a)[n + 1] = a
      /\ \A i \in 1 .. n : Append(answers, a)[i] = answers[i]
  BY <1>2, AppendProperties DEF Exchange
<1>7. ASSUME NEW i \in 1 .. n + 1
      PROVE  AnswerOf(log[i], answers'[i])
  <2>1. CASE i = n + 1
    BY <1>3, <1>4, <1>6, <2>1
  <2>2. CASE i # n + 1
    <3>1. i \in 1 .. n
      BY <2>2
    <3>2. QED
      BY <1>2, <1>4, <1>6, <3>1 DEF Exchange, Answered
  <2>3. QED
    BY <2>1, <2>2
<1>8. Answered'
  BY <1>4, <1>5, <1>6, <1>7 DEF Answered
<1>9. Settled'
  BY <1>1, <1>2, <1>4, <1>5, <1>6 DEF Settled
<1>10. QED
  BY <1>4, <1>5, <1>6, <1>8, <1>9 DEF Exchange

\* A client sends a request when the one before has been answered.
LEMMA RequestStep ==
  ASSUME Exchange, NEW r \in Requests, SendRequest(r), Quiet
  PROVE  Exchange'
<1>1. wire = <<>> /\ unread = <<>> /\ pc = "idle" /\ connected
  BY DEF Quiet
<1>2. /\ wire' = wire \o Encode(r) /\ log' = Append(log, r)
      /\ UNCHANGED <<unread, pc, connected, answers>>
  BY DEF SendRequest, bufferVars
<1>3. Settled
  <2>1. log \in [1 .. Len(log) -> Requests] /\ Len(log) \in Nat /\ Len(answers) \in Nat
    BY LenProperties DEF Exchange
  <2>2. ~Underway
    <3>1. SUFFICES ASSUME Underway
                   PROVE  FALSE
      OBVIOUS
    <3>2. Len(log) = Len(answers) + 1 /\ Encode(Last) = <<>>
      BY <1>1, <3>1 DEF Underway
    <3>3. Last \in Requests
      BY <2>1, <3>2 DEF Last
    <3>4. PICK m \in Nat : Len(Encode(Last)) = 2 * m + 3
      BY <3>3, EncodePlaces
    <3>5. Len(Encode(Last)) = 0
      BY <3>2
    <3>6. QED
      BY <3>4, <3>5
  <2>3. QED
    BY <2>2 DEF Exchange
<1>4. PICK n \in Nat : n = Len(log) /\ n = Len(answers)
  BY <1>3, LenProperties DEF Exchange, Settled
<1>5. /\ log' \in Seq(Requests) /\ Len(log') = n + 1 /\ log'[n + 1] = r
      /\ \A i \in 1 .. n : log'[i] = log[i]
  <2>1. PICK l \in Seq(Requests) : l = log
    BY DEF Exchange
  <2>2. /\ Append(l, r) \in Seq(Requests) /\ Len(Append(l, r)) = Len(l) + 1
        /\ Append(l, r)[Len(l) + 1] = r
        /\ \A i \in 1 .. Len(l) : Append(l, r)[i] = l[i]
    BY AppendProperties
  <2>3. QED
    BY <1>2, <1>4, <2>1, <2>2
<1>6. Answered'
  BY <1>2, <1>4, <1>5 DEF Exchange, Answered
<1>7. wire' = Encode(r)
  <2>1. PICK e \in Seq(Byte) : e = Encode(r)
    BY EncodePlaces
  <2>2. <<>> \o e = e
    BY ConcatEmptySeq
  <2>3. QED
    BY <1>1, <1>2, <2>1, <2>2
<1>8. Last' = r
  BY <1>5 DEF Last
<1>9. Underway'
  BY <1>1, <1>2, <1>4, <1>5, <1>7, <1>8 DEF Underway
<1>10. QED
  BY <1>2, <1>5, <1>6, <1>9 DEF Exchange

\* The connection reads the request whole.
LEMMA WholeStep ==
  ASSUME BufferInv, Exchange, OnMessage, orderly'
  PROVE  Exchange'
<1>1. PICK n \in 1 .. Len(wire) :
        /\ unread' = unread \o SubSeq(wire, 1, n)
        /\ wire' = SubSeq(wire, n + 1, Len(wire))
        /\ n = Len(wire)
  BY DEF OnMessage
<1>2. pc = "idle" /\ pc' = "parse" /\ NewContext /\ UNCHANGED <<connected, answers, log>>
  BY DEF OnMessage
<1>3. wire # <<>>
  BY <1>1
<1>4. Underway /\ wire = Encode(Last) /\ unread = <<>>
  BY <1>2, <1>3 DEF Exchange, Settled, Underway
<1>5. PICK w \in Seq(Byte) : w = wire /\ n = Len(w)
  BY <1>1 DEF BufferInv
<1>6. wire' = <<>>
  <2>1. n \in Nat
    BY <1>5, LenProperties
  <2>2. SubSeq(w, n + 1, n) = <<>>
    <3>1. n + 1 > n
      BY <2>1
    <3>2. \A i \in n + 1 .. n : w[i] \in Byte
      BY <2>1
    <3>3. SubSeq(w, n + 1, n) \in Seq(Byte) /\ Len(SubSeq(w, n + 1, n)) = 0
      BY <2>1, <3>1, <3>2, SubSeqProperties
    <3>4. QED
      BY <3>3
  <2>3. QED
    BY <1>1, <1>5, <2>2
<1>7. unread' = w
  <2>1. SubSeq(w, 1, n) = w
    BY <1>5, SubSeqFull
  <2>2. <<>> \o w = w
    BY ConcatEmptySeq
  <2>3. QED
    BY <1>1, <1>4, <1>5, <2>1, <2>2
<1>8. Last' = Last
  BY <1>2 DEF Last
<1>9. Underway'
  BY <1>2, <1>4, <1>5, <1>6, <1>7, <1>8 DEF Underway, NewContext
<1>10. Answered'
  BY <1>2 DEF Exchange, Answered
<1>11. QED
  BY <1>2, <1>9, <1>10 DEF Exchange

\* The exchange under way has a request.
LEMMA LastRequest ==
  ASSUME Exchange, Underway
  PROVE  Last \in Requests
<1>1. log \in [1 .. Len(log) -> Requests] /\ Len(answers) \in Nat
  BY LenProperties DEF Exchange
<1>2. PICK n \in Nat : n = Len(answers) /\ Len(log) = n + 1
  BY <1>1 DEF Underway
<1>3. Len(log) \in 1 .. Len(log)
  BY <1>2
<1>4. QED
  BY <1>1, <1>3 DEF Last

\* The request line is read, and is right.
LEMMA RequestLineStep ==
  ASSUME BufferInv, Exchange, ParseRequestLine
  PROVE  Exchange'
<1>1. pc = "parse" /\ part = "RequestLine" /\ version' = Version(Line)
      /\ UNCHANGED <<wire, connection, connected, answers, log>>
  BY DEF ParseRequestLine
<1>2. Underway /\ wire = <<>> /\ unread = Encode(Last) /\ connection = ""
  BY <1>1 DEF Exchange, Settled, Underway
<1>3. PICK r \in Requests : r = Last
  BY <1>2, LastRequest
<1>4. PICK e \in Seq(Byte) : e = Encode(r)
  BY EncodePlaces
<1>5. PICK n \in Nat : n = Len(r.headers) /\ Len(e) = 2 * n + 3
  BY <1>4, EncodePlaces
<1>6. e[1] = r.line /\ e[2] = "crlf" /\ r.line \in {"GET 1.0", "GET 1.1"}
  BY <1>4, EncodePlaces DEF Request
<1>7. LineEnd = 2 /\ Line = <<r.line>>
  <2>1. unread = e
    BY <1>2, <1>3, <1>4
  <2>2. Len(unread) \in Nat /\ Len(unread) >= 2
    BY <1>5, <2>1
  <2>3. unread[1] = r.line /\ unread[1] # "crlf" /\ unread[2] = "crlf"
    BY <1>6, <2>1
  <2>4. QED
    BY <2>2, <2>3, FirstLine
<1>8. version' = IF r.line = "GET 1.0" THEN "Http10" ELSE "Http11"
  <2>1. \A x, y : <<x>> = <<y>> <=> x = y
    OBVIOUS
  <2>2. QED
    BY <1>1, <1>6, <1>7, <2>1 DEF Version
<1>9. part' = "Headers" /\ RetrieveLine /\ UNCHANGED pc
  BY <1>8 DEF ParseRequestLine
<1>10. unread' = Rest(r, 0)
  <2>1. unread' = SubSeq(unread, LineEnd + 1, Len(unread))
    BY <1>9 DEF RetrieveLine, Consumed
  <2>2. unread = Encode(r)
    BY <1>2, <1>3
  <2>3. LineEnd + 1 = 3 /\ 2 * 0 + 3 = 3
    BY <1>7
  <2>4. Rest(r, 0) = SubSeq(Encode(r), 3, Len(Encode(r)))
    BY <2>3 DEF Rest
  <2>5. QED
    BY <2>1, <2>2, <2>3, <2>4
<1>11. Known(r, 0)'
  <2>1. \A x : ~LastOf(r, 0, x)
    BY DEF LastOf
  <2>2. connection' = ""
    BY <1>1, <1>2
  <2>3. QED
    BY <1>8, <2>1, <2>2 DEF Known
<1>12. Last' = r /\ 0 \in 0 .. Len(r.headers)
  BY <1>1, <1>3, <1>5 DEF Last
<1>13. Underway'
  BY <1>1, <1>2, <1>9, <1>10, <1>11, <1>12 DEF Underway
<1>14. QED
  BY <1>1, <1>13 DEF Exchange, Answered

\* A header is read, or the empty line behind them.
LEMMA HeaderStep ==
  ASSUME BufferInv, Exchange, ParseHeader
  PROVE  Exchange'
<1>1. /\ pc = "parse" /\ part = "Headers" /\ RetrieveLine
      /\ UNCHANGED <<wire, version, connected, answers, log>>
  BY DEF ParseHeader
<1>2. Underway /\ wire = <<>>
  BY <1>1 DEF Exchange, Settled, Underway
<1>3. PICK r \in Requests : r = Last
  BY <1>2, LastRequest
<1>4. PICK k \in 0 .. Len(r.headers) : unread = Rest(r, k) /\ Known(r, k)
  BY <1>1, <1>3 DEF Exchange, Settled, Underway
<1>5. PICK n \in Nat : n = Len(r.headers)
  BY EncodePlaces
<1>6. PICK u \in Seq(Byte) : u = Rest(r, k)
  BY RestPlaces
<1>7. Last' = r /\ k \in 0 .. n
  BY <1>1, <1>3, <1>4, <1>5 DEF Last
<1>8. unread' = SubSeq(unread, LineEnd + 1, Len(unread))
  BY <1>1 DEF RetrieveLine, Consumed
<1>9. CASE k < n
  <2>1. /\ Len(u) = 2 * (n - k) + 1 /\ u[1] = r.headers[k + 1] /\ u[2] = "crlf"
        /\ SubSeq(u, 3, Len(u)) = Rest(r, k + 1)
    BY <1>5, <1>6, <1>9, RestPlaces
  <2>2. PICK h \in Header : h = r.headers[k + 1]
    <3>1. k + 1 \in 1 .. n
      BY <1>7, <1>9
    <3>2. r.headers \in [1 .. n -> Header]
      BY <1>5, EncodePlaces, LenProperties
    <3>3. QED
      BY <3>1, <3>2
  <2>3. h # "crlf"
    BY DEF Header
  <2>4. LineEnd = 2 /\ Line = <<h>>
    <3>1. unread = u
      BY <1>4, <1>6
    <3>2. Len(u) \in Nat /\ Len(u) >= 2
      BY <1>7, <1>9, <2>1
    <3>3. unread[1] = h /\ unread[1] # "crlf" /\ unread[2] = "crlf"
      BY <2>1, <2>2, <2>3, <3>1
    <3>4. QED
      BY <3>1, <3>2, <3>3, FirstLine
  <2>5. HasColon(Line)
    BY <2>4 DEF HasColon
  <2>6. connection' = Connection(<<r.headers[k + 1]>>) /\ UNCHANGED <<part, pc>>
    BY <2>2, <2>4, <2>5 DEF ParseHeader
  <2>7. unread' = Rest(r, k + 1)
    BY <1>4, <1>6, <1>8, <2>1, <2>4
  <2>8. Known(r, k + 1)' /\ k + 1 \in 0 .. n
    <3>1. k \in Nat /\ k < Len(r.headers)
      BY <1>5, <1>7, <1>9
    <3>2. k + 1 \in 0 .. n
      BY <1>7, <1>9
    <3>3. QED
      BY <1>1, <1>4, <2>6, <3>1, <3>2, HeaderRead
  <2>9. \E j \in 0 .. Len(r.headers) : unread' = Rest(r, j) /\ Known(r, j)'
    BY <1>5, <2>7, <2>8
  <2>10. Underway'
    BY <1>1, <1>2, <1>7, <2>6, <2>9 DEF Underway
  <2>11. QED
    BY <1>1, <2>10 DEF Exchange, Answered
<1>10. CASE k = n
  <2>1. u = <<"crlf">>
    BY <1>5, <1>6, <1>10, RestPlaces
  <2>2. LineEnd = 1 /\ Line = <<>>
    <3>1. unread = <<"crlf">>
      BY <1>4, <1>6, <2>1
    <3>2. Len(unread) = 1 /\ unread[1] = "crlf"
      BY <3>1
    <3>3. QED
      BY <3>2, FirstLine
  <2>3. ~HasColon(Line)
    BY <2>2 DEF HasColon
  <2>4. part' = "End" /\ pc' = "answer" /\ UNCHANGED connection
    BY <2>3 DEF ParseHeader
  <2>5. unread' = <<>>
    <3>1. unread = <<"crlf">> /\ Len(unread) = 1
      BY <1>4, <1>6, <2>1
    <3>2. SubSeq(unread, 2, 1) = <<>>
      BY SubSeqEmpty
    <3>3. QED
      BY <1>8, <2>2, <3>1, <3>2
  <2>6. Known(r, Len(r.headers))'
    BY <1>1, <1>4, <1>5, <1>10, <2>4 DEF Known, LastOf
  <2>7. Underway'
    BY <1>1, <1>2, <1>7, <2>4, <2>5, <2>6 DEF Underway
  <2>8. QED
    BY <1>1, <2>7 DEF Exchange, Answered
<1>11. QED
  BY <1>7, <1>9, <1>10

\* Something is left of a request until its last line was read.
LEMMA NeverStarved ==
  ASSUME BufferInv, Exchange, pc = "parse", Lines = {}
  PROVE  FALSE
<1>1. Underway
  BY DEF Exchange, Settled
<1>2. PICK r \in Requests : r = Last
  BY <1>1, LastRequest
<1>3. PICK u \in Seq(Byte) : u = unread
  BY DEF BufferInv
<1>4. Lines = {i \in 1 .. Len(u) : u[i] = "crlf"}
  BY <1>3 DEF Lines, BufferInv
<1>5. CASE unread = Encode(r)
  <2>1. PICK n \in Nat : Len(u) = 2 * n + 3
    BY <1>3, <1>5, EncodePlaces
  <2>2. u[2] = "crlf"
    BY <1>3, <1>5, EncodePlaces
  <2>3. 2 \in Lines
    BY <1>4, <2>1, <2>2
  <2>4. QED
    BY <2>3
<1>6. ASSUME NEW k \in 0 .. Len(r.headers), unread = Rest(r, k)
      PROVE  FALSE
  <2>1. PICK n \in Nat : n = Len(r.headers)
    BY EncodePlaces
  <2>2. k \in 0 .. n /\ Len(u) = 2 * (n - k) + 1
    BY <1>3, <1>6, <2>1, RestPlaces
  <2>3. CASE k < n
    <3>1. u[2] = "crlf"
      BY <1>3, <1>6, <2>1, <2>3, RestPlaces
    <3>2. 2 \in Lines
      BY <1>4, <2>2, <2>3, <3>1
    <3>3. QED
      BY <3>2
  <2>4. CASE k = n
    <3>1. u = <<"crlf">>
      BY <1>3, <1>6, <2>1, <2>4, RestPlaces
    <3>2. 1 \in Lines
      BY <1>4, <3>1
    <3>3. QED
      BY <3>2
  <2>5. QED
    BY <2>2, <2>3, <2>4
<1>7. QED
  BY <1>1, <1>2, <1>5, <1>6 DEF Underway

\* Every step keeps the answers of an orderly client in its order.
LEMMA OrderlyStep == BufferInv /\ TypeOK /\ OrderlyInv /\ [Next]_vars => OrderlyInv'
<1> SUFFICES ASSUME BufferInv, TypeOK, OrderlyInv, [Next]_vars, orderly'
             PROVE  Exchange'
  BY DEF OrderlyInv
<1>1. CASE UNCHANGED vars
  <2>1. UNCHANGED <<wire, unread, pc, part, version, connection, connected, answers, log>>
    BY <1>1 DEF vars, bufferVars, requestVars
  <2>2. Exchange
    BY <1>1 DEF vars, OrderlyInv
  <2>3. Last' = Last
    BY <2>1 DEF Last
  <2>4. ASSUME NEW r, NEW k
        PROVE  Known(r, k)' <=> Known(r, k)
    BY <2>1 DEF Known
  <2>5. Answered' /\ (Settled => Settled')
    BY <2>1, <2>2 DEF Exchange, Answered, Settled
  <2>6. Underway => Underway'
    BY <2>1, <2>3, <2>4 DEF Underway
  <2>7. QED
    BY <2>1, <2>2, <2>5, <2>6 DEF Exchange
<1>2. CASE OnMessage
  BY <1>2, WholeStep DEF OnMessage, OrderlyInv
<1>3. CASE ParseRequestLine
  BY <1>3, RequestLineStep DEF ParseRequestLine, OrderlyInv
<1>4. CASE ParseHeader
  BY <1>4, HeaderStep DEF ParseHeader, OrderlyInv
<1>5. CASE NotEnough
  BY <1>5, NeverStarved DEF NotEnough, OrderlyInv
<1>6. CASE BadRequest
  BY <1>6 DEF BadRequest, Answer, OrderlyInv, Exchange, Settled, Underway
<1>7. CASE OnRequest
  <2>1. orderly /\ pc = "answer"
    BY <1>7 DEF OnRequest, Answer
  <2>2. Exchange /\ Underway
    BY <2>1 DEF OrderlyInv, Exchange, Settled
  <2>3. QED
    BY <1>7, <2>1, <2>2, AnswerStep
<1>8. ASSUME NEW r \in Requests, SendRequest(r)
      PROVE  Exchange'
  <2>1. orderly /\ Quiet
    BY <1>8 DEF SendRequest
  <2>2. QED
    BY <1>8, <2>1, RequestStep DEF OrderlyInv
<1>9. ASSUME NEW f \in Fragments, SendFragment(f)
      PROVE  FALSE
  BY <1>9 DEF SendFragment
<1>10. QED
  BY <1>1, <1>2, <1>3, <1>4, <1>5, <1>6, <1>7, <1>8, <1>9 DEF Next, Loop

\* Requests that come alone and whole are answered one by one, each as its last
\* Connection header and its version ask, whatever their headers and the sizes of
\* the buffer are.
THEOREM AnsweredInOrder == Spec => []OrderlyAnswered
<1>1. Init => TypeOK
  <2>1. Init => BufferInv
    BY InitBuffer
  <2>2. QED
    BY <2>1 DEF Init, TypeOK, BufferInv, Sound
<1>2. Init => OrderlyInv
  <2> SUFFICES ASSUME Init
               PROVE  Exchange
    BY DEF OrderlyInv
  <2>1. wire = <<>> /\ unread = <<>> /\ pc = "idle" /\ answers = <<>> /\ log = <<>>
    BY DEF Init
  <2>2. <<>> \in Seq(Requests) /\ <<>> \in Seq(Response) /\ Len(<<>>) = 0
    OBVIOUS
  <2>3. QED
    BY <2>1, <2>2 DEF Exchange, Answered, Settled
<1>3. BufferInv /\ TypeOK /\ OrderlyInv /\ [Next]_vars
        => BufferInv' /\ TypeOK' /\ OrderlyInv'
  BY BufferStep, TypeStep, OrderlyStep
<1>4. OrderlyInv => OrderlyAnswered
  <2> SUFFICES ASSUME Exchange, pc = "idle", wire = <<>>
               PROVE  /\ Len(answers) = Len(log)
                      /\ \A n \in 1 .. Len(log) : AnswerOf(log[n], answers[n])
    BY DEF OrderlyInv, OrderlyAnswered
  <2>1. Settled
    <3>1. SUFFICES ASSUME Underway
                   PROVE  FALSE
      BY DEF Exchange
    <3>2. Encode(Last) = <<>> /\ Last \in Requests
      BY <3>1, LastRequest DEF Underway
    <3>3. PICK m \in Nat : Len(Encode(Last)) = 2 * m + 3
      BY <3>2, EncodePlaces
    <3>4. Len(Encode(Last)) = 0
      BY <3>2
    <3>5. QED
      BY <3>3, <3>4
  <2>2. QED
    BY <2>1 DEF Exchange, Settled, Answered
<1>5. QED
  BY InitBuffer, <1>1, <1>2, <1>3, <1>4, PTL DEF Spec

=============================================================================
