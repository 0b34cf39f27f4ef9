-------------------------- MODULE TcpServerProofs ---------------------------
(***************************************************************************)
(* Proofs about TcpServer, for any number of peers, loops and descriptors: *)
(* the types, that the connections are dealt out evenly, and that nothing  *)
(* a poller uses by address was destroyed and nothing is destroyed before  *)
(* connectDestroyed has run on it.                                         *)
(***************************************************************************)
EXTENDS TcpServer, SequenceTheorems, FiniteSetTheorems, TLAPS

\* The functors of a loop, those taken over first.
Waiting(l) == batch[l] \o pending[l]
Todo(l) == Range(batch[l]) \cup Range(pending[l])

Task(op, c) == [op |-> op, c |-> c]

Unique(s, e) == \A i, j \in 1 .. Len(s) : s[i] = e /\ s[j] = e => i = j

\* The functions of the state, and how far a loop is in its turn.
Shape ==
  /\ channels = [l \in Loops |-> channels[l]]
  /\ connection = [n \in DOMAIN connection |-> connection[n]]
  /\ \A l \in Loops :
       /\ pc[l] # "functors" => batch[l] = <<>> /\ ran[l] = <<>>
       /\ pc[l] # "events" => active[l] = {}

\* Who waits to be accepted, and what is reported is there.
Reported ==
  /\ \A i, j \in 1 .. Len(backlog) : backlog[i] = backlog[j] => i = j
  /\ Range(backlog) \cap (refused \cup Accepted) = {}
  /\ \A l \in Loops : Acceptor \in active[l] => l = 0 /\ backlog # <<>>
  /\ \A l \in Loops : \A c \in active[l] : c = Acceptor \/ c \in epoll[l] \cap peerClosed
  /\ noticed \subseteq peerClosed /\ peerClosed \subseteq Accepted

\* A channel is with the poller of its own loop or with none.
Registered ==
  /\ \A l \in Loops : \A c \in epoll[l] :
       c \in Accepted /\ conn[c].loop = l /\ index[c] = "Add"
  /\ \A c \in Clients : index[c] # "New" =>
       index[c] = "Add" /\ c \in Accepted /\ c \in epoll[conn[c].loop]
  /\ \A l \in Loops : \A fd \in DOMAIN channels[l] :
       channels[l][fd] \in epoll[l] /\ conn[channels[l][fd]].fd = fd

\* A connection has its name to itself, and connection_ has it until it closes.
Named ==
  /\ \A c \in Accepted : conn[c].name < connId
  /\ \A c, d \in Accepted : conn[c].name = conn[d].name => c = d
  /\ \A n \in DOMAIN connection :
       connection[n] \in Accepted /\ conn[connection[n]].name = n
  /\ \A c \in Accepted : c \notin noticed => c \in Range(connection)

\* Each functor is with the right loop at the right time of a connection's life.
Fits(l, f) ==
  /\ f.c \in Accepted
  /\ f.op # "destroyConnectionInLoop" => conn[f.c].loop = l
  /\ f.op \in {"destroyConnectionInLoop", "connectDestroyed"} => f.c \in noticed
  /\ f.op = "connectEstablished" => f.c \notin noticed /\ f.c \notin epoll[l]

Ordered == \A l \in Loops : \A f \in Todo(l) : Fits(l, f)

EstablishedOnce ==
  \A l \in Loops : \A c \in Clients : Unique(Waiting(l), Task("connectEstablished", c))

\* A registered channel is owned by connection_ or by the functor that will
\* remove it.
Owned ==
  \A l \in Loops : \A c \in epoll[l] :
    c \in Range(connection) \/ Task("connectDestroyed", c) \in Todo(l)

OwnFd == \A c, d \in Alive : conn[c].fd = conn[d].fd => c = d

\* A connection that was not told of its end is owned by connection_ or by the
\* functor that will tell it.
Kept ==
  \A c \in Accepted :
    \/ state[c] = "Disconnected"
    \/ c \in Range(connection)
    \/ \E l \in Loops : Task("connectDestroyed", c) \in Todo(l)

\* next_ is an index of loops_.
Turn == nums > 0 => next < nums

Inv ==
  /\ TypeOK /\ Shape /\ Reported /\ Registered /\ Named /\ Ordered
  /\ EstablishedOnce /\ Owned /\ Turn

-----------------------------------------------------------------------------
(* Sequences. *)

\* Appending adds one element.
LEMMA RangeOfAppend ==
  ASSUME NEW S, NEW s \in Seq(S), NEW e \in S
  PROVE  Range(Append(s, e)) = Range(s) \cup {e}
<1>1. /\ Append(s, e) \in Seq(S) /\ Len(Append(s, e)) = Len(s) + 1
      /\ Append(s, e)[Len(s) + 1] = e
      /\ \A i \in 1 .. Len(s) : Append(s, e)[i] = s[i]
  BY AppendProperties
<1>2. DOMAIN Append(s, e) = 1 .. Len(s) + 1 /\ DOMAIN s = 1 .. Len(s) /\ Len(s) \in Nat
  BY <1>1, LenProperties
<1>3. QED
  BY <1>1, <1>2 DEF Range

\* A sequence holds its first element and those of its tail.
LEMMA RangeOfTail ==
  ASSUME NEW S, NEW s \in Seq(S), s # <<>>
  PROVE  /\ Head(s) \in S /\ Tail(s) \in Seq(S)
         /\ Range(s) = Range(Tail(s)) \cup {Head(s)}
<1>1. /\ Len(s) \in Nat /\ Len(s) # 0 /\ Head(s) = s[1] /\ Head(s) \in S
      /\ Tail(s) \in Seq(S) /\ Len(Tail(s)) = Len(s) - 1
      /\ \A i \in 1 .. Len(Tail(s)) : Tail(s)[i] = s[i + 1]
  OBVIOUS
<1>2. DOMAIN s = 1 .. Len(s) /\ DOMAIN Tail(s) = 1 .. Len(s) - 1
  BY <1>1, LenProperties
<1>3. Range(Tail(s)) \cup {Head(s)} \subseteq Range(s)
  BY <1>1, <1>2 DEF Range
<1>4. ASSUME NEW i \in 1 .. Len(s)
      PROVE  s[i] \in Range(Tail(s)) \cup {Head(s)}
  <2>1. CASE i = 1
    BY <1>1, <2>1
  <2>2. CASE i # 1
    <3>1. i - 1 \in 1 .. Len(s) - 1 /\ (i - 1) + 1 = i
      BY <1>1, <2>2
    <3>2. Tail(s)[i - 1] = s[i]
      BY <1>1, <3>1
    <3>3. QED
      BY <1>2, <3>1, <3>2 DEF Range
  <2>3. QED
    BY <2>1, <2>2
<1>5. QED
  BY <1>1, <1>2, <1>3, <1>4 DEF Range

\* The elements of a sequence over S are in S.
LEMMA RangeInSet ==
  ASSUME NEW S, NEW s \in Seq(S)
  PROVE  Range(s) \subseteq S
<1>1. DOMAIN s = 1 .. Len(s) /\ \A i \in 1 .. Len(s) : s[i] \in S
  OBVIOUS
<1>2. QED
  BY <1>1 DEF Range

\* The empty sequence has no elements.
LEMMA EmptyRange == Range(<<>>) = {}
BY DEF Range

\* A concatenation has the elements of both.
LEMMA RangeOfConcat ==
  ASSUME NEW S, NEW s \in Seq(S), NEW t \in Seq(S)
  PROVE  Range(s \o t) = Range(s) \cup Range(t)
BY RangeConcatenation

\* Appending another element, or a new one, keeps e single.
LEMMA UniqueAppend ==
  ASSUME NEW S, NEW s \in Seq(S), NEW e, NEW x \in S, Unique(s, e),
         x # e \/ e \notin Range(s)
  PROVE  Unique(Append(s, x), e)
<1>1. /\ Len(Append(s, x)) = Len(s) + 1
      /\ Append(s, x)[Len(s) + 1] = x
      /\ \A i \in 1 .. Len(s) : Append(s, x)[i] = s[i]
      /\ DOMAIN s = 1 .. Len(s) /\ Len(s) \in Nat
  BY AppendProperties, LenProperties
<1>2. \A i \in 1 .. Len(s) : s[i] = e => x # e
  BY <1>1 DEF Range
<1>3. PICK a : a = Append(s, x)
  OBVIOUS
<1>4. ASSUME NEW i \in 1 .. Len(a), NEW j \in 1 .. Len(a), a[i] = e, a[j] = e
      PROVE  i = j
  <2>1. CASE i \in 1 .. Len(s) /\ j \in 1 .. Len(s)
    BY <1>1, <1>3, <1>4, <2>1 DEF Unique
  <2>2. CASE ~(i \in 1 .. Len(s) /\ j \in 1 .. Len(s))
    BY <1>1, <1>2, <1>3, <1>4, <2>2
  <2>3. QED
    BY <2>1, <2>2
<1>5. QED
  BY <1>3, <1>4 DEF Unique

\* The tail of a sequence keeps e single.
LEMMA UniqueTail ==
  ASSUME NEW S, NEW s \in Seq(S), NEW e, Unique(s, e), s # <<>>
  PROVE  Unique(Tail(s), e) /\ (Head(s) = e => e \notin Range(Tail(s)))
<1>1. /\ Len(s) \in Nat /\ Len(s) # 0 /\ Head(s) = s[1]
      /\ Tail(s) \in Seq(S) /\ Len(Tail(s)) = Len(s) - 1
      /\ \A i \in 1 .. Len(Tail(s)) : Tail(s)[i] = s[i + 1]
  OBVIOUS
<1>2. PICK t \in Seq(S) : t = Tail(s)
  BY <1>1
<1>3. DOMAIN t = 1 .. Len(t)
  BY LenProperties
<1>4. \A i \in 1 .. Len(t) : t[i] = s[i + 1] /\ i + 1 \in 1 .. Len(s)
  BY <1>1, <1>2
<1>5. Unique(t, e)
  BY <1>4 DEF Unique
<1>6. ASSUME Head(s) = e, e \in Range(t)
      PROVE  FALSE
  <2>1. PICK i \in 1 .. Len(t) : t[i] = e
    BY <1>3, <1>6 DEF Range
  <2>2. s[1] = e /\ s[i + 1] = e /\ 1 \in 1 .. Len(s)
    BY <1>1, <1>4, <1>6, <2>1
  <2>3. 1 = i + 1
    BY <1>4, <2>2 DEF Unique
  <2>4. QED
    BY <2>3
<1>7. QED
  BY <1>2, <1>5, <1>6

\* A sequence that is not empty has a length that is a successor.
LEMMA NotEmpty ==
  ASSUME NEW S, NEW s \in Seq(S), s # <<>>
  PROVE  \E k \in Nat : k + 1 = Len(s)
<1>1. Len(s) \in Nat /\ Len(s) # 0
  OBVIOUS
<1>2. Len(s) - 1 \in Nat /\ (Len(s) - 1) + 1 = Len(s)
  BY <1>1
<1>3. QED
  BY <1>2

\* The places of a concatenation.
LEMMA ConcatPlaces ==
  ASSUME NEW S, NEW s \in Seq(S), NEW t \in Seq(S)
  PROVE  /\ Len(s \o t) = Len(s) + Len(t)
         /\ \A i \in 1 .. Len(s) : (s \o t)[i] = s[i]
         /\ \A i \in 1 .. Len(t) : (s \o t)[Len(s) + i] = t[i]
OBVIOUS

\* The places of a tail.
LEMMA TailPlaces ==
  ASSUME NEW S, NEW s \in Seq(S), s # <<>>
  PROVE  /\ Tail(s) \in Seq(S) /\ Len(Tail(s)) = Len(s) - 1
         /\ \A i \in 1 .. Len(s) - 1 : Tail(s)[i] = s[i + 1]
OBVIOUS

\* Taking the first element of the first part takes it from the whole.
LEMMA HeadTailConcat ==
  ASSUME NEW S, NEW s \in Seq(S), NEW t \in Seq(S), s # <<>>
  PROVE  /\ s \o t # <<>> /\ Head(s \o t) = Head(s)
         /\ Tail(s \o t) = Tail(s) \o t
<1>1. PICK k \in Nat : k + 1 = Len(s)
  BY NotEmpty
<1>2. PICK c \in Seq(S) : c = s \o t
  BY ConcatProperties
<1>3. /\ Len(c) = Len(s) + Len(t)
      /\ \A i \in 1 .. Len(s) : c[i] = s[i]
      /\ \A i \in 1 .. Len(t) : c[Len(s) + i] = t[i]
  BY <1>2, ConcatPlaces
<1>4. c # <<>> /\ Head(c) = Head(s)
  BY <1>1, <1>3
<1>5. PICK u \in Seq(S) : u = Tail(s)
  BY TailPlaces
<1>6. Len(u) = k /\ \A i \in 1 .. k : u[i] = s[i + 1]
  BY <1>1, <1>5, TailPlaces
<1>7. PICK v \in Seq(S) : v = u \o t
  BY ConcatProperties
<1>8. /\ Len(v) = k + Len(t)
      /\ \A i \in 1 .. k : v[i] = u[i]
      /\ \A i \in 1 .. Len(t) : v[k + i] = t[i]
  BY <1>6, <1>7, ConcatPlaces
<1>9. PICK x \in Seq(S) : x = Tail(c)
  BY <1>4, TailPlaces
<1>10. Len(x) = k + Len(t) /\ \A i \in 1 .. k + Len(t) : x[i] = c[i + 1]
  <2>1. Len(c) - 1 = k + Len(t)
    BY <1>1, <1>3
  <2>2. Len(x) = Len(c) - 1 /\ \A i \in 1 .. Len(c) - 1 : x[i] = c[i + 1]
    BY <1>4, <1>9, TailPlaces
  <2>3. QED
    BY <2>1, <2>2
<1>11. ASSUME NEW i \in 1 .. k + Len(t)
       PROVE  x[i] = v[i]
  <2>1. CASE i <= k
    <3>1. i \in 1 .. k /\ i + 1 \in 1 .. Len(s)
      BY <1>1, <2>1
    <3>2. QED
      BY <1>3, <1>6, <1>8, <1>10, <3>1
  <2>2. CASE i > k
    <3>1. PICK j \in 1 .. Len(t) : i = k + j
      <4>1. i - k \in 1 .. Len(t) /\ i = k + (i - k)
        BY <2>2
      <4>2. QED
        BY <4>1
    <3>2. i + 1 = Len(s) + j
      <4>1. i + 1 = (k + 1) + j
        BY <3>1
      <4>2. QED
        BY <1>1, <4>1
    <3>3. QED
      BY <1>3, <1>8, <1>10, <3>1, <3>2
  <2>3. QED
    BY <2>1, <2>2
<1>12. x = v
  BY <1>8, <1>10, <1>11, SeqEqual
<1>13. QED
  BY <1>2, <1>4, <1>5, <1>7, <1>9, <1>12

\* Appending to the second part appends to the whole.
LEMMA AppendToConcat ==
  ASSUME NEW S, NEW s \in Seq(S), NEW t \in Seq(S), NEW e \in S
  PROVE  s \o Append(t, e) = Append(s \o t, e)
<1>1. /\ s \o t \in Seq(S) /\ <<e>> \in Seq(S)
      /\ Append(s \o t, e) = (s \o t) \o <<e>>
      /\ Append(t, e) = t \o <<e>>
  BY ConcatProperties, AppendIsConcat
<1>2. (s \o t) \o <<e>> = s \o (t \o <<e>>)
  BY ConcatAssociative, <1>1
<1>3. QED
  BY <1>1, <1>2

-----------------------------------------------------------------------------
(* The queues of the loops. *)

Op == {"connectEstablished", "destroyConnectionInLoop", "connectDestroyed",
       "sendInLoop"}

Queues == pending \in [Loops -> Seq(Functor)] /\ batch \in [Loops -> Seq(Functor)]

\* A task is a functor.
LEMMA TaskType ==
  ASSUME NEW op \in Op, NEW c \in Clients
  PROVE  Task(op, c) \in Functor
BY DEF Task, Functor, Op

\* What a loop has to do is the elements of its queues.
LEMMA TodoType ==
  ASSUME Queues, NEW l \in Loops
  PROVE  /\ Todo(l) = Range(Waiting(l)) /\ Todo(l) \subseteq Functor
         /\ Waiting(l) \in Seq(Functor)
<1>1. PICK b \in Seq(Functor), p \in Seq(Functor) : b = batch[l] /\ p = pending[l]
  BY DEF Queues
<1>2. Range(b \o p) = Range(b) \cup Range(p)
  BY RangeOfConcat
<1>3. Range(b) \subseteq Functor /\ Range(p) \subseteq Functor
  BY RangeInSet
<1>4. b \o p \in Seq(Functor)
  BY ConcatProperties
<1>5. QED
  BY <1>1, <1>2, <1>3, <1>4 DEF Todo, Waiting

\* A functor is queued behind the others.
LEMMA QueueEffect ==
  ASSUME Queues, NEW l \in Loops, NEW op \in Op, NEW c \in Clients,
         Queue(l, op, c), batch' = batch
  PROVE  /\ Queues'
         /\ \A k \in Loops \ {l} : pending'[k] = pending[k] /\ batch'[k] = batch[k]
         /\ pending'[l] = Append(pending[l], Task(op, c))
         /\ Waiting(l)' = Append(Waiting(l), Task(op, c))
         /\ Todo(l)' = Todo(l) \cup {Task(op, c)}
<1>1. PICK b \in Seq(Functor), p \in Seq(Functor) : b = batch[l] /\ p = pending[l]
  BY DEF Queues
<1>2. PICK e \in Functor : e = Task(op, c)
  BY TaskType
<1>3. pending' = [pending EXCEPT ![l] = Append(p, e)]
  BY <1>1, <1>2 DEF Queue, Task
<1>4. Append(p, e) \in Seq(Functor)
  BY AppendProperties
<1>5. pending'[l] = Append(p, e) /\ \A k \in Loops \ {l} : pending'[k] = pending[k]
  BY <1>3 DEF Queues
<1>6. Queues'
  BY <1>3, <1>4 DEF Queues
<1>7. b \o Append(p, e) = Append(b \o p, e)
  BY AppendToConcat
<1>8. Range(Append(p, e)) = Range(p) \cup {e}
  BY RangeOfAppend
<1>9. QED
  BY <1>1, <1>2, <1>5, <1>6, <1>7, <1>8 DEF Waiting, Todo

\* A functor is taken from the batch.
LEMMA TakeEffect ==
  ASSUME Queues, NEW l \in Loops, batch[l] # <<>>,
         batch' = [batch EXCEPT ![l] = Tail(@)], pending' = pending
  PROVE  /\ Queues'
         /\ Head(batch[l]) \in Functor /\ Head(batch[l]) \in Todo(l)
         /\ \A k \in Loops \ {l} : batch'[k] = batch[k]
         /\ batch'[l] = Tail(batch[l])
         /\ Waiting(l) # <<>> /\ Head(Waiting(l)) = Head(batch[l])
         /\ Waiting(l)' = Tail(Waiting(l))
         /\ Todo(l) = Todo(l)' \cup {Head(batch[l])}
<1>1. PICK b \in Seq(Functor), p \in Seq(Functor) : b = batch[l] /\ p = pending[l]
  BY DEF Queues
<1>2. batch' = [batch EXCEPT ![l] = Tail(b)] /\ b # <<>>
  BY <1>1
<1>3. /\ Head(b) \in Functor /\ Tail(b) \in Seq(Functor)
      /\ Range(b) = Range(Tail(b)) \cup {Head(b)}
  BY <1>2, RangeOfTail
<1>4. batch'[l] = Tail(b) /\ \A k \in Loops \ {l} : batch'[k] = batch[k]
  BY <1>2 DEF Queues
<1>5. Queues'
  BY <1>2, <1>3 DEF Queues
<1>6. /\ b \o p # <<>> /\ Head(b \o p) = Head(b)
      /\ Tail(b \o p) = Tail(b) \o p
  BY <1>2, HeadTailConcat
<1>7. QED
  BY <1>1, <1>3, <1>4, <1>5, <1>6 DEF Waiting, Todo

\* The batch is empty and takes everything that is pending.
LEMMA SwapEffect ==
  ASSUME Queues, NEW l \in Loops, batch[l] = <<>>,
         batch' = [batch EXCEPT ![l] = pending[l]],
         pending' = [pending EXCEPT ![l] = <<>>]
  PROVE  /\ Queues'
         /\ batch'[l] = pending[l] /\ pending'[l] = <<>>
         /\ \A k \in Loops : Waiting(k)' = Waiting(k) /\ Todo(k)' = Todo(k)
<1>1. PICK p \in Seq(Functor) : p = pending[l]
  BY DEF Queues
<1>2. /\ batch'[l] = p /\ pending'[l] = <<>>
      /\ \A k \in Loops \ {l} : batch'[k] = batch[k] /\ pending'[k] = pending[k]
  BY <1>1 DEF Queues
<1>3. Queues'
  <2>1. <<>> \in Seq(Functor)
    OBVIOUS
  <2>2. QED
    BY <1>1, <2>1 DEF Queues
<1>4. p \o <<>> = p /\ <<>> \o p = p
  BY ConcatEmptySeq
<1>5. Waiting(l)' = Waiting(l) /\ Todo(l)' = Todo(l)
  BY <1>1, <1>2, <1>4, EmptyRange DEF Waiting, Todo
<1>6. ASSUME NEW k \in Loops, k # l
      PROVE  Waiting(k)' = Waiting(k) /\ Todo(k)' = Todo(k)
  BY <1>2, <1>6 DEF Waiting, Todo
<1>7. QED
  BY <1>1, <1>2, <1>3, <1>5, <1>6

-----------------------------------------------------------------------------
(* The steps that say more than they do. *)

TypeInv == TypeOK /\ Shape

\* The types give those of the queues.
LEMMA QueuesType == TypeOK => Queues
BY DEF TypeOK, Queues

\* The base loop is one of the loops.
LEMMA BaseLoop == 0 \in Loops /\ Loops \subseteq Nat
BY MaxAssumption DEF Loops

\* A channel that is reported is registered with the loop, so that its
\* disableAll does not touch the poller.
LEMMA CloseEffect ==
  ASSUME Inv, NEW l \in Loops, NEW c \in Clients, HandleClose(l, c)
  PROVE  /\ c \in Accepted /\ conn[c].loop = l /\ c \in epoll[l]
         /\ c \in peerClosed /\ UNCHANGED pollerVars
<1>1. c \in active[l] /\ c # Acceptor /\ UpdateChannel(c)
  BY AcceptorAssumption DEF HandleClose
<1>2. c \in epoll[l] /\ c \in peerClosed
  BY <1>1 DEF Inv, Reported
<1>3. c \in Accepted /\ conn[c].loop = l /\ index[c] = "Add"
  BY <1>2 DEF Inv, Registered
<1>4. UNCHANGED pollerVars
  BY <1>1, <1>3 DEF UpdateChannel
<1>5. QED
  BY <1>2, <1>3, <1>4

\* The connection that is accepted is new, and so is its descriptor.
LEMMA AcceptEffect ==
  ASSUME Inv, AcceptorHandleRead
  PROVE  /\ backlog # <<>> /\ Head(backlog) \in Clients
         /\ Head(backlog) \notin refused \cup Accepted
         /\ backlog' = Tail(backlog) /\ Tail(backlog) \in Seq(Clients)
         /\ Range(backlog) = Range(Tail(backlog)) \cup {Head(backlog)}
         /\ Head(backlog) \notin Range(Tail(backlog))
<1>1. backlog # <<>> /\ backlog \in Seq(Clients)
  <2>1. Acceptor \in active[0] /\ 0 \in Loops
    BY BaseLoop DEF AcceptorHandleRead
  <2>2. QED
    BY <2>1 DEF Inv, Reported, TypeOK
<1>2. /\ Head(backlog) \in Clients /\ Tail(backlog) \in Seq(Clients)
      /\ Range(backlog) = Range(Tail(backlog)) \cup {Head(backlog)}
  BY <1>1, RangeOfTail
<1>3. Unique(backlog, Head(backlog))
  BY DEF Inv, Reported, Unique
<1>4. Head(backlog) \notin Range(Tail(backlog))
  BY <1>1, <1>3, UniqueTail
<1>5. backlog' = Tail(backlog)
  BY DEF AcceptorHandleRead, Refuse
<1>6. QED
  BY <1>1, <1>2, <1>4, <1>5 DEF Inv, Reported

\* getNextLoop returns one of the loops.
LEMMA NextLoopType == Inv => NextLoop \in Loops
<1> SUFFICES ASSUME Inv
             PROVE  NextLoop \in Loops
  OBVIOUS
<1>1. nums \in 0 .. MaxLoops /\ next \in 0 .. MaxLoops /\ (nums > 0 => next < nums)
  BY DEF Inv, Turn, TypeOK, Loops
<1>2. QED
  BY <1>1, MaxAssumption DEF NextLoop, Loops

-----------------------------------------------------------------------------
(* The types. *)

\* The types hold at the start.
LEMMA InitType == Init => TypeInv
<1> SUFFICES ASSUME Init
             PROVE  TypeInv
  OBVIOUS
<1>1. <<>> \in Seq(Clients) /\ <<>> \in Seq(Functor) /\ DOMAIN <<>> = {} /\ Range(<<>>) = {}
  BY EmptyRange
<1>2. nums \in Loops /\ 0 \in Loops
  BY ThreadNumsAssumption, MaxAssumption DEF Init, Loops
<1>3. /\ conn = <<>> /\ connection = <<>> /\ channels = [l \in Loops |-> <<>>]
      /\ Accepted = {} /\ Range(connection) = {}
  BY <1>1 DEF Init, Accepted
<1>4. TypeOK
  BY <1>1, <1>2, <1>3 DEF Init, TypeOK
<1>5. Shape
  BY <1>1, <1>3 DEF Init, Shape
<1>6. QED
  BY <1>4, <1>5 DEF TypeInv

\* The steps that neither accept, close, send nor run a functor keep the types.
LEMMA EasyType ==
  ASSUME Inv,
         \/ Start
         \/ \E l \in Loops : Poll(l) \/ StartFunctors(l) \/ FinishFunctors(l)
         \/ \E c \in Clients : Connect(c) \/ PeerClose(c) \/ Hold(c) \/ Drop(c)
  PROVE  TypeInv'
<1> USE DEF Inv, TypeInv, Shape, TypeOK, poolVars, acceptVars, pollerVars, closeVars,
            loopVars, Accepted
<1>1. CASE Start
  BY <1>1 DEF Start
<1>2. ASSUME NEW l \in Loops, Poll(l)
      PROVE  TypeInv'
  <2>1. Readable(l) \subseteq Accepted \cup {Acceptor}
    BY DEF Readable
  <2>2. QED
    BY <1>2, <2>1 DEF Poll
<1>3. ASSUME NEW l \in Loops, StartFunctors(l)
      PROVE  TypeInv'
  <2>1. batch[l] = <<>> /\ ran[l] = <<>>
    BY <1>3 DEF StartFunctors
  <2>2. Queues'
    BY <1>3, <2>1, SwapEffect, QueuesType DEF StartFunctors
  <2>3. QED
    BY <1>3, <2>2 DEF StartFunctors, Queues
<1>4. ASSUME NEW l \in Loops, FinishFunctors(l)
      PROVE  TypeInv'
  BY <1>4 DEF FinishFunctors
<1>5. ASSUME NEW c \in Clients, Connect(c)
      PROVE  TypeInv'
  BY <1>5 DEF Connect
<1>6. ASSUME NEW c \in Clients, PeerClose(c)
      PROVE  TypeInv'
  BY <1>6 DEF PeerClose
<1>7. ASSUME NEW c \in Clients, Hold(c)
      PROVE  TypeInv'
  BY <1>7 DEF Hold
<1>8. ASSUME NEW c \in Clients, Drop(c)
      PROVE  TypeInv'
  BY <1>8 DEF Drop
<1>9. QED
  BY <1>1, <1>2, <1>3, <1>4, <1>5, <1>6, <1>7, <1>8

\* connection_ keeps its type when a connection is taken out.
LEMMA EraseEffect ==
  ASSUME Inv, NEW c \in Clients, DestroyConnectionInLoop(c)
  PROVE  /\ connection' = [n \in DOMAIN connection'|-> connection'[n]]
         /\ DOMAIN connection' \subseteq DOMAIN connection
         /\ \A n \in DOMAIN connection' : connection'[n] = connection[n] /\ n # conn[c].name
         /\ \A n \in DOMAIN connection : n # conn[c].name => n \in DOMAIN connection'
         /\ Range(connection') \subseteq Range(connection)
         /\ Queue(conn[c].loop, "connectDestroyed", c)
<1>1. /\ connection' = [n \in DOMAIN connection \ {conn[c].name} |-> connection[n]]
      /\ Queue(conn[c].loop, "connectDestroyed", c)
  BY DEF DestroyConnectionInLoop, Erase, Restrict_
<1>2. DOMAIN connection' = DOMAIN connection \ {conn[c].name}
  BY <1>1
<1>3. \A n \in DOMAIN connection' : connection'[n] = connection[n]
  BY <1>1
<1>4. connection' = [n \in DOMAIN connection' |-> connection'[n]]
  BY <1>1
<1>5. QED
  BY <1>1, <1>2, <1>3, <1>4 DEF Range

\* handleClose keeps the types.
LEMMA CloseType ==
  ASSUME Inv, NEW l \in Loops, NEW c \in Clients, HandleClose(l, c)
  PROVE  TypeInv'
<1>1. c \in Accepted /\ UNCHANGED pollerVars /\ conn[c].loop \in Loops
  BY CloseEffect DEF Inv, TypeOK
<1>2. "connectDestroyed" \in Op /\ "destroyConnectionInLoop" \in Op /\ 0 \in Loops
  BY BaseLoop DEF Op
<1>3. /\ UNCHANGED <<poolVars, acceptVars, state, peerClosed, pc, batch, ran, held>>
      /\ active' = [active EXCEPT ![l] = @ \ {c}]
      /\ noticed' = noticed \cup {c}
      /\ repeats' = IF c \in noticed THEN repeats + 1 ELSE repeats
  BY DEF HandleClose
<1>4. /\ Queues'
      /\ Range(connection') \subseteq Range(connection)
      /\ connection' = [n \in DOMAIN connection' |-> connection'[n]]
  <2>1. CASE l = 0
    <3>1. DestroyConnectionInLoop(c)
      BY <2>1 DEF HandleClose
    <3>2. PICK k \in Loops : k = conn[c].loop
      BY <1>1
    <3>3. Queue(k, "connectDestroyed", c)
      BY <3>1, <3>2, EraseEffect
    <3>4. Queues'
      BY <1>2, <1>3, <3>3, QueueEffect, QueuesType DEF Inv
    <3>5. QED
      BY <3>1, <3>4, EraseEffect
  <2>2. CASE l # 0
    <3>1. Queue(0, "destroyConnectionInLoop", c) /\ UNCHANGED connection
      BY <2>2 DEF HandleClose
    <3>2. Queues'
      BY <1>2, <1>3, <3>1, QueueEffect, QueuesType DEF Inv
    <3>3. QED
      BY <3>1, <3>2 DEF Inv, Shape
  <2>3. QED
    BY <2>1, <2>2
<1>5. active' \in [Loops -> SUBSET (Accepted \cup {Acceptor})]
  BY <1>3 DEF Inv, TypeOK
<1>6. repeats' \in Nat /\ noticed' \subseteq Accepted
  BY <1>1, <1>3 DEF Inv, TypeOK
<1>7. TypeOK'
  BY <1>1, <1>3, <1>4, <1>5, <1>6
     DEF Inv, TypeOK, Queues, poolVars, acceptVars, pollerVars, Accepted
<1>8. Shape'
  <2>1. pc[l] = "events"
    BY DEF HandleClose
  <2>2. UNCHANGED <<channels, pc, batch, ran>>
    BY <1>1, <1>3 DEF pollerVars
  <2>3. \A k \in Loops : pc[k] # "events" => active'[k] = {}
    BY <1>3, <2>1 DEF Inv, TypeOK, Shape
  <2>4. QED
    BY <1>4, <2>2, <2>3 DEF Inv, Shape
<1>9. QED
  BY <1>7, <1>8 DEF TypeInv

\* send keeps the types.
LEMMA SendType ==
  ASSUME Inv, NEW c \in Clients, Send(c)
  PROVE  TypeInv'
<1>1. PICK l \in Loops : l = conn[c].loop
  BY DEF Send, Inv, TypeOK
<1>2. /\ Queue(l, "sendInLoop", c)
      /\ UNCHANGED <<poolVars, acceptVars, connection, state, pollerVars,
                     peerClosed, closeVars, loopVars, held>>
  BY <1>1 DEF Send
<1>3. "sendInLoop" \in Op /\ UNCHANGED batch
  BY <1>2 DEF Op, loopVars
<1>4. Queues'
  BY <1>2, <1>3, QueueEffect, QueuesType DEF Inv
<1>5. QED
  BY <1>2, <1>4 DEF Inv, TypeInv, Shape, TypeOK, Queues, poolVars, acceptVars,
     pollerVars, closeVars, loopVars, Accepted

\* A functor is taken from the batch of loop l, and queues another with loop k.
LEMMA TakeAndQueueEffect ==
  ASSUME Queues, NEW l \in Loops, NEW k \in Loops, NEW e \in Functor,
         batch[l] # <<>>, batch' = [batch EXCEPT ![l] = Tail(@)],
         pending' = [pending EXCEPT ![k] = Append(@, e)]
  PROVE  /\ Queues'
         /\ e \in Todo(k)'
         /\ \A m \in Loops :
              /\ Todo(m)' \subseteq Todo(m) \cup {e}
              /\ m # k => Todo(m)' \subseteq Todo(m)
              /\ Todo(m) \subseteq Todo(m)' \cup {Head(batch[l])}
              /\ m # l => Todo(m) \subseteq Todo(m)'
              /\ \A x : x # e /\ Unique(Waiting(m), x) => Unique(Waiting(m)', x)
<1>1. \A m \in Loops : batch[m] \in Seq(Functor) /\ pending[m] \in Seq(Functor)
  BY DEF Queues
<1>2. \A m \in Loops : /\ batch'[m] = IF m = l THEN Tail(batch[m]) ELSE batch[m]
                       /\ pending'[m] = IF m = k THEN Append(pending[m], e) ELSE pending[m]
  BY DEF Queues
<1>3. Tail(batch[l]) \in Seq(Functor) /\ Append(pending[k], e) \in Seq(Functor)
  BY <1>1, AppendProperties
<1>4. Queues'
  BY <1>3 DEF Queues
<1>5. ASSUME NEW m \in Loops
      PROVE  /\ Todo(m)' \subseteq Todo(m) \cup {e}
             /\ m # k => Todo(m)' \subseteq Todo(m)
             /\ m = k => e \in Todo(m)'
             /\ Todo(m) \subseteq Todo(m)' \cup {Head(batch[l])}
             /\ m # l => Todo(m) \subseteq Todo(m)'
             /\ \A x : x # e /\ Unique(Waiting(m), x) => Unique(Waiting(m)', x)
  <2>1. PICK b \in Seq(Functor), p \in Seq(Functor) : b = batch[m] /\ p = pending[m]
    BY <1>1
  <2>2. PICK b1 \in Seq(Functor) : b1 = batch'[m]
    BY <1>4 DEF Queues
  <2>3. PICK p1 \in Seq(Functor) : p1 = pending'[m]
    BY <1>4 DEF Queues
  <2>4. /\ m = l => b # <<>> /\ b1 = Tail(b) /\ Head(b) = Head(batch[l])
        /\ m # l => b1 = b
        /\ m = k => p1 = Append(p, e)
        /\ m # k => p1 = p
    <3>1. m = l => b # <<>> /\ b1 = Tail(b) /\ Head(b) = Head(batch[l])
      BY <1>2, <2>1, <2>2
    <3>2. (m # l => b1 = b) /\ (m = k => p1 = Append(p, e)) /\ (m # k => p1 = p)
      BY <1>2, <2>1, <2>2, <2>3
    <3>3. QED
      BY <3>1, <3>2
  <2>5. /\ m = l => Range(b) = Range(b1) \cup {Head(b)}
        /\ m = k => Range(p1) = Range(p) \cup {e}
    <3>1. m = l => Range(b) = Range(b1) \cup {Head(b)}
      <4>1. b # <<>> => Range(b) = Range(Tail(b)) \cup {Head(b)}
        BY RangeOfTail
      <4>2. QED
        BY <2>4, <4>1
    <3>2. Range(Append(p, e)) = Range(p) \cup {e}
      BY RangeOfAppend
    <3>3. QED
      BY <2>4, <3>1, <3>2
  <2>6. Todo(m) = Range(b) \cup Range(p) /\ Todo(m)' = Range(b1) \cup Range(p1)
    BY <2>1, <2>2, <2>3 DEF Todo
  <2>7. Waiting(m) = b \o p /\ Waiting(m)' = b1 \o p1
    BY <2>1, <2>2, <2>3 DEF Waiting
  <2>8. ASSUME NEW x, x # e, Unique(b \o p, x)
        PROVE  Unique(b1 \o p1, x)
    <3>1. Unique(b1 \o p, x)
      <4>1. CASE m = l
        <5>1. PICK w \in Seq(Functor) : w = b \o p
          BY ConcatProperties
        <5>2. w # <<>> /\ Tail(w) = b1 \o p
          BY <2>4, <4>1, <5>1, HeadTailConcat
        <5>3. Unique(w, x)
          BY <2>8, <5>1
        <5>4. Unique(Tail(w), x)
          BY <5>2, <5>3, UniqueTail
        <5>5. QED
          BY <5>2, <5>4
      <4>2. CASE m # l
        BY <2>4, <2>8, <4>2
      <4>3. QED
        BY <4>1, <4>2
    <3>2. CASE m = k
      <4>1. PICK w \in Seq(Functor) : w = b1 \o p
        BY ConcatProperties
      <4>2. Unique(Append(w, e), x)
        BY <2>8, <3>1, <4>1, UniqueAppend
      <4>3. b1 \o Append(p, e) = Append(b1 \o p, e)
        BY AppendToConcat
      <4>4. QED
        BY <2>4, <3>2, <4>1, <4>2, <4>3
    <3>3. CASE m # k
      BY <2>4, <3>1, <3>3
    <3>4. QED
      BY <3>2, <3>3
  <2>9. QED
    BY <2>4, <2>5, <2>6, <2>7, <2>8
<1>6. QED
  BY <1>4, <1>5

\* A functor that is run is one of the four.
LEMMA RunEffect ==
  ASSUME Inv, NEW l \in Loops, RunFunctor(l), NEW f, f = Head(batch[l])
  PROVE  /\ batch[l] # <<>> /\ batch' = [batch EXCEPT ![l] = Tail(@)]
         /\ ran' = [ran EXCEPT ![l] = Append(@, f)] /\ ran' \in [Loops -> Seq(Functor)]
         /\ pc[l] = "functors" /\ active[l] = {}
         /\ f \in Functor /\ f \in Todo(l) /\ f.c \in Accepted /\ f.c \in Clients
         /\ f.op \in Op /\ f = Task(f.op, f.c)
         /\ UNCHANGED <<poolVars, acceptVars, peerClosed, closeVars, pc, active, held>>
<1>1. /\ batch[l] # <<>> /\ batch' = [batch EXCEPT ![l] = Tail(@)]
      /\ ran' = [ran EXCEPT ![l] = Append(@, f)]
      /\ pc[l] = "functors"
      /\ UNCHANGED <<poolVars, acceptVars, peerClosed, closeVars, pc, active, held>>
  BY DEF RunFunctor
<1>2. batch[l] \in Seq(Functor) /\ ran[l] \in Seq(Functor) /\ active[l] = {}
  BY <1>1 DEF Inv, TypeOK, Shape
<1>3. f \in Functor /\ f \in Range(batch[l])
  BY <1>1, <1>2, RangeOfTail
<1>4. f \in Todo(l)
  BY <1>3 DEF Todo
<1>5. Append(ran[l], f) \in Seq(Functor)
  BY <1>2, <1>3, AppendProperties
<1>6. ran' \in [Loops -> Seq(Functor)]
  BY <1>1, <1>5 DEF Inv, TypeOK
<1>7. f.c \in Accepted
  BY <1>4 DEF Inv, Ordered, Fits
<1>8. f.c \in Clients /\ f.op \in Op /\ f = Task(f.op, f.c)
  BY <1>3 DEF Functor, Op, Task
<1>9. QED
  BY <1>1, <1>2, <1>3, <1>4, <1>6, <1>7, <1>8

\* What connectEstablished and connectDestroyed do to the poller of loop l.
Added(l, c) ==
  /\ conn[c].loop = l /\ c \notin noticed /\ c \notin epoll[l] /\ index[c] = "New"
  /\ state' = [state EXCEPT ![c] = "Connected"]
  /\ channels' = [channels EXCEPT ![l] = Put(channels[l], conn[c].fd, c)]
  /\ index' = [index EXCEPT ![c] = "Add"]
  /\ epoll' = [epoll EXCEPT ![l] = epoll[l] \cup {c}]
  /\ UNCHANGED <<connection, pending>>

Removed(l, c) ==
  /\ conn[c].loop = l /\ c \in noticed
  /\ state' = [state EXCEPT ![c] = "Disconnected"]
  /\ channels' = [channels EXCEPT ![l] =
                    Restrict_(channels[l], DOMAIN channels[l] \ {conn[c].fd})]
  /\ index' = [index EXCEPT ![c] = "New"]
  /\ epoll' = [epoll EXCEPT ![l] = epoll[l] \ {c}]
  /\ UNCHANGED <<connection, pending>>

\* What running connectEstablished does.
LEMMA EstablishedEffect ==
  ASSUME Inv, NEW l \in Loops, RunFunctor(l), NEW f, f = Head(batch[l]),
         f.op = "connectEstablished"
  PROVE  Added(l, f.c)
<1>1. PICK c : c = f.c
  OBVIOUS
<1>2. f \in Todo(l) /\ f.c \in Accepted /\ c \in Clients
  BY <1>1, RunEffect
<1>3. conn[c].loop = l /\ c \notin noticed /\ c \notin epoll[l]
  BY <1>1, <1>2 DEF Inv, Ordered, Fits
<1>4. index[c] = "New"
  BY <1>1, <1>2, <1>3 DEF Inv, Registered
<1>5. ConnectEstablished(c) /\ UNCHANGED <<connection, pending>>
  BY <1>1 DEF RunFunctor
<1>6. QED
  BY <1>1, <1>3, <1>4, <1>5 DEF ConnectEstablished, UpdateChannel, Added

\* What running connectDestroyed does.
LEMMA DestroyedEffect ==
  ASSUME Inv, NEW l \in Loops, RunFunctor(l), NEW f, f = Head(batch[l]),
         f.op = "connectDestroyed"
  PROVE  Removed(l, f.c)
<1>1. PICK c : c = f.c
  OBVIOUS
<1>2. f \in Todo(l)
  BY RunEffect
<1>3. conn[c].loop = l /\ c \in noticed
  BY <1>1, <1>2 DEF Inv, Ordered, Fits
<1>4. /\ state' = [state EXCEPT ![c] = "Disconnected"]
      /\ UpdateAndRemoveChannel(c) /\ UNCHANGED <<connection, pending>>
  BY <1>1 DEF RunFunctor
<1>5. QED
  BY <1>1, <1>3, <1>4 DEF UpdateAndRemoveChannel, Removed

\* What running destroyConnectionInLoop does.
LEMMA DestroyEffect ==
  ASSUME Inv, NEW l \in Loops, RunFunctor(l), NEW f, f = Head(batch[l]),
         f.op = "destroyConnectionInLoop", NEW c, c = f.c
  PROVE  /\ c \in Clients /\ c \in noticed /\ DestroyConnectionInLoop(c)
         /\ conn[c].loop \in Loops /\ UNCHANGED <<state, pollerVars>>
<1>1. f \in Todo(l) /\ c \in Accepted /\ c \in Clients
  BY RunEffect
<1>2. c \in noticed /\ conn[c].loop \in Loops
  BY <1>1 DEF Inv, Ordered, Fits, TypeOK
<1>3. DestroyConnectionInLoop(c) /\ UNCHANGED <<state, pollerVars>>
  BY DEF RunFunctor
<1>4. QED
  BY <1>1, <1>2, <1>3

\* Running a functor keeps the types.
LEMMA RunType ==
  ASSUME Inv, NEW l \in Loops, RunFunctor(l)
  PROVE  TypeInv'
<1>1. PICK f : f = Head(batch[l])
  OBVIOUS
<1>2. PICK c : c = f.c
  OBVIOUS
<1>3. /\ batch[l] # <<>> /\ batch' = [batch EXCEPT ![l] = Tail(@)]
      /\ ran' \in [Loops -> Seq(Functor)]
      /\ ran' = [ran EXCEPT ![l] = Append(@, f)]
      /\ pc[l] = "functors" /\ c \in Clients /\ c \in Accepted /\ f.op \in Op
      /\ UNCHANGED <<poolVars, acceptVars, peerClosed, closeVars, pc, active, held>>
  BY <1>1, <1>2, RunEffect
<1>4. \A k \in Loops : /\ pc'[k] # "functors" => batch'[k] = <<>> /\ ran'[k] = <<>>
                       /\ pc'[k] # "events" => active'[k] = {}
  BY <1>3 DEF Inv, TypeOK, Shape
<1>5. Queues
  BY QueuesType DEF Inv
<1>6. CASE f.op # "destroyConnectionInLoop"
  <2>1. Queues'
    <3>1. UNCHANGED pending
      BY <1>1, <1>6 DEF RunFunctor
    <3>2. QED
      BY <1>3, <1>5, <3>1, TakeEffect
  <2>2. /\ state' \in [Clients -> {"Connecting", "Connected", "Disconnected"}]
        /\ index' \in [Clients -> {"New", "Add", "Deleted"}]
        /\ \A k \in Loops : DOMAIN channels'[k] \subseteq Fds
        /\ channels' = [k \in Loops |-> channels'[k]]
        /\ epoll' \in [Loops -> SUBSET Accepted]
        /\ connection' = connection
    <3>1. conn[c].fd \in Fds
      BY <1>3 DEF Inv, TypeOK
    <3>2. CASE f.op = "connectEstablished"
      <4>1. PICK m : m = Put(channels[l], conn[c].fd, c)
        OBVIOUS
      <4>2. DOMAIN m \subseteq Fds
        BY <3>1, <4>1 DEF Put, Inv, TypeOK
      <4>3. Added(l, c)
        BY <1>1, <1>2, <3>2, EstablishedEffect
      <4>4. QED
        BY <1>3, <4>1, <4>2, <4>3 DEF Inv, TypeOK, Shape, Added
    <3>3. CASE f.op = "connectDestroyed"
      <4>1. PICK m : m = Restrict_(channels[l], DOMAIN channels[l] \ {conn[c].fd})
        OBVIOUS
      <4>2. DOMAIN m \subseteq Fds
        BY <4>1 DEF Restrict_, Inv, TypeOK
      <4>3. Removed(l, c)
        BY <1>1, <1>2, <3>3, DestroyedEffect
      <4>4. QED
        BY <1>3, <4>1, <4>2, <4>3 DEF Inv, TypeOK, Shape, Removed
    <3>4. CASE f.op = "sendInLoop"
      <4>1. UNCHANGED <<connection, state, pollerVars>>
        BY <1>1, <3>4 DEF RunFunctor
      <4>2. QED
        BY <4>1 DEF pollerVars, Inv, TypeOK, Shape
    <3>5. QED
      BY <1>3, <1>6, <3>2, <3>3, <3>4 DEF Op
  <2>3. TypeOK'
    BY <1>3, <2>1, <2>2
       DEF Inv, TypeOK, Queues, poolVars, acceptVars, closeVars, Accepted
  <2>4. Shape'
    BY <1>4, <2>2 DEF Inv, Shape
  <2>5. QED
    BY <2>3, <2>4 DEF TypeInv
<1>7. CASE f.op = "destroyConnectionInLoop"
  <2>1. PICK k \in Loops : k = conn[c].loop
    BY <1>1, <1>2, <1>7, DestroyEffect
  <2>2. /\ DestroyConnectionInLoop(c) /\ UNCHANGED <<state, pollerVars>>
        /\ Queue(k, "connectDestroyed", c)
    BY <1>1, <1>2, <1>7, <2>1, DestroyEffect DEF DestroyConnectionInLoop
  <2>3. PICK e \in Functor : e = Task("connectDestroyed", c)
    BY <1>3, TaskType DEF Op
  <2>4. pending' = [pending EXCEPT ![k] = Append(@, e)]
    BY <2>2, <2>3 DEF Queue, Task
  <2>5. Queues'
    BY <1>3, <1>5, <2>4, TakeAndQueueEffect
  <2>6. /\ Range(connection') \subseteq Range(connection)
        /\ connection' = [n \in DOMAIN connection' |-> connection'[n]]
    BY <1>3, <2>2, EraseEffect
  <2>7. TypeOK'
    BY <1>3, <2>2, <2>5, <2>6
       DEF Inv, TypeOK, Queues, poolVars, acceptVars, closeVars, pollerVars, Accepted
  <2>8. Shape'
    BY <1>4, <2>2, <2>6 DEF Inv, Shape, pollerVars
  <2>9. QED
    BY <2>7, <2>8 DEF TypeInv
<1>8. QED
  BY <1>6, <1>7

\* What accepting connection c does, on loop l and with descriptor fd.
Taken(l, c, fd) ==
  /\ l \in Loops /\ c \in Clients /\ fd \in FreeFds /\ fd \in Fds /\ l = NextLoop
  /\ c \notin Accepted /\ c \notin refused /\ c \notin Range(backlog')
  /\ Accepted' = Accepted \cup {c}
  /\ \A d \in Accepted : conn'[d] = conn[d]
  /\ conn'[c] = [name |-> connId, fd |-> fd, loop |-> l]
  /\ connId \notin DOMAIN connection
  /\ connection' = [n \in DOMAIN connection' |-> connection'[n]]
  /\ DOMAIN connection' = DOMAIN connection \cup {connId}
  /\ \A n \in DOMAIN connection : connection'[n] = connection[n]
  /\ connection'[connId] = c
  /\ Range(connection') = Range(connection) \cup {c}
  /\ connId' = connId + 1
  /\ next' = IF nums = 0 THEN next ELSE Wrapped(next + 1)
  /\ refused' = refused
  /\ IF l = 0
       THEN /\ state' = [state EXCEPT ![c] = "Connected"]
            /\ channels' = [channels EXCEPT ![0] = Put(channels[0], fd, c)]
            /\ epoll' = [epoll EXCEPT ![0] = epoll[0] \cup {c}]
            /\ index' = [index EXCEPT ![c] = "Add"]
            /\ UNCHANGED pending
       ELSE Queue(l, "connectEstablished", c) /\ UNCHANGED <<state, pollerVars>>

Rejected(c) ==
  /\ c \in Clients /\ refused' = refused \cup {c}
  /\ c \notin Accepted /\ c \notin Range(backlog')
  /\ UNCHANGED <<connId, next, conn, connection, state, pollerVars, pending>>

\* What newConnection does.
LEMMA TakenEffect ==
  ASSUME Inv, NEW c \in Clients, NEW fd \in FreeFds, NewConnection(c, fd),
         c \notin Accepted, c \notin refused, c \notin Range(backlog'), refused' = refused
  PROVE  \E l \in Loops : Taken(l, c, fd)
<1>1. PICK l \in Loops : l = NextLoop
  BY NextLoopType
<1>2. PICK e : e = [name |-> connId, fd |-> fd, loop |-> l]
  OBVIOUS
<1>3. conn' = [z \in DOMAIN conn \cup {c} |-> IF z = c THEN e ELSE conn[z]]
  BY <1>1, <1>2 DEF NewConnection, Put
<1>4. /\ DOMAIN conn' = DOMAIN conn \cup {c} /\ conn'[c] = e
      /\ \A d \in Accepted : conn'[d] = conn[d]
  BY <1>3 DEF Accepted
<1>5. connId \notin DOMAIN connection
  <2>1. \A n \in DOMAIN connection : connection[n] \in Accepted /\ conn[connection[n]].name = n
    BY DEF Inv, Named
  <2>2. \A d \in Accepted : conn[d].name < connId /\ conn[d].name \in Nat /\ connId \in Nat
    BY DEF Inv, Named, TypeOK
  <2>3. QED
    BY <2>1, <2>2
<1>6. connection' = [z \in DOMAIN connection \cup {connId} |->
                       IF z = connId THEN c ELSE connection[z]]
  BY DEF NewConnection, Put
<1>7. /\ connection' = [n \in DOMAIN connection' |-> connection'[n]]
      /\ DOMAIN connection' = DOMAIN connection \cup {connId}
      /\ \A n \in DOMAIN connection : connection'[n] = connection[n]
      /\ connection'[connId] = c
  <2>1. DOMAIN connection' = DOMAIN connection \cup {connId}
    BY <1>6
  <2>2. \A n \in DOMAIN connection' :
          connection'[n] = IF n = connId THEN c ELSE connection[n]
    BY <1>6
  <2>3. connection' = [n \in DOMAIN connection' |-> connection'[n]]
    BY <1>6
  <2>4. QED
    BY <1>5, <2>1, <2>2, <2>3
<1>8. Range(connection') = Range(connection) \cup {c}
  BY <1>7 DEF Range
<1>9. fd \in Fds
  BY DEF FreeFds
<1>10. /\ connId' = connId + 1
       /\ next' = IF nums = 0 THEN next ELSE Wrapped(next + 1)
       /\ IF l = 0
            THEN /\ state' = [state EXCEPT ![c] = "Connected"]
                 /\ channels' = [channels EXCEPT ![0] = Put(channels[0], fd, c)]
                 /\ epoll' = [epoll EXCEPT ![0] = epoll[0] \cup {c}]
                 /\ index' = [index EXCEPT ![c] = "Add"]
                 /\ UNCHANGED pending
            ELSE Queue(l, "connectEstablished", c) /\ UNCHANGED <<state, pollerVars>>
  BY <1>1 DEF NewConnection, NextId
<1>11. Taken(l, c, fd)
  BY <1>1, <1>2, <1>4, <1>5, <1>7, <1>8, <1>9, <1>10 DEF Taken, Accepted
<1>12. QED
  BY <1>11

\* The acceptor refuses a client or takes it.
LEMMA AcceptCases ==
  ASSUME Inv, AcceptorHandleRead
  PROVE  \E c \in Clients : \/ Rejected(c)
                            \/ \E l \in Loops : \E fd \in FreeFds : Taken(l, c, fd)
<1>1. PICK c : c = Head(backlog)
  OBVIOUS
<1>2. c \in Clients /\ c \notin refused \cup Accepted /\ c \notin Range(backlog')
  BY <1>1, AcceptEffect
<1>3. CASE FreeFds = {}
  <2>1. Rejected(c)
    BY <1>1, <1>2, <1>3 DEF AcceptorHandleRead, Rejected, Refuse
  <2>2. QED
    BY <1>2, <2>1
<1>4. CASE FreeFds # {}
  <2>1. PICK fd : fd = CHOOSE x \in FreeFds : TRUE
    OBVIOUS
  <2>2. fd \in FreeFds
    BY <1>4, <2>1
  <2>3. NewConnection(c, fd) /\ refused' = refused
    BY <1>1, <1>4, <2>1 DEF AcceptorHandleRead
  <2>4. \E l \in Loops : Taken(l, c, fd)
    BY <1>2, <2>2, <2>3, TakenEffect
  <2>5. QED
    BY <1>2, <2>2, <2>4
<1>5. QED
  BY <1>3, <1>4

\* The rest of the state, and the queues.
LEMMA AcceptFrame ==
  ASSUME Inv, AcceptorHandleRead
  PROVE  /\ UNCHANGED <<nums, listening, peerClosed, closeVars, pc, batch, ran, held>>
         /\ active' = [active EXCEPT ![0] = @ \ {Acceptor}]
         /\ pc[0] = "events" /\ Acceptor \in active[0]
BY DEF AcceptorHandleRead

\* The acceptor keeps the types.
LEMMA AcceptType ==
  ASSUME Inv, AcceptorHandleRead
  PROVE  TypeInv'
<1>1. /\ UNCHANGED <<nums, listening, peerClosed, closeVars, pc, batch, ran, held>>
      /\ active' = [active EXCEPT ![0] = @ \ {Acceptor}] /\ pc[0] = "events"
  BY AcceptFrame
<1>2. backlog' \in Seq(Clients)
  BY AcceptEffect
<1>3. Queues
  BY QueuesType DEF Inv
<1>4. PICK c \in Clients : \/ Rejected(c)
                           \/ \E l \in Loops : \E fd \in FreeFds : Taken(l, c, fd)
  BY AcceptCases
<1>5. /\ active' \in [Loops -> SUBSET (Accepted \cup {Acceptor})]
      /\ \A k \in Loops : /\ pc'[k] # "functors" => batch'[k] = <<>> /\ ran'[k] = <<>>
                          /\ pc'[k] # "events" => active'[k] = {}
  BY <1>1 DEF Inv, TypeOK, Shape
<1>6. CASE Rejected(c)
  BY <1>1, <1>2, <1>5, <1>6
     DEF Rejected, TypeInv, Inv, TypeOK, Shape, closeVars, pollerVars, Accepted
<1>7. ASSUME NEW l \in Loops, NEW fd \in FreeFds, Taken(l, c, fd)
      PROVE  TypeInv'
  <2>1. Accepted' = Accepted \cup {c} /\ refused' = refused
    BY <1>7 DEF Taken
  <2>2. \A d \in Accepted' : conn'[d] \in [name : Nat, fd : Fds, loop : Loops]
    <3>1. [name |-> connId, fd |-> fd, loop |-> l] \in [name : Nat, fd : Fds, loop : Loops]
      BY <1>7 DEF Taken, Inv, TypeOK
    <3>2. QED
      BY <1>7, <3>1 DEF Taken, Inv, TypeOK
  <2>3. /\ Range(connection') \subseteq Accepted'
        /\ connection' = [n \in DOMAIN connection' |-> connection'[n]]
    BY <1>7 DEF Taken, Inv, TypeOK
  <2>4. next' \in Loops /\ connId' \in Nat
    <3>1. nums \in 0 .. MaxLoops /\ next \in 0 .. MaxLoops /\ connId \in Nat
      BY DEF Inv, TypeOK, Loops
    <3>2. QED
      BY <1>7, <3>1, MaxAssumption DEF Taken, Wrapped, Loops
  <2>5. /\ Queues'
        /\ state' \in [Clients -> {"Connecting", "Connected", "Disconnected"}]
        /\ index' \in [Clients -> {"New", "Add", "Deleted"}]
        /\ \A k \in Loops : DOMAIN channels'[k] \subseteq Fds
        /\ channels' = [k \in Loops |-> channels'[k]]
        /\ epoll' \in [Loops -> SUBSET Accepted']
    <3>1. CASE l = 0
      <4>1. PICK m : m = Put(channels[0], fd, c)
        OBVIOUS
      <4>2. DOMAIN m \subseteq Fds
        BY <1>7, <3>1, <4>1 DEF Put, Inv, TypeOK, Taken
      <4>3. /\ state' = [state EXCEPT ![c] = "Connected"]
            /\ channels' = [channels EXCEPT ![0] = m]
            /\ index' = [index EXCEPT ![c] = "Add"]
            /\ epoll' = [epoll EXCEPT ![0] = epoll[0] \cup {c}]
            /\ UNCHANGED <<pending, batch>>
        BY <1>1, <1>7, <3>1, <4>1 DEF Taken
      <4>4. Queues'
        BY <1>3, <4>3 DEF Queues
      <4>5. QED
        BY <2>1, <3>1, <4>2, <4>3, <4>4 DEF Inv, TypeOK, Shape
    <3>2. CASE l # 0
      <4>1. Queue(l, "connectEstablished", c) /\ UNCHANGED <<state, pollerVars>>
        BY <1>7, <3>2 DEF Taken
      <4>2. Queues'
        BY <1>1, <1>3, <4>1, QueueEffect DEF Op
      <4>3. QED
        BY <2>1, <4>1, <4>2 DEF Inv, TypeOK, Shape, pollerVars
    <3>3. QED
      BY <3>1, <3>2
  <2>6. /\ refused' \subseteq Clients /\ peerClosed' \subseteq Clients
        /\ Accepted' \subseteq Clients /\ noticed' \subseteq Accepted' /\ repeats' \in Nat
        /\ held' \subseteq Accepted' /\ nums' \in Loops /\ listening' \in BOOLEAN
        /\ pc' \in [Loops -> {"poll", "events", "functors"}]
        /\ ran' \in [Loops -> Seq(Functor)]
        /\ active' \in [Loops -> SUBSET (Accepted' \cup {Acceptor})]
    BY <1>1, <1>5, <2>1 DEF Inv, TypeOK, closeVars
  <2>7. TypeOK'
    BY <1>2, <2>2, <2>3, <2>4, <2>5, <2>6 DEF TypeOK, Queues
  <2>8. Shape'
    BY <1>5, <2>3, <2>5 DEF Shape
  <2>9. QED
    BY <2>7, <2>8 DEF TypeInv
<1>8. QED
  BY <1>4, <1>6, <1>7

\* Every step keeps the types.
LEMMA TypeStep ==
  ASSUME Inv, [Next]_vars
  PROVE  TypeInv'
<1>1. CASE UNCHANGED vars
  BY <1>1 DEF vars, Inv, TypeInv, TypeOK, Shape, poolVars, acceptVars, pollerVars,
     closeVars, loopVars, Accepted
<1>2. ASSUME NEW l \in Loops, LoopStep(l)
      PROVE  TypeInv'
  BY <1>2, EasyType, RunType, CloseType, AcceptType DEF LoopStep
<1>3. ASSUME NEW c \in Clients, Connect(c) \/ PeerClose(c) \/ Hold(c) \/ Send(c) \/ Drop(c)
      PROVE  TypeInv'
  BY <1>3, EasyType, SendType
<1>4. QED
  BY <1>1, <1>2, <1>3, EasyType DEF Next

-----------------------------------------------------------------------------
(* The connections and their channels. *)

\* Neither a connection nor its channel is touched.
Aside == UNCHANGED <<nums, next, refused, connId, conn, connection, pollerVars, closeVars>>

\* The steps, by what they do to the connections.
LEMMA StepKinds ==
  ASSUME [Next]_vars
  PROVE  \/ AcceptorHandleRead
         \/ \E l \in Loops, c \in Clients : HandleClose(l, c)
         \/ \E l \in Loops : RunFunctor(l)
         \/ Aside
<1> USE DEF Aside, poolVars, acceptVars
<1>1. CASE UNCHANGED vars
  BY <1>1 DEF vars
<1>2. CASE Start
  BY <1>2 DEF Start
<1>3. ASSUME NEW l \in Loops, Poll(l) \/ StartFunctors(l) \/ FinishFunctors(l)
      PROVE  Aside
  BY <1>3 DEF Poll, StartFunctors, FinishFunctors
<1>4. ASSUME NEW c \in Clients, Connect(c) \/ PeerClose(c) \/ Hold(c) \/ Send(c) \/ Drop(c)
      PROVE  Aside
  BY <1>4 DEF Connect, PeerClose, Hold, Send, Drop
<1>5. QED
  BY <1>1, <1>2, <1>3, <1>4 DEF Next, LoopStep

\* What RunFunctor does to the connections, functor by functor.
LEMMA RunCases ==
  ASSUME Inv, NEW l \in Loops, RunFunctor(l)
  PROVE  \E c \in Clients :
           /\ c \in Accepted
           /\ \/ Added(l, c) /\ Head(batch[l]) = Task("connectEstablished", c)
              \/ Removed(l, c) /\ Head(batch[l]) = Task("connectDestroyed", c)
              \/ /\ DestroyConnectionInLoop(c) /\ c \in noticed
                 /\ Head(batch[l]) = Task("destroyConnectionInLoop", c)
                 /\ UNCHANGED <<state, pollerVars>>
              \/ /\ Head(batch[l]) = Task("sendInLoop", c)
                 /\ UNCHANGED <<connection, state, pollerVars, pending>>
<1>1. PICK f : f = Head(batch[l])
  OBVIOUS
<1>2. /\ f.c \in Clients /\ f.c \in Accepted /\ f.op \in Op
      /\ f = Task(f.op, f.c) /\ f \in Todo(l)
  BY <1>1, RunEffect
<1>3. PICK c \in Clients : c = f.c
  BY <1>2
<1>4. CASE f.op = "connectEstablished"
  <2>1. Added(l, c)
    BY <1>1, <1>3, <1>4, EstablishedEffect
  <2>2. QED
    BY <1>1, <1>2, <1>3, <1>4, <2>1
<1>5. CASE f.op = "connectDestroyed"
  <2>1. Removed(l, c)
    BY <1>1, <1>3, <1>5, DestroyedEffect
  <2>2. QED
    BY <1>1, <1>2, <1>3, <1>5, <2>1
<1>6. CASE f.op = "destroyConnectionInLoop"
  <2>1. c \in noticed /\ DestroyConnectionInLoop(c)
        /\ UNCHANGED <<state, pollerVars>>
    BY <1>1, <1>3, <1>6, DestroyEffect
  <2>2. QED
    BY <1>1, <1>2, <1>3, <1>6, <2>1
<1>7. CASE f.op = "sendInLoop"
  <2>1. UNCHANGED <<connection, state, pollerVars, pending>>
    BY <1>1, <1>7 DEF RunFunctor
  <2>2. QED
    BY <1>1, <1>2, <1>3, <1>7, <2>1
<1>8. QED
  BY <1>2, <1>4, <1>5, <1>6, <1>7 DEF Op

\* Every step keeps next_ an index of loops_.
LEMMA TurnStep ==
  ASSUME Inv, [Next]_vars
  PROVE  Turn'
<1>1. CASE Aside
  BY <1>1 DEF Aside, Inv, Turn
<1>2. CASE AcceptorHandleRead
  <2>1. nums' = nums
    BY <1>2 DEF AcceptorHandleRead
  <2>2. \/ next' = next
        \/ next' = IF nums = 0 THEN next ELSE Wrapped(next + 1)
    BY <1>2, AcceptCases DEF Rejected, Taken
  <2>3. nums \in Nat /\ next \in Nat
    BY BaseLoop DEF Inv, TypeOK
  <2>4. QED
    BY <2>1, <2>2, <2>3 DEF Inv, Turn, Wrapped
<1>3. ASSUME NEW l \in Loops, NEW c \in Clients, HandleClose(l, c)
      PROVE  Turn'
  BY <1>3 DEF HandleClose, poolVars, Inv, Turn
<1>4. ASSUME NEW l \in Loops, RunFunctor(l)
      PROVE  Turn'
  BY <1>4 DEF RunFunctor, poolVars, Inv, Turn
<1>5. QED
  BY <1>1, <1>2, <1>3, <1>4, StepKinds

\* Every step keeps a channel with the poller of its own loop or with none.
LEMMA RegisteredStep ==
  ASSUME Inv, TypeInv', [Next]_vars
  PROVE  Registered'
<1> USE DEF Inv, Registered
<1>1. CASE Aside
  BY <1>1 DEF Aside, pollerVars, Accepted
<1>2. CASE AcceptorHandleRead
  <2>1. PICK c \in Clients : \/ Rejected(c)
                             \/ \E l \in Loops : \E fd \in FreeFds : Taken(l, c, fd)
    BY <1>2, AcceptCases
  <2>2. CASE Rejected(c)
    BY <2>2 DEF Rejected, pollerVars, Accepted
  <2>3. ASSUME NEW l \in Loops, NEW fd \in FreeFds, Taken(l, c, fd)
        PROVE  Registered'
    <3>1. /\ Accepted' = Accepted \cup {c} /\ c \notin Accepted
          /\ \A d \in Accepted : conn'[d] = conn[d]
          /\ conn'[c].fd = fd /\ conn'[c].loop = l
      BY <2>3 DEF Taken
    <3>2. \A k \in Loops : c \notin epoll[k]
      BY <3>1
    <3>3. CASE l # 0
      BY <2>3, <3>1, <3>3 DEF Taken, pollerVars
    <3>4. CASE l = 0
      <4>1. PICK m : m = Put(channels[0], fd, c)
        OBVIOUS
      <4>2. /\ channels' = [channels EXCEPT ![0] = m]
            /\ index' = [index EXCEPT ![c] = "Add"]
            /\ epoll' = [epoll EXCEPT ![0] = epoll[0] \cup {c}]
        BY <2>3, <3>4, <4>1 DEF Taken
      <4>3. /\ DOMAIN m = DOMAIN channels[0] \cup {fd} /\ m[fd] = c
            /\ \A x \in DOMAIN m : x # fd => x \in DOMAIN channels[0] /\ m[x] = channels[0][x]
        BY <4>1 DEF Put
      <4>4. /\ epoll'[0] = epoll[0] \cup {c} /\ channels'[0] = m
            /\ \A k \in Loops : k # 0 => epoll'[k] = epoll[k] /\ channels'[k] = channels[k]
            /\ index'[c] = "Add" /\ \A d \in Clients : d # c => index'[d] = index[d]
        BY <4>2, BaseLoop DEF TypeOK, Shape
      <4>5. ASSUME NEW k \in Loops, NEW d \in epoll'[k]
            PROVE  d \in Accepted' /\ conn'[d].loop = k /\ index'[d] = "Add"
        <5>1. CASE d = c
          <6>1. k = 0
            BY <3>2, <4>4, <5>1
          <6>2. QED
            BY <3>1, <3>4, <4>4, <5>1, <6>1
        <5>2. CASE d # c
          <6>1. d \in epoll[k]
            BY <4>4, <5>2
          <6>2. d \in Accepted /\ conn[d].loop = k /\ index[d] = "Add" /\ d \in Clients
            BY <6>1 DEF TypeOK
          <6>3. QED
            BY <3>1, <4>4, <5>2, <6>2
        <5>3. QED
          BY <5>1, <5>2
      <4>6. ASSUME NEW d \in Clients, index'[d] # "New"
            PROVE  index'[d] = "Add" /\ d \in Accepted' /\ d \in epoll'[conn'[d].loop]
        <5>1. CASE d = c
          BY <3>1, <3>4, <4>4, <5>1
        <5>2. CASE d # c
          <6>1. index'[d] = index[d]
            BY <4>4, <5>2
          <6>2. index[d] = "Add" /\ d \in Accepted /\ d \in epoll[conn[d].loop]
            BY <4>6, <6>1
          <6>3. conn'[d] = conn[d] /\ d \in Accepted'
            BY <3>1, <6>2
          <6>4. conn[d].loop \in Loops
            BY <6>2 DEF TypeOK
          <6>5. d \in epoll'[conn[d].loop]
            BY <4>4, <6>2, <6>4
          <6>6. QED
            BY <6>1, <6>2, <6>3, <6>5
        <5>3. QED
          BY <5>1, <5>2
      <4>7. ASSUME NEW k \in Loops, NEW x \in DOMAIN channels'[k]
            PROVE  channels'[k][x] \in epoll'[k] /\ conn'[channels'[k][x]].fd = x
        <5>1. CASE k = 0 /\ x = fd
          BY <3>1, <4>3, <4>4, <5>1
        <5>2. CASE ~(k = 0 /\ x = fd)
          <6>1. x \in DOMAIN channels[k] /\ channels'[k][x] = channels[k][x]
            BY <4>3, <4>4, <4>7, <5>2
          <6>2. channels[k][x] \in epoll[k] /\ conn[channels[k][x]].fd = x
            BY <6>1
          <6>3. channels[k][x] \in Accepted
            BY <6>2
          <6>4. QED
            BY <3>1, <4>4, <6>1, <6>2, <6>3
        <5>3. QED
          BY <5>1, <5>2
      <4>8. QED
        BY <4>5, <4>6, <4>7
    <3>5. QED
      BY <3>3, <3>4
  <2>4. QED
    BY <2>1, <2>2, <2>3
<1>3. ASSUME NEW l \in Loops, NEW c \in Clients, HandleClose(l, c)
      PROVE  Registered'
  <2>1. UNCHANGED <<conn, pollerVars>>
    BY <1>3, CloseEffect DEF HandleClose, acceptVars
  <2>2. QED
    BY <2>1 DEF pollerVars, Accepted
<1>4. ASSUME NEW l \in Loops, RunFunctor(l)
      PROVE  Registered'
  <2>1. conn' = conn /\ Accepted' = Accepted
    BY <1>4 DEF RunFunctor, acceptVars, Accepted
  <2>2. PICK c \in Clients : c \in Accepted /\ (Added(l, c) \/ Removed(l, c) \/ UNCHANGED pollerVars)
    BY <1>4, RunCases
  <2>3. CASE UNCHANGED pollerVars
    BY <2>1, <2>3 DEF pollerVars
  <2>4. CASE Added(l, c)
    <3>1. PICK fd : fd = conn[c].fd
      OBVIOUS
    <3>2. PICK m : m = Put(channels[l], fd, c)
      OBVIOUS
    <3>3. /\ channels' = [channels EXCEPT ![l] = m]
          /\ index' = [index EXCEPT ![c] = "Add"]
          /\ epoll' = [epoll EXCEPT ![l] = epoll[l] \cup {c}]
          /\ conn[c].loop = l
      BY <2>4, <3>1, <3>2 DEF Added
    <3>4. /\ DOMAIN m = DOMAIN channels[l] \cup {fd} /\ m[fd] = c
          /\ \A x \in DOMAIN m : x # fd => x \in DOMAIN channels[l] /\ m[x] = channels[l][x]
      BY <3>2 DEF Put
    <3>5. /\ epoll'[l] = epoll[l] \cup {c} /\ channels'[l] = m
          /\ \A k \in Loops : k # l => epoll'[k] = epoll[k] /\ channels'[k] = channels[k]
          /\ index'[c] = "Add" /\ \A d \in Clients : d # c => index'[d] = index[d]
      BY <3>3 DEF TypeOK, Shape
    <3>6. \A k \in Loops : \A d \in epoll'[k] :
            d \in Accepted' /\ conn'[d].loop = k /\ index'[d] = "Add"
      BY <2>1, <2>2, <3>3, <3>5 DEF TypeOK
    <3>7. \A d \in Clients : index'[d] # "New" =>
            index'[d] = "Add" /\ d \in Accepted' /\ d \in epoll'[conn'[d].loop]
      BY <2>1, <2>2, <3>3, <3>5 DEF TypeOK
    <3>8. ASSUME NEW k \in Loops, NEW x \in DOMAIN channels'[k]
          PROVE  channels'[k][x] \in epoll'[k] /\ conn'[channels'[k][x]].fd = x
      <4>1. CASE k = l /\ x = fd
        BY <2>1, <3>1, <3>4, <3>5, <4>1
      <4>2. CASE ~(k = l /\ x = fd)
        <5>1. x \in DOMAIN channels[k] /\ channels'[k][x] = channels[k][x]
          BY <3>4, <3>5, <3>8, <4>2
        <5>2. channels[k][x] \in epoll[k] /\ conn[channels[k][x]].fd = x
          BY <5>1
        <5>3. QED
          BY <2>1, <3>5, <5>1, <5>2
      <4>3. QED
        BY <4>1, <4>2
    <3>9. QED
      BY <3>6, <3>7, <3>8
  <2>5. CASE Removed(l, c)
    <3>1. PICK fd : fd = conn[c].fd
      OBVIOUS
    <3>2. PICK m : m = Restrict_(channels[l], DOMAIN channels[l] \ {fd})
      OBVIOUS
    <3>3. /\ channels' = [channels EXCEPT ![l] = m]
          /\ index' = [index EXCEPT ![c] = "New"]
          /\ epoll' = [epoll EXCEPT ![l] = epoll[l] \ {c}]
          /\ conn[c].loop = l
      BY <2>5, <3>1, <3>2 DEF Removed
    <3>4. \A x \in DOMAIN m : x # fd /\ x \in DOMAIN channels[l] /\ m[x] = channels[l][x]
      BY <3>2 DEF Restrict_
    <3>5. /\ epoll'[l] = epoll[l] \ {c} /\ channels'[l] = m
          /\ \A k \in Loops : k # l => epoll'[k] = epoll[k] /\ channels'[k] = channels[k]
          /\ index'[c] = "New" /\ \A d \in Clients : d # c => index'[d] = index[d]
      BY <3>3 DEF TypeOK, Shape
    <3>6. \A k \in Loops : \A d \in epoll'[k] :
            d \in Accepted' /\ conn'[d].loop = k /\ index'[d] = "Add"
      BY <2>1, <2>2, <3>3, <3>5 DEF TypeOK
    <3>7. \A d \in Clients : index'[d] # "New" =>
            index'[d] = "Add" /\ d \in Accepted' /\ d \in epoll'[conn'[d].loop]
      BY <2>1, <2>2, <3>3, <3>5 DEF TypeOK
    <3>8. ASSUME NEW k \in Loops, NEW x \in DOMAIN channels'[k]
          PROVE  channels'[k][x] \in epoll'[k] /\ conn'[channels'[k][x]].fd = x
      <4>1. /\ x \in DOMAIN channels[k] /\ channels'[k][x] = channels[k][x]
            /\ k = l => x # fd
        BY <3>4, <3>5, <3>8
      <4>2. channels[k][x] \in epoll[k] /\ conn[channels[k][x]].fd = x
        BY <4>1
      <4>3. k = l => channels[k][x] # c
        BY <3>1, <4>1, <4>2
      <4>4. QED
        BY <2>1, <3>5, <4>1, <4>2, <4>3
    <3>9. QED
      BY <3>6, <3>7, <3>8
  <2>6. QED
    BY <2>2, <2>3, <2>4, <2>5
<1>5. QED
  BY <1>1, <1>2, <1>3, <1>4, StepKinds

\* Only the connection that closes is taken out of connection_.
LEMMA EraseKeeps ==
  ASSUME Inv, NEW c \in Clients, c \in Accepted, DestroyConnectionInLoop(c)
  PROVE  \A d \in Range(connection) : d # c => d \in Range(connection')
<1> SUFFICES ASSUME NEW d \in Range(connection), d # c
             PROVE  d \in Range(connection')
  OBVIOUS
<1>1. PICK n \in DOMAIN connection : connection[n] = d
  BY DEF Range
<1>2. d \in Accepted /\ conn[d].name = n
  BY <1>1 DEF Inv, Named
<1>3. n # conn[c].name
  BY <1>2 DEF Inv, Named
<1>4. n \in DOMAIN connection' /\ connection'[n] = d
  BY <1>1, <1>3, EraseEffect
<1>5. QED
  BY <1>4 DEF Range

\* Every step keeps the names of the map.
LEMMA NamedStep ==
  ASSUME Inv, TypeInv', [Next]_vars
  PROVE  Named'
<1>1. CASE Aside
  BY <1>1 DEF Aside, Inv, Named, closeVars, Accepted
<1>2. CASE AcceptorHandleRead
  <2>1. PICK c \in Clients : \/ Rejected(c)
                             \/ \E l \in Loops : \E fd \in FreeFds : Taken(l, c, fd)
    BY <1>2, AcceptCases
  <2>2. noticed' = noticed /\ noticed \subseteq Accepted
    BY <1>2, AcceptFrame DEF closeVars, Inv, TypeOK
  <2>3. CASE Rejected(c)
    BY <2>2, <2>3 DEF Rejected, Inv, Named, Accepted
  <2>4. ASSUME NEW l \in Loops, NEW fd \in FreeFds, Taken(l, c, fd)
        PROVE  Named'
    <3>1. /\ Accepted' = Accepted \cup {c} /\ c \notin Accepted
          /\ \A d \in Accepted : conn'[d] = conn[d]
          /\ conn'[c].name = connId /\ connId' = connId + 1
      BY <2>4 DEF Taken
    <3>2. /\ \A d \in Accepted : conn'[d].name < connId /\ conn'[d].name \in Nat
          /\ connId \in Nat
      BY <3>1 DEF Inv, Named, TypeOK
    <3>3. ASSUME NEW d \in Accepted'
          PROVE  conn'[d].name < connId'
      BY <3>1, <3>2, <3>3
    <3>4. ASSUME NEW d \in Accepted', NEW e \in Accepted', conn'[d].name = conn'[e].name
          PROVE  d = e
      <4>1. CASE d = c \/ e = c
        BY <3>1, <3>2, <3>4, <4>1
      <4>2. CASE d # c /\ e # c
        BY <3>1, <3>4, <4>2 DEF Inv, Named
      <4>3. QED
        BY <4>1, <4>2
    <3>5. ASSUME NEW n \in DOMAIN connection'
          PROVE  connection'[n] \in Accepted' /\ conn'[connection'[n]].name = n
      <4>1. CASE n = connId
        BY <2>4, <3>1, <4>1 DEF Taken
      <4>2. CASE n # connId
        <5>1. n \in DOMAIN connection /\ connection'[n] = connection[n]
          BY <2>4, <4>2 DEF Taken
        <5>2. connection[n] \in Accepted /\ conn[connection[n]].name = n
          BY <5>1 DEF Inv, Named
        <5>3. QED
          BY <3>1, <5>1, <5>2
      <4>3. QED
        BY <4>1, <4>2
    <3>6. ASSUME NEW d \in Accepted', d \notin noticed'
          PROVE  d \in Range(connection')
      <4>1. Range(connection') = Range(connection) \cup {c}
        BY <2>4 DEF Taken
      <4>2. QED
        BY <2>2, <3>1, <3>6, <4>1 DEF Inv, Named
    <3>7. QED
      BY <3>3, <3>4, <3>5, <3>6 DEF Named
  <2>5. QED
    BY <2>1, <2>3, <2>4
<1>3. ASSUME NEW c \in Clients, c \in Accepted, UNCHANGED <<conn, connId>>,
             noticed' = noticed \cup {c},
             DestroyConnectionInLoop(c) \/ UNCHANGED connection
      PROVE  Named'
  <2>1. Accepted' = Accepted
    BY <1>3 DEF Accepted
  <2>2. \A n \in DOMAIN connection' : n \in DOMAIN connection /\ connection'[n] = connection[n]
    BY <1>3, EraseEffect
  <2>3. \A d \in Accepted : d \notin noticed' => d \in Range(connection')
    BY <1>3, EraseKeeps DEF Inv, Named
  <2>4. QED
    BY <1>3, <2>1, <2>2, <2>3 DEF Inv, Named
<1>4. ASSUME NEW l \in Loops, NEW c \in Clients, HandleClose(l, c)
      PROVE  Named'
  <2>1. c \in Accepted
    BY <1>4, CloseEffect
  <2>2. UNCHANGED <<conn, connId>> /\ noticed' = noticed \cup {c}
    BY <1>4 DEF HandleClose, acceptVars
  <2>3. DestroyConnectionInLoop(c) \/ UNCHANGED connection
    BY <1>4 DEF HandleClose
  <2>4. QED
    BY <1>3, <2>1, <2>2, <2>3
<1>5. ASSUME NEW l \in Loops, RunFunctor(l)
      PROVE  Named'
  <2>1. UNCHANGED <<conn, connId, noticed>>
    BY <1>5 DEF RunFunctor, acceptVars, closeVars
  <2>2. CASE UNCHANGED connection
    BY <2>1, <2>2 DEF Inv, Named, Accepted
  <2>3. ASSUME NEW c \in Clients, c \in Accepted, c \in noticed, DestroyConnectionInLoop(c)
        PROVE  Named'
    <3>1. noticed' = noticed \cup {c}
      BY <2>1, <2>3
    <3>2. QED
      BY <1>3, <2>1, <2>3, <3>1
  <2>4. QED
    BY <1>5, <2>2, <2>3, RunCases DEF Added, Removed
<1>6. QED
  BY <1>1, <1>2, <1>4, <1>5, StepKinds

\* Nobody waits twice, and all of the backlog has yet to be accepted.
LEMMA BacklogUnique == Reported => \A e : Unique(backlog, e)
BY DEF Reported, Unique

\* Every step keeps what the poller reports there to be handled.
LEMMA ReportedStep ==
  ASSUME Inv, TypeInv', [Next]_vars
  PROVE  Reported'
<1> DEFINE Quiet == UNCHANGED <<backlog, refused, conn, active, epoll, peerClosed, noticed>>
<1>1. CASE Quiet
  BY <1>1 DEF Inv, Reported, Accepted
<1>2. CASE AcceptorHandleRead
  <2>1. /\ backlog' \in Seq(Clients) /\ Range(backlog') \subseteq Range(backlog)
        /\ \A e : Unique(backlog', e)
    <3>1. /\ backlog # <<>> /\ backlog' = Tail(backlog) /\ Tail(backlog) \in Seq(Clients)
          /\ Range(backlog) = Range(Tail(backlog)) \cup {Head(backlog)}
      BY <1>2, AcceptEffect
    <3>2. backlog \in Seq(Clients)
      BY DEF Inv, TypeOK
    <3>3. \A e : Unique(Tail(backlog), e)
      BY <3>1, <3>2, UniqueTail, BacklogUnique DEF Inv
    <3>4. QED
      BY <3>1, <3>3 DEF Unique
  <2>2. PICK c \in Clients : \/ Rejected(c)
                             \/ \E l \in Loops : \E fd \in FreeFds : Taken(l, c, fd)
    BY <1>2, AcceptCases
  <2>3. UNCHANGED <<peerClosed, noticed>> /\ active' = [active EXCEPT ![0] = @ \ {Acceptor}]
    BY <1>2, AcceptFrame DEF closeVars
  <2>4. /\ Accepted \subseteq Accepted'
        /\ \A k \in Loops : epoll[k] \subseteq epoll'[k]
        /\ Range(backlog') \cap (refused' \cup Accepted') = {}
    <3>1. CASE Rejected(c)
      BY <2>1, <3>1 DEF Rejected, pollerVars, Accepted, Inv, Reported
    <3>2. ASSUME NEW l \in Loops, NEW fd \in FreeFds, Taken(l, c, fd)
          PROVE  /\ Accepted \subseteq Accepted'
                 /\ \A k \in Loops : epoll[k] \subseteq epoll'[k]
                 /\ Range(backlog') \cap (refused' \cup Accepted') = {}
      <4>1. \A k \in Loops : epoll[k] \subseteq epoll'[k]
        <5>1. CASE epoll' = epoll
          BY <5>1
        <5>2. CASE epoll' = [epoll EXCEPT ![0] = epoll[0] \cup {c}]
          <6>1. DOMAIN epoll = Loops
            BY DEF Inv, TypeOK
          <6>2. QED
            BY <5>2, <6>1
        <5>3. QED
          BY <3>2, <5>1, <5>2 DEF Taken, pollerVars
      <4>2. /\ Accepted' = Accepted \cup {c} /\ refused' = refused /\ c \notin Range(backlog')
        BY <3>2 DEF Taken
      <4>3. QED
        BY <2>1, <4>1, <4>2 DEF Inv, Reported
    <3>3. QED
      BY <2>2, <3>1, <3>2
  <2>5. \A k \in Loops : active'[k] \subseteq active[k] /\ Acceptor \notin active'[k]
    BY <2>3 DEF Inv, TypeOK, Reported
  <2>6. \A i, j \in 1 .. Len(backlog') : backlog'[i] = backlog'[j] => i = j
    BY <2>1 DEF Unique
  <2>7. QED
    BY <2>3, <2>4, <2>5, <2>6 DEF Inv, Reported
<1>3. ASSUME NEW l \in Loops, NEW c \in Clients, HandleClose(l, c)
      PROVE  Reported'
  <2>1. c \in peerClosed /\ UNCHANGED epoll
    BY <1>3, CloseEffect DEF pollerVars
  <2>2. /\ UNCHANGED <<backlog, refused, conn, peerClosed>>
        /\ active' = [active EXCEPT ![l] = @ \ {c}] /\ noticed' = noticed \cup {c}
    BY <1>3 DEF HandleClose, acceptVars
  <2>3. \A k \in Loops : active'[k] \subseteq active[k]
    BY <2>2 DEF Inv, TypeOK
  <2>4. QED
    BY <2>1, <2>2, <2>3 DEF Inv, Reported, Accepted
<1>4. ASSUME NEW l \in Loops, RunFunctor(l)
      PROVE  Reported'
  <2>1. UNCHANGED <<backlog, refused, conn, active, peerClosed, noticed>> /\ active[l] = {}
    BY <1>4, RunEffect DEF acceptVars, closeVars
  <2>2. \A k \in Loops \ {l} : epoll'[k] = epoll[k]
    <3>1. PICK c \in Clients : Added(l, c) \/ Removed(l, c) \/ UNCHANGED pollerVars
      BY <1>4, RunCases
    <3>2. QED
      BY <3>1 DEF Added, Removed, pollerVars, Inv, TypeOK
  <2>3. QED
    BY <2>1, <2>2 DEF Inv, Reported, Accepted
<1>5. ASSUME NEW l \in Loops, Poll(l)
      PROVE  Reported'
  <2>1. /\ active' = [active EXCEPT ![l] = Readable(l)]
        /\ UNCHANGED <<backlog, refused, conn, epoll, peerClosed, noticed>>
    BY <1>5 DEF Poll, acceptVars, pollerVars, closeVars
  <2>2. /\ \A c \in Readable(l) : c = Acceptor \/ c \in epoll[l] \cap peerClosed
        /\ Acceptor \in Readable(l) => l = 0 /\ backlog # <<>>
    BY AcceptorAssumption DEF Readable, Inv, TypeOK
  <2>3. \A k \in Loops : active'[k] = IF k = l THEN Readable(l) ELSE active[k]
    BY <2>1 DEF Inv, TypeOK
  <2>4. QED
    BY <2>1, <2>2, <2>3 DEF Inv, Reported, Accepted
<1>6. ASSUME NEW c \in Clients, Connect(c)
      PROVE  Reported'
  <2>1. /\ c \notin Range(backlog) \cup refused \cup Accepted
        /\ backlog' = Append(backlog, c) /\ backlog \in Seq(Clients)
        /\ UNCHANGED <<refused, conn, active, epoll, peerClosed, noticed>>
    BY <1>6 DEF Connect, pollerVars, closeVars, loopVars, Inv, TypeOK
  <2>2. \A e : Unique(Append(backlog, c), e)
    BY <2>1, UniqueAppend, BacklogUnique DEF Inv
  <2>3. Range(backlog') = Range(backlog) \cup {c} /\ backlog' # <<>>
    BY <2>1, RangeOfAppend, AppendProperties
  <2>4. \A i, j \in 1 .. Len(backlog') : backlog'[i] = backlog'[j] => i = j
    BY <2>1, <2>2 DEF Unique
  <2>5. QED
    BY <2>1, <2>3, <2>4 DEF Inv, Reported, Accepted
<1>7. ASSUME NEW c \in Clients, PeerClose(c)
      PROVE  Reported'
  BY <1>7 DEF PeerClose, acceptVars, pollerVars, closeVars, loopVars, Inv, Reported, Accepted
<1>8. CASE Start
  BY <1>1, <1>8 DEF Start, acceptVars, pollerVars, closeVars, loopVars
<1>9. ASSUME NEW l \in Loops, StartFunctors(l) \/ FinishFunctors(l)
      PROVE  Reported'
  BY <1>1, <1>9 DEF StartFunctors, FinishFunctors, acceptVars, pollerVars, closeVars
<1>10. ASSUME NEW c \in Clients, Hold(c) \/ Send(c) \/ Drop(c)
       PROVE  Reported'
  BY <1>1, <1>10 DEF Hold, Send, Drop, acceptVars, pollerVars, closeVars, loopVars
<1>11. CASE UNCHANGED vars
  BY <1>1, <1>11 DEF vars, acceptVars, pollerVars, closeVars, loopVars
<1>12. QED
  BY <1>2, <1>3, <1>4, <1>5, <1>6, <1>7, <1>8, <1>9, <1>10, <1>11 DEF Next, LoopStep

\* When connectEstablished runs, the connection has no second one queued.
LEMMA EstablishedLast ==
  ASSUME Inv, NEW l \in Loops, NEW c \in Clients, batch[l] # <<>>,
         Head(batch[l]) = Task("connectEstablished", c),
         batch' = [batch EXCEPT ![l] = Tail(@)], pending' = pending
  PROVE  Task("connectEstablished", c) \notin Todo(l)'
<1>1. PICK e \in Functor : e = Task("connectEstablished", c)
  BY TaskType DEF Op
<1>2. Queues
  BY QueuesType DEF Inv
<1>3. PICK w \in Seq(Functor) : w = Waiting(l)
  BY <1>2, TodoType
<1>4. Queues' /\ w # <<>> /\ Head(w) = e /\ Waiting(l)' = Tail(w)
  BY <1>1, <1>2, <1>3, TakeEffect
<1>5. Unique(w, e)
  BY <1>1, <1>3 DEF Inv, EstablishedOnce
<1>6. e \notin Range(Tail(w))
  BY <1>4, <1>5, UniqueTail
<1>7. Todo(l)' = Range(Waiting(l)')
  <2>1. PICK b \in Seq(Functor), p \in Seq(Functor) : b = batch'[l] /\ p = pending'[l]
    BY <1>4 DEF Queues
  <2>2. Range(b \o p) = Range(b) \cup Range(p)
    BY RangeOfConcat
  <2>3. QED
    BY <2>1, <2>2 DEF Todo, Waiting
<1>8. QED
  BY <1>1, <1>4, <1>6, <1>7

\* Every step keeps each functor with the right loop at the right time.
LEMMA OrderedStep ==
  ASSUME Inv, TypeInv', [Next]_vars
  PROVE  Ordered'
<1>1. Queues
  BY QueuesType DEF Inv
<1> DEFINE Quiet == UNCHANGED <<pending, batch, conn, epoll, noticed>>
<1>2. CASE Quiet
  BY <1>2 DEF Inv, Ordered, Fits, Todo, Accepted
\* The functors stay, one is added and fits.
<1>3. ASSUME NEW k \in Loops, NEW e \in Functor, Fits(k, e)',
             \A m \in Loops : /\ Todo(m)' \subseteq Todo(m) \cup {e}
                              /\ m # k => Todo(m)' \subseteq Todo(m),
             \A m \in Loops : \A f \in Todo(m) : Fits(m, f) => Fits(m, f)'
      PROVE  Ordered'
  BY <1>3 DEF Inv, Ordered
\* They stay or grow fewer.
<1>4. ASSUME \A m \in Loops : Todo(m)' \subseteq Todo(m),
             \A m \in Loops : \A f \in Todo(m)' : Fits(m, f) => Fits(m, f)'
      PROVE  Ordered'
  BY <1>4 DEF Inv, Ordered
<1>5. CASE AcceptorHandleRead
  <2>1. PICK c \in Clients : \/ Rejected(c)
                             \/ \E l \in Loops : \E fd \in FreeFds : Taken(l, c, fd)
    BY <1>5, AcceptCases
  <2>2. UNCHANGED <<batch, noticed>> /\ noticed \subseteq Accepted
    BY <1>5, AcceptFrame DEF closeVars, Inv, TypeOK
  <2>3. CASE Rejected(c)
    BY <1>2, <2>2, <2>3 DEF Rejected, pollerVars
  <2>4. ASSUME NEW l \in Loops, NEW fd \in FreeFds, Taken(l, c, fd)
        PROVE  Ordered'
    <3>1. /\ Accepted' = Accepted \cup {c} /\ c \notin Accepted
          /\ \A d \in Accepted : conn'[d] = conn[d]
          /\ conn'[c].loop = l
      BY <2>4 DEF Taken
    <3>2. CASE l = 0
      <4>1. epoll' = [epoll EXCEPT ![0] = epoll[0] \cup {c}] /\ UNCHANGED <<pending, batch>>
        BY <2>2, <2>4, <3>2 DEF Taken
      <4>2. \A m \in Loops : Todo(m)' = Todo(m)
        BY <4>1 DEF Todo
      <4>3. \A m \in Loops : epoll'[m] \subseteq epoll[m] \cup {c}
        BY <4>1 DEF Inv, TypeOK
      <4>4. ASSUME NEW m \in Loops, NEW f \in Todo(m)', Fits(m, f)
            PROVE  Fits(m, f)'
        BY <2>2, <3>1, <4>3, <4>4 DEF Fits
      <4>5. QED
        BY <1>4, <4>2, <4>4
    <3>3. CASE l # 0
      <4>1. Queue(l, "connectEstablished", c) /\ UNCHANGED pollerVars
        BY <2>4, <3>3 DEF Taken
      <4>2. PICK e \in Functor : e = Task("connectEstablished", c)
        BY TaskType DEF Op
      <4>3. /\ \A k \in Loops \ {l} : pending'[k] = pending[k] /\ batch'[k] = batch[k]
            /\ Todo(l)' = Todo(l) \cup {e}
        BY <1>1, <2>2, <4>1, <4>2, QueueEffect DEF Op
      <4>4. \A m \in Loops : /\ Todo(m)' \subseteq Todo(m) \cup {e}
                             /\ m # l => Todo(m)' \subseteq Todo(m)
        BY <4>3 DEF Todo
      <4>5. Fits(l, e)'
        <5>1. e.c = c /\ e.op = "connectEstablished"
          BY <4>2 DEF Task
        <5>2. c \notin epoll'[l] /\ c \notin noticed'
          BY <2>2, <3>1, <4>1 DEF pollerVars, Inv, Registered
        <5>3. QED
          BY <3>1, <5>1, <5>2 DEF Fits
      <4>6. ASSUME NEW m \in Loops, NEW f \in Todo(m), Fits(m, f)
            PROVE  Fits(m, f)'
        BY <2>2, <3>1, <4>1, <4>6 DEF Fits, pollerVars
      <4>7. QED
        BY <1>3, <4>4, <4>5, <4>6
    <3>4. QED
      BY <3>2, <3>3
  <2>5. QED
    BY <2>1, <2>3, <2>4
<1>6. ASSUME NEW l \in Loops, NEW c \in Clients, HandleClose(l, c)
      PROVE  Ordered'
  <2>1. /\ c \in Accepted /\ conn[c].loop = l /\ c \in epoll[l] /\ UNCHANGED epoll
    BY <1>6, CloseEffect DEF pollerVars
  <2>2. UNCHANGED <<conn, batch>> /\ Accepted' = Accepted /\ noticed' = noticed \cup {c}
    BY <1>6 DEF HandleClose, acceptVars, Accepted
  <2>3. ASSUME NEW m \in Loops, NEW f \in Todo(m), Fits(m, f)
        PROVE  Fits(m, f)'
    BY <2>1, <2>2, <2>3 DEF Fits
  <2>4. ASSUME NEW k \in Loops, NEW op \in {"destroyConnectionInLoop", "connectDestroyed"},
               op = "connectDestroyed" => k = l, Queue(k, op, c)
        PROVE  Ordered'
    <3>1. PICK e \in Functor : e = Task(op, c)
      BY TaskType DEF Op
    <3>2. /\ \A m \in Loops \ {k} : pending'[m] = pending[m] /\ batch'[m] = batch[m]
          /\ Todo(k)' = Todo(k) \cup {e}
      BY <1>1, <2>2, <2>4, <3>1, QueueEffect DEF Op
    <3>3. \A m \in Loops : /\ Todo(m)' \subseteq Todo(m) \cup {e}
                           /\ m # k => Todo(m)' \subseteq Todo(m)
      BY <3>2 DEF Todo
    <3>4. Fits(k, e)'
      BY <2>1, <2>2, <2>4, <3>1 DEF Fits, Task
    <3>5. QED
      BY <1>3, <2>3, <3>3, <3>4
  <2>5. CASE l = 0
    <3>1. Queue(l, "connectDestroyed", c)
      BY <1>6, <2>1, <2>5 DEF HandleClose, DestroyConnectionInLoop
    <3>2. QED
      BY <2>4, <3>1
  <2>6. CASE l # 0
    <3>1. Queue(0, "destroyConnectionInLoop", c)
      BY <1>6, <2>6 DEF HandleClose
    <3>2. QED
      BY <2>4, <3>1, BaseLoop
  <2>7. QED
    BY <2>5, <2>6
<1>7. ASSUME NEW l \in Loops, RunFunctor(l)
      PROVE  Ordered'
  <2>1. UNCHANGED <<conn, noticed>> /\ Accepted' = Accepted
    BY <1>7 DEF RunFunctor, acceptVars, closeVars, Accepted
  <2>2. batch[l] # <<>> /\ batch' = [batch EXCEPT ![l] = Tail(@)]
    BY <1>7, RunEffect
  <2>3. ASSUME UNCHANGED pending
        PROVE  \A m \in Loops : Todo(m)' \subseteq Todo(m)
    <3>1. /\ \A k \in Loops \ {l} : batch'[k] = batch[k]
          /\ Todo(l) = Todo(l)' \cup {Head(batch[l])}
      BY <1>1, <2>2, <2>3, TakeEffect
    <3>2. QED
      BY <2>3, <3>1 DEF Todo
  <2>4. ASSUME NEW c \in Clients, Added(l, c),
               Head(batch[l]) = Task("connectEstablished", c)
        PROVE  Ordered'
    <3>1. epoll' = [epoll EXCEPT ![l] = epoll[l] \cup {c}] /\ UNCHANGED pending
          /\ conn[c].loop = l
      BY <2>4 DEF Added
    <3>2. Task("connectEstablished", c) \notin Todo(l)'
      BY <2>2, <2>4, <3>1, EstablishedLast
    <3>3. epoll'[l] = epoll[l] \cup {c} /\ \A m \in Loops \ {l} : epoll'[m] = epoll[m]
      BY <3>1 DEF Inv, TypeOK
    <3>4. ASSUME NEW m \in Loops, NEW f \in Todo(m)', Fits(m, f)
          PROVE  Fits(m, f)'
      <4>1. f \in Functor
        BY <1>1, <2>3, <3>1, <3>4, TodoType
      <4>2. m = l /\ f.op = "connectEstablished" => f.c # c
        BY <3>2, <3>4, <4>1 DEF Functor, Task
      <4>3. QED
        BY <2>1, <3>1, <3>3, <3>4, <4>2 DEF Fits
    <3>5. QED
      BY <1>4, <2>3, <3>1, <3>4
  <2>5. ASSUME NEW c \in Clients, Removed(l, c) \/ UNCHANGED <<epoll, pending>>
        PROVE  Ordered'
    <3>1. UNCHANGED pending /\ \A m \in Loops : epoll'[m] \subseteq epoll[m]
      <4>1. CASE epoll' = [epoll EXCEPT ![l] = epoll[l] \ {c}] /\ UNCHANGED pending
        <5>1. DOMAIN epoll = Loops
          BY DEF Inv, TypeOK
        <5>2. QED
          BY <4>1, <5>1
      <4>2. QED
        BY <2>5, <4>1 DEF Removed
    <3>2. ASSUME NEW m \in Loops, NEW f \in Todo(m)', Fits(m, f)
          PROVE  Fits(m, f)'
      BY <2>1, <3>1, <3>2 DEF Fits
    <3>3. QED
      BY <1>4, <2>3, <3>1, <3>2
  <2>6. ASSUME NEW c \in Clients, c \in Accepted, c \in noticed, DestroyConnectionInLoop(c),
               UNCHANGED epoll
        PROVE  Ordered'
    <3>1. PICK k \in Loops : k = conn[c].loop
      BY <2>6 DEF Inv, TypeOK
    <3>2. PICK e \in Functor : e = Task("connectDestroyed", c)
      BY TaskType DEF Op
    <3>3. pending' = [pending EXCEPT ![k] = Append(@, e)]
      BY <2>6, <3>1, <3>2 DEF DestroyConnectionInLoop, Queue, Task
    <3>4. \A m \in Loops : /\ Todo(m)' \subseteq Todo(m) \cup {e}
                           /\ m # k => Todo(m)' \subseteq Todo(m)
      BY <1>1, <2>2, <3>3, TakeAndQueueEffect
    <3>5. Fits(k, e)'
      BY <2>1, <2>6, <3>1, <3>2 DEF Fits, Task
    <3>6. ASSUME NEW m \in Loops, NEW f \in Todo(m), Fits(m, f)
          PROVE  Fits(m, f)'
      BY <2>1, <2>6, <3>6 DEF Fits
    <3>7. QED
      BY <1>3, <3>4, <3>5, <3>6
  <2>7. QED
    BY <1>7, <2>4, <2>5, <2>6, RunCases DEF pollerVars
<1>8. ASSUME NEW c \in Clients, Send(c)
      PROVE  Ordered'
  <2>1. PICK l \in Loops : l = conn[c].loop
    BY <1>8 DEF Send, Inv, TypeOK
  <2>2. /\ Queue(l, "sendInLoop", c) /\ c \in Accepted
        /\ UNCHANGED <<conn, epoll, noticed, batch>> /\ Accepted' = Accepted
    BY <1>8, <2>1 DEF Send, acceptVars, pollerVars, closeVars, loopVars, Inv, TypeOK, Accepted
  <2>3. PICK e \in Functor : e = Task("sendInLoop", c)
    BY TaskType DEF Op
  <2>4. /\ \A m \in Loops \ {l} : pending'[m] = pending[m] /\ batch'[m] = batch[m]
        /\ Todo(l)' = Todo(l) \cup {e}
    BY <1>1, <2>2, <2>3, QueueEffect DEF Op
  <2>5. \A m \in Loops : /\ Todo(m)' \subseteq Todo(m) \cup {e}
                         /\ m # l => Todo(m)' \subseteq Todo(m)
    BY <2>4 DEF Todo
  <2>6. Fits(l, e)'
    BY <2>1, <2>2, <2>3 DEF Fits, Task
  <2>7. ASSUME NEW m \in Loops, NEW f \in Todo(m), Fits(m, f)
        PROVE  Fits(m, f)'
    BY <2>2, <2>7 DEF Fits
  <2>8. QED
    BY <1>3, <2>5, <2>6, <2>7
<1>9. ASSUME NEW l \in Loops, StartFunctors(l)
      PROVE  Ordered'
  <2>1. /\ batch[l] = <<>>
        /\ batch' = [batch EXCEPT ![l] = pending[l]]
        /\ pending' = [pending EXCEPT ![l] = <<>>]
        /\ UNCHANGED <<conn, epoll, noticed>> /\ Accepted' = Accepted
    BY <1>9 DEF StartFunctors, acceptVars, pollerVars, closeVars, Accepted, Inv, Shape
  <2>2. \A m \in Loops : Todo(m)' \subseteq Todo(m)
    BY <1>1, <2>1, SwapEffect
  <2>3. ASSUME NEW m \in Loops, NEW f \in Todo(m)', Fits(m, f)
        PROVE  Fits(m, f)'
    BY <2>1, <2>3 DEF Fits
  <2>4. QED
    BY <1>4, <2>2, <2>3
<1>10. CASE Start \/ UNCHANGED vars
  BY <1>2, <1>10 DEF Start, vars, acceptVars, pollerVars, closeVars, loopVars
<1>11. ASSUME NEW l \in Loops, Poll(l) \/ FinishFunctors(l)
       PROVE  Ordered'
  BY <1>2, <1>11 DEF Poll, FinishFunctors, acceptVars, pollerVars, closeVars
<1>12. ASSUME NEW c \in Clients, Connect(c) \/ PeerClose(c) \/ Hold(c) \/ Drop(c)
       PROVE  Ordered'
  BY <1>2, <1>12 DEF Connect, PeerClose, Hold, Drop, acceptVars, pollerVars, closeVars,
     loopVars
<1>13. QED
  BY <1>5, <1>6, <1>7, <1>8, <1>9, <1>10, <1>11, <1>12 DEF Next, LoopStep

\* Every step keeps at most one connectEstablished queued for a connection.
LEMMA EstablishedOnceStep ==
  ASSUME Inv, [Next]_vars
  PROVE  EstablishedOnce'
<1>1. Queues
  BY QueuesType DEF Inv
<1>2. CASE UNCHANGED <<pending, batch>>
  BY <1>2 DEF Inv, EstablishedOnce, Waiting
\* A functor is queued; connectEstablished is for a new connection.
<1>3. ASSUME NEW k \in Loops, NEW op \in Op, NEW d \in Clients, Queue(k, op, d),
             batch' = batch, op = "connectEstablished" => d \notin Accepted
      PROVE  EstablishedOnce'
  <2>1. PICK e \in Functor : e = Task(op, d)
    BY TaskType
  <2>2. /\ \A m \in Loops \ {k} : pending'[m] = pending[m] /\ batch'[m] = batch[m]
        /\ Waiting(k)' = Append(Waiting(k), e)
    BY <1>1, <1>3, <2>1, QueueEffect
  <2>3. PICK w \in Seq(Functor) : w = Waiting(k) /\ Range(w) = Todo(k)
    BY <1>1, TodoType
  <2>4. ASSUME NEW c \in Clients
        PROVE  Unique(Append(w, e), Task("connectEstablished", c))
    <3>1. PICK x \in Functor : x = Task("connectEstablished", c)
      BY TaskType DEF Op
    <3>2. Unique(w, x)
      BY <2>3, <3>1 DEF Inv, EstablishedOnce
    <3>3. e # x \/ x \notin Range(w)
      <4>1. x.c = c /\ e.c = d /\ e.op = op /\ x.op = "connectEstablished"
        BY <2>1, <3>1 DEF Task
      <4>2. x \in Todo(k) => c \in Accepted
        BY <4>1 DEF Inv, Ordered, Fits
      <4>3. QED
        BY <1>3, <2>3, <4>1, <4>2
    <3>4. Unique(Append(w, e), x)
      BY <3>2, <3>3, UniqueAppend
    <3>5. QED
      BY <3>1, <3>4
  <2>5. ASSUME NEW m \in Loops, NEW c \in Clients
        PROVE  Unique(Waiting(m), Task("connectEstablished", c))'
    <3>1. CASE m = k
      BY <2>2, <2>3, <2>4, <3>1
    <3>2. CASE m # k
      BY <2>2, <3>2 DEF Waiting, Inv, EstablishedOnce
    <3>3. QED
      BY <3>1, <3>2
  <2>6. QED
    BY <2>5 DEF EstablishedOnce
<1>4. CASE AcceptorHandleRead
  <2>1. PICK c \in Clients : \/ Rejected(c)
                             \/ \E l \in Loops : \E fd \in FreeFds : Taken(l, c, fd)
    BY <1>4, AcceptCases
  <2>2. UNCHANGED batch
    BY <1>4, AcceptFrame
  <2>3. CASE UNCHANGED pending
    BY <1>2, <2>2, <2>3
  <2>4. ASSUME NEW l \in Loops, NEW fd \in FreeFds, Taken(l, c, fd), l # 0
        PROVE  EstablishedOnce'
    <3>1. Queue(l, "connectEstablished", c) /\ c \notin Accepted
      BY <2>4 DEF Taken
    <3>2. QED
      BY <1>3, <2>2, <3>1 DEF Op
  <2>5. QED
    BY <2>1, <2>3, <2>4 DEF Rejected, Taken
<1>5. ASSUME NEW l \in Loops, NEW c \in Clients, HandleClose(l, c)
      PROVE  EstablishedOnce'
  <2>1. UNCHANGED batch /\ conn[c].loop = l
    BY <1>5, CloseEffect DEF HandleClose
  <2>2. Queue(l, "connectDestroyed", c) \/ Queue(0, "destroyConnectionInLoop", c)
    BY <1>5, <2>1 DEF HandleClose, DestroyConnectionInLoop
  <2>3. /\ "connectDestroyed" \in Op /\ "destroyConnectionInLoop" \in Op
        /\ "connectDestroyed" # "connectEstablished"
        /\ "destroyConnectionInLoop" # "connectEstablished"
    BY DEF Op
  <2>4. QED
    BY <1>3, <2>1, <2>2, <2>3, BaseLoop
<1>6. ASSUME NEW l \in Loops, RunFunctor(l)
      PROVE  EstablishedOnce'
  <2>1. batch[l] # <<>> /\ batch' = [batch EXCEPT ![l] = Tail(@)]
    BY <1>6, RunEffect
  <2>2. CASE UNCHANGED pending
    <3>1. PICK w \in Seq(Functor) : w = Waiting(l)
      BY <1>1, TodoType
    <3>2. /\ \A m \in Loops \ {l} : batch'[m] = batch[m]
          /\ w # <<>> /\ Waiting(l)' = Tail(w)
      BY <1>1, <2>1, <2>2, <3>1, TakeEffect
    <3>3. \A x : Unique(w, x) => Unique(Tail(w), x)
      BY <3>2, UniqueTail
    <3>4. ASSUME NEW m \in Loops, NEW c \in Clients
          PROVE  Unique(Waiting(m), Task("connectEstablished", c))'
      <4>1. CASE m = l
        BY <3>1, <3>2, <3>3, <4>1 DEF Inv, EstablishedOnce
      <4>2. CASE m # l
        BY <2>2, <3>2, <4>2 DEF Waiting, Inv, EstablishedOnce
      <4>3. QED
        BY <4>1, <4>2
    <3>5. QED
      BY <3>4 DEF EstablishedOnce
  <2>3. ASSUME NEW d \in Clients, d \in Accepted, DestroyConnectionInLoop(d)
        PROVE  EstablishedOnce'
    <3>1. PICK k \in Loops : k = conn[d].loop
      BY <2>3 DEF Inv, TypeOK
    <3>2. PICK e \in Functor : e = Task("connectDestroyed", d)
      BY TaskType DEF Op
    <3>3. pending' = [pending EXCEPT ![k] = Append(@, e)]
      BY <2>3, <3>1, <3>2 DEF DestroyConnectionInLoop, Queue, Task
    <3>4. \A m \in Loops : \A x : x # e /\ Unique(Waiting(m), x) => Unique(Waiting(m)', x)
      BY <1>1, <2>1, <3>3, TakeAndQueueEffect
    <3>5. ASSUME NEW m \in Loops, NEW c \in Clients
          PROVE  Unique(Waiting(m), Task("connectEstablished", c))'
      <4>1. Task("connectEstablished", c) # e
        BY <3>2 DEF Task
      <4>2. Unique(Waiting(m), Task("connectEstablished", c))
        BY DEF Inv, EstablishedOnce
      <4>3. QED
        BY <3>4, <4>1, <4>2
    <3>6. QED
      BY <3>5 DEF EstablishedOnce
  <2>4. QED
    BY <1>6, <2>2, <2>3, RunCases DEF Added, Removed
<1>7. ASSUME NEW c \in Clients, Send(c)
      PROVE  EstablishedOnce'
  <2>1. PICK l \in Loops : l = conn[c].loop
    BY <1>7 DEF Send, Inv, TypeOK
  <2>2. Queue(l, "sendInLoop", c) /\ UNCHANGED batch
    BY <1>7, <2>1 DEF Send, loopVars
  <2>3. "sendInLoop" \in Op /\ "sendInLoop" # "connectEstablished"
    BY DEF Op
  <2>4. QED
    BY <1>3, <2>2, <2>3
<1>8. ASSUME NEW l \in Loops, StartFunctors(l)
      PROVE  EstablishedOnce'
  <2>1. /\ batch[l] = <<>>
        /\ batch' = [batch EXCEPT ![l] = pending[l]]
        /\ pending' = [pending EXCEPT ![l] = <<>>]
    BY <1>8 DEF StartFunctors, Inv, Shape
  <2>2. \A m \in Loops : Waiting(m)' = Waiting(m)
    BY <1>1, <2>1, SwapEffect
  <2>3. QED
    BY <2>2 DEF Inv, EstablishedOnce
<1>9. CASE Start \/ UNCHANGED vars
  BY <1>2, <1>9 DEF Start, vars, loopVars
<1>10. ASSUME NEW l \in Loops, Poll(l) \/ FinishFunctors(l)
       PROVE  EstablishedOnce'
  BY <1>2, <1>10 DEF Poll, FinishFunctors
<1>11. ASSUME NEW c \in Clients, Connect(c) \/ PeerClose(c) \/ Hold(c) \/ Drop(c)
       PROVE  EstablishedOnce'
  BY <1>2, <1>11 DEF Connect, PeerClose, Hold, Drop, loopVars
<1>12. QED
  BY <1>4, <1>5, <1>6, <1>7, <1>8, <1>9, <1>10, <1>11 DEF Next, LoopStep

\* Every step keeps a registered channel owned.
LEMMA OwnedStep ==
  ASSUME Inv, [Next]_vars
  PROVE  Owned'
<1>1. Queues
  BY QueuesType DEF Inv
<1>2. ASSUME UNCHANGED <<connection, epoll>>, \A m \in Loops : Todo(m) \subseteq Todo(m)'
      PROVE  Owned'
  BY <1>2 DEF Inv, Owned
<1>3. CASE UNCHANGED <<connection, epoll, pending, batch>>
  BY <1>3 DEF Inv, Owned, Todo
<1>4. ASSUME NEW k \in Loops, NEW op \in Op, NEW d \in Clients, Queue(k, op, d), batch' = batch
      PROVE  /\ \A m \in Loops : Todo(m) \subseteq Todo(m)'
             /\ Task(op, d) \in Todo(k)'
  <2>1. /\ \A m \in Loops \ {k} : pending'[m] = pending[m] /\ batch'[m] = batch[m]
        /\ Todo(k)' = Todo(k) \cup {Task(op, d)}
    BY <1>1, <1>4, QueueEffect
  <2>2. QED
    BY <2>1 DEF Todo
<1>5. CASE AcceptorHandleRead
  <2>1. PICK c \in Clients : \/ Rejected(c)
                             \/ \E l \in Loops : \E fd \in FreeFds : Taken(l, c, fd)
    BY <1>5, AcceptCases
  <2>2. UNCHANGED batch
    BY <1>5, AcceptFrame
  <2>3. CASE Rejected(c)
    BY <1>3, <2>2, <2>3 DEF Rejected, pollerVars
  <2>4. ASSUME NEW l \in Loops, NEW fd \in FreeFds, Taken(l, c, fd)
        PROVE  Owned'
    <3>1. Range(connection') = Range(connection) \cup {c}
      BY <2>4 DEF Taken
    <3>2. CASE l = 0
      <4>1. epoll' = [epoll EXCEPT ![0] = epoll[0] \cup {c}] /\ UNCHANGED pending
        BY <2>4, <3>2 DEF Taken
      <4>2. \A m \in Loops : Todo(m)' = Todo(m)
        BY <2>2, <4>1 DEF Todo
      <4>3. \A m \in Loops : epoll'[m] \subseteq epoll[m] \cup {c}
        BY <4>1 DEF Inv, TypeOK
      <4>4. QED
        BY <3>1, <4>2, <4>3 DEF Inv, Owned
    <3>3. CASE l # 0
      <4>1. Queue(l, "connectEstablished", c) /\ UNCHANGED epoll
        BY <2>4, <3>3 DEF Taken, pollerVars
      <4>2. \A m \in Loops : Todo(m) \subseteq Todo(m)'
        BY <1>4, <2>2, <4>1 DEF Op
      <4>3. QED
        BY <3>1, <4>1, <4>2 DEF Inv, Owned
    <3>4. QED
      BY <3>2, <3>3
  <2>5. QED
    BY <2>1, <2>3, <2>4
<1>6. ASSUME NEW l \in Loops, NEW c \in Clients, HandleClose(l, c)
      PROVE  Owned'
  <2>1. /\ UNCHANGED <<batch, epoll>> /\ conn[c].loop = l /\ c \in Accepted
    BY <1>6, CloseEffect DEF HandleClose, pollerVars
  <2>2. CASE l = 0
    <3>1. DestroyConnectionInLoop(c)
      BY <1>6, <2>2 DEF HandleClose
    <3>2. Queue(l, "connectDestroyed", c)
      BY <2>1, <3>1 DEF DestroyConnectionInLoop
    <3>3. /\ \A m \in Loops : Todo(m) \subseteq Todo(m)'
          /\ Task("connectDestroyed", c) \in Todo(l)'
      BY <1>4, <2>1, <3>2 DEF Op
    <3>4. \A m \in Loops : c \in epoll[m] => m = l
      BY <2>1 DEF Inv, Registered
    <3>5. \A d \in Range(connection) : d # c => d \in Range(connection')
      BY <2>1, <3>1, EraseKeeps
    <3>6. QED
      BY <2>1, <3>3, <3>4, <3>5 DEF Inv, Owned
  <2>3. CASE l # 0
    <3>1. Queue(0, "destroyConnectionInLoop", c) /\ UNCHANGED connection
      BY <1>6, <2>3 DEF HandleClose
    <3>2. \A m \in Loops : Todo(m) \subseteq Todo(m)'
      BY <1>4, <2>1, <3>1, BaseLoop DEF Op
    <3>3. QED
      BY <1>2, <2>1, <3>1, <3>2
  <2>4. QED
    BY <2>2, <2>3
<1>7. ASSUME NEW l \in Loops, RunFunctor(l)
      PROVE  Owned'
  <2>1. batch[l] # <<>> /\ batch' = [batch EXCEPT ![l] = Tail(@)] /\ noticed' = noticed
    BY <1>7, RunEffect DEF closeVars
  <2>2. ASSUME UNCHANGED pending
        PROVE  /\ \A m \in Loops \ {l} : Todo(m)' = Todo(m)
               /\ Todo(l) = Todo(l)' \cup {Head(batch[l])}
    <3>1. /\ \A k \in Loops \ {l} : batch'[k] = batch[k]
          /\ Todo(l) = Todo(l)' \cup {Head(batch[l])}
      BY <1>1, <2>1, <2>2, TakeEffect
    <3>2. QED
      BY <2>2, <3>1 DEF Todo
  <2>3. ASSUME NEW c \in Clients, c \in Accepted, Added(l, c),
               Head(batch[l]) = Task("connectEstablished", c)
        PROVE  Owned'
    <3>1. /\ epoll' = [epoll EXCEPT ![l] = epoll[l] \cup {c}]
          /\ UNCHANGED <<connection, pending>> /\ c \notin noticed
      BY <2>3 DEF Added
    <3>2. c \in Range(connection)
      BY <2>3, <3>1 DEF Inv, Named
    <3>3. \A m \in Loops : epoll'[m] \subseteq epoll[m] \cup {c}
      BY <3>1 DEF Inv, TypeOK
    <3>4. \A d : Task("connectDestroyed", d) # Head(batch[l])
      BY <2>3 DEF Task
    <3>5. \A m \in Loops : \A d : Task("connectDestroyed", d) \in Todo(m) =>
            Task("connectDestroyed", d) \in Todo(m)'
      BY <2>2, <3>1, <3>4
    <3>6. QED
      BY <3>1, <3>2, <3>3, <3>5 DEF Inv, Owned
  <2>4. ASSUME NEW c \in Clients, Removed(l, c),
               Head(batch[l]) = Task("connectDestroyed", c)
        PROVE  Owned'
    <3>1. /\ epoll' = [epoll EXCEPT ![l] = epoll[l] \ {c}]
          /\ UNCHANGED <<connection, pending>>
      BY <2>4 DEF Removed
    <3>2. epoll'[l] = epoll[l] \ {c} /\ \A m \in Loops \ {l} : epoll'[m] = epoll[m]
      <4>1. DOMAIN epoll = Loops
        BY DEF Inv, TypeOK
      <4>2. QED
        BY <3>1, <4>1
    <3>3. \A d : d # c => Task("connectDestroyed", d) # Head(batch[l])
      BY <2>4 DEF Task
    <3>4. \A d : d # c /\ Task("connectDestroyed", d) \in Todo(l) =>
            Task("connectDestroyed", d) \in Todo(l)'
      BY <2>2, <3>1, <3>3
    <3>5. ASSUME NEW m \in Loops, NEW d \in epoll'[m]
          PROVE  d \in Range(connection) \/ Task("connectDestroyed", d) \in Todo(m)'
      <4>1. d \in epoll[m] /\ (m = l => d # c)
        BY <3>2
      <4>2. d \in Range(connection) \/ Task("connectDestroyed", d) \in Todo(m)
        BY <4>1 DEF Inv, Owned
      <4>3. QED
        BY <2>2, <3>1, <3>4, <4>1, <4>2
    <3>6. QED
      BY <3>1, <3>5 DEF Owned
  <2>5. ASSUME NEW c \in Clients, c \in Accepted, DestroyConnectionInLoop(c), UNCHANGED epoll,
               Head(batch[l]) = Task("destroyConnectionInLoop", c)
        PROVE  Owned'
    <3>1. PICK k \in Loops : k = conn[c].loop
      BY <2>5 DEF Inv, TypeOK
    <3>2. PICK e \in Functor : e = Task("connectDestroyed", c)
      BY TaskType DEF Op
    <3>3. pending' = [pending EXCEPT ![k] = Append(@, e)]
      BY <2>5, <3>1, <3>2 DEF DestroyConnectionInLoop, Queue, Task
    <3>4. /\ e \in Todo(k)'
          /\ \A m \in Loops : Todo(m) \subseteq Todo(m)' \cup {Head(batch[l])}
      BY <1>1, <2>1, <3>3, TakeAndQueueEffect
    <3>5. \A d : Task("connectDestroyed", d) # Head(batch[l])
      BY <2>5 DEF Task
    <3>6. \A m \in Loops : c \in epoll[m] => m = k
      BY <3>1 DEF Inv, Registered
    <3>7. \A d \in Range(connection) : d # c => d \in Range(connection')
      BY <2>5, EraseKeeps
    <3>8. ASSUME NEW m \in Loops, NEW d \in epoll[m]
          PROVE  d \in Range(connection') \/ Task("connectDestroyed", d) \in Todo(m)'
      <4>1. CASE d = c
        BY <3>2, <3>4, <3>6, <3>8, <4>1
      <4>2. CASE d # c
        <5>1. d \in Range(connection) \/ Task("connectDestroyed", d) \in Todo(m)
          BY <3>8 DEF Inv, Owned
        <5>2. QED
          BY <3>4, <3>5, <3>7, <4>2, <5>1
      <4>3. QED
        BY <4>1, <4>2
    <3>9. QED
      BY <2>5, <3>8 DEF Owned
  <2>6. ASSUME NEW c \in Clients, UNCHANGED <<connection, epoll, pending>>,
               Head(batch[l]) = Task("sendInLoop", c)
        PROVE  Owned'
    <3>1. \A d : Task("connectDestroyed", d) # Head(batch[l])
      BY <2>6 DEF Task
    <3>2. \A m \in Loops : \A d : Task("connectDestroyed", d) \in Todo(m) =>
            Task("connectDestroyed", d) \in Todo(m)'
      BY <2>2, <2>6, <3>1
    <3>3. QED
      BY <2>6, <3>2 DEF Inv, Owned
  <2>7. QED
    BY <1>7, <2>3, <2>4, <2>5, <2>6, RunCases DEF pollerVars
<1>8. ASSUME NEW c \in Clients, Send(c)
      PROVE  Owned'
  <2>1. PICK l \in Loops : l = conn[c].loop
    BY <1>8 DEF Send, Inv, TypeOK
  <2>2. Queue(l, "sendInLoop", c) /\ UNCHANGED <<batch, connection, epoll>>
    BY <1>8, <2>1 DEF Send, loopVars, pollerVars
  <2>3. QED
    BY <1>2, <1>4, <2>2 DEF Op
<1>9. ASSUME NEW l \in Loops, StartFunctors(l)
      PROVE  Owned'
  <2>1. /\ batch[l] = <<>>
        /\ batch' = [batch EXCEPT ![l] = pending[l]]
        /\ pending' = [pending EXCEPT ![l] = <<>>]
        /\ UNCHANGED <<connection, epoll>>
    BY <1>9 DEF StartFunctors, pollerVars, Inv, Shape
  <2>2. \A m \in Loops : Todo(m) \subseteq Todo(m)'
    BY <1>1, <2>1, SwapEffect
  <2>3. QED
    BY <1>2, <2>1, <2>2
<1>10. CASE Start \/ UNCHANGED vars
  BY <1>3, <1>10 DEF Start, vars, pollerVars, loopVars
<1>11. ASSUME NEW l \in Loops, Poll(l) \/ FinishFunctors(l)
       PROVE  Owned'
  BY <1>3, <1>11 DEF Poll, FinishFunctors, pollerVars
<1>12. ASSUME NEW c \in Clients, Connect(c) \/ PeerClose(c) \/ Hold(c) \/ Drop(c)
       PROVE  Owned'
  BY <1>3, <1>12 DEF Connect, PeerClose, Hold, Drop, pollerVars, loopVars
<1>13. QED
  BY <1>5, <1>6, <1>7, <1>8, <1>9, <1>10, <1>11, <1>12 DEF Next, LoopStep

-----------------------------------------------------------------------------
(* The invariant. *)

\* The invariant holds at the start.
LEMMA InvInit == Init => Inv
<1> SUFFICES ASSUME Init
             PROVE  Inv
  OBVIOUS
<1>1. TypeOK /\ Shape
  BY InitType DEF TypeInv
<1>2. /\ conn = <<>> /\ connection = <<>> /\ Accepted = {} /\ noticed = {} /\ peerClosed = {}
      /\ backlog = <<>> /\ Len(backlog) = 0 /\ Range(backlog) = {}
      /\ Range(connection) = {} /\ DOMAIN connection = {}
      /\ \A l \in Loops : /\ channels[l] = <<>> /\ DOMAIN channels[l] = {}
                          /\ epoll[l] = {} /\ active[l] = {}
                          /\ pending[l] = <<>> /\ batch[l] = <<>>
      /\ \A c \in Clients : index[c] = "New"
  BY EmptyRange DEF Init, Accepted
<1>3. \A l \in Loops : Waiting(l) = <<>> /\ Todo(l) = {}
  <2>1. <<>> \o <<>> = <<>>
    OBVIOUS
  <2>2. QED
    BY <1>2, <2>1, EmptyRange DEF Waiting, Todo
<1>4. Reported /\ Registered /\ Named
  BY <1>2 DEF Reported, Registered, Named
<1>5. Ordered /\ EstablishedOnce /\ Owned
  BY <1>2, <1>3 DEF Ordered, EstablishedOnce, Owned, Unique
<1>6. Turn
  BY BaseLoop DEF Init, Turn, TypeOK
<1>7. QED
  BY <1>1, <1>4, <1>5, <1>6 DEF Inv

\* Every step keeps the invariant.
LEMMA InvStep == Inv /\ [Next]_vars => Inv'
<1> SUFFICES ASSUME Inv, [Next]_vars
             PROVE  Inv'
  OBVIOUS
<1>1. TypeInv'
  BY TypeStep
<1>2. Reported' /\ Registered' /\ Named' /\ Ordered'
  BY <1>1, ReportedStep, RegisteredStep, NamedStep, OrderedStep
<1>3. EstablishedOnce' /\ Owned' /\ Turn'
  BY EstablishedOnceStep, OwnedStep, TurnStep
<1>4. QED
  BY <1>1, <1>2, <1>3 DEF Inv, TypeInv

\* Every variable of TcpServer has its type, whatever the peers, the loops and
\* the descriptors are.
THEOREM TypeCorrect == Spec => []TypeOK
<1>1. Inv => TypeOK
  BY DEF Inv
<1>2. QED
  BY InvInit, InvStep, <1>1, PTL DEF Spec

-----------------------------------------------------------------------------
(* Who is alive. *)

AliveAccepted == Alive \subseteq Accepted

AliveInv == Inv /\ AliveAccepted /\ OwnFd /\ Kept

\* Who holds a connection alive.
LEMMA AliveHas ==
  /\ Range(connection) \subseteq Alive /\ held \subseteq Alive
  /\ \A l \in Loops : \A f \in Functors(l) : f.op # "sendInLoop" => f.c \in Alive
  /\ \A l \in Loops : Functors(l) = Todo(l) \cup Range(ran[l])
BY DEF Alive, Bound, Functors, Todo

\* The connections alive after a step are within any set that covers their holders.
LEMMA AliveWithin ==
  ASSUME NEW S, Range(connection') \subseteq S, held' \subseteq S,
         \A l \in Loops : \A f \in Functors(l)' : f.op # "sendInLoop" => f.c \in S
  PROVE  Alive' \subseteq S
BY DEF Alive, Bound

\* Nobody comes to life but the connection that is accepted.
LEMMA AliveStep ==
  ASSUME Inv, [Next]_vars
  PROVE  \/ Alive' \subseteq Alive /\ conn' = conn
         \/ \E c \in Clients, l \in Loops, fd \in FreeFds :
              Taken(l, c, fd) /\ Alive' \subseteq Alive \cup {c}
<1>1. Queues
  BY QueuesType DEF Inv
<1>2. CASE UNCHANGED <<connection, pending, batch, ran, held, conn>>
  BY <1>2 DEF Alive, Functors
<1>3. ASSUME NEW S, Range(connection') \subseteq S, held' \subseteq S, Alive \subseteq S,
             \A m \in Loops : \A f \in Functors(m)' :
               f.op = "sendInLoop" \/ f \in Functors(m) \/ f.c \in S
      PROVE  Alive' \subseteq S
  BY <1>3, AliveHas, AliveWithin
<1>4. ASSUME NEW k \in Loops, NEW op \in Op, NEW d \in Clients, Queue(k, op, d),
             UNCHANGED <<batch, ran>>
      PROVE  \A m \in Loops : \A f \in Functors(m)' : f \in Functors(m) \/ f = Task(op, d)
  <2>1. /\ \A m \in Loops \ {k} : pending'[m] = pending[m] /\ batch'[m] = batch[m]
        /\ Todo(k)' = Todo(k) \cup {Task(op, d)}
    BY <1>1, <1>4, QueueEffect
  <2>2. \A m \in Loops : Functors(m)' = Todo(m)' \cup Range(ran'[m])
    BY DEF Functors, Todo
  <2>3. \A m \in Loops : Todo(m)' \subseteq Todo(m) \cup {Task(op, d)}
    BY <2>1 DEF Todo
  <2>4. QED
    BY <1>4, <2>2, <2>3, AliveHas
<1>5. CASE AcceptorHandleRead
  <2>1. PICK c \in Clients : \/ Rejected(c)
                             \/ \E l \in Loops : \E fd \in FreeFds : Taken(l, c, fd)
    BY <1>5, AcceptCases
  <2>2. UNCHANGED <<batch, ran, held>>
    BY <1>5, AcceptFrame
  <2>3. CASE Rejected(c)
    BY <1>2, <2>2, <2>3 DEF Rejected
  <2>4. ASSUME NEW l \in Loops, NEW fd \in FreeFds, Taken(l, c, fd)
        PROVE  Alive' \subseteq Alive \cup {c}
    <3>1. PICK S : S = Alive \cup {c}
      OBVIOUS
    <3>2. Range(connection') \subseteq S /\ held' \subseteq S
      BY <2>2, <2>4, <3>1, AliveHas DEF Taken
    <3>3. CASE l = 0
      <4>1. \A m \in Loops : Functors(m)' = Functors(m)
        BY <2>2, <2>4, <3>3 DEF Taken, Functors
      <4>2. QED
        BY <1>3, <3>1, <3>2, <4>1
    <3>4. CASE l # 0
      <4>1. Queue(l, "connectEstablished", c)
        BY <2>4, <3>4 DEF Taken
      <4>2. \A m \in Loops : \A f \in Functors(m)' :
              f \in Functors(m) \/ f = Task("connectEstablished", c)
        BY <1>4, <2>2, <4>1 DEF Op
      <4>3. Task("connectEstablished", c).c = c
        BY DEF Task
      <4>4. QED
        BY <1>3, <3>1, <3>2, <4>2, <4>3
    <3>5. QED
      BY <3>3, <3>4
  <2>5. QED
    BY <2>1, <2>3, <2>4
<1>6. ASSUME NEW l \in Loops, NEW c \in Clients, HandleClose(l, c)
      PROVE  Alive' \subseteq Alive
  <2>1. UNCHANGED <<batch, ran, held>> /\ conn[c].loop = l /\ c \in epoll[l]
    BY <1>6, CloseEffect DEF HandleClose
  <2>2. c \in Alive
    <3>1. c \in Range(connection) \/ Task("connectDestroyed", c) \in Todo(l)
      BY <2>1 DEF Inv, Owned
    <3>2. Task("connectDestroyed", c).c = c /\ Task("connectDestroyed", c).op # "sendInLoop"
      BY DEF Task
    <3>3. QED
      BY <3>1, <3>2, AliveHas
  <2>3. ASSUME NEW k \in Loops, NEW op \in Op, Queue(k, op, c)
        PROVE  \A m \in Loops : \A f \in Functors(m)' : f \in Functors(m) \/ f.c \in Alive
    <3>1. \A m \in Loops : \A f \in Functors(m)' : f \in Functors(m) \/ f = Task(op, c)
      BY <1>4, <2>1, <2>3
    <3>2. QED
      BY <2>2, <3>1 DEF Task
  <2>4. CASE l = 0
    <3>1. DestroyConnectionInLoop(c)
      BY <1>6, <2>4 DEF HandleClose
    <3>2. Queue(l, "connectDestroyed", c) /\ Range(connection') \subseteq Range(connection)
      BY <2>1, <3>1, EraseEffect
    <3>3. QED
      BY <1>3, <2>1, <2>3, <3>2, AliveHas DEF Op
  <2>5. CASE l # 0
    <3>1. Queue(0, "destroyConnectionInLoop", c) /\ UNCHANGED connection
      BY <1>6, <2>5 DEF HandleClose
    <3>2. QED
      BY <1>3, <2>1, <2>3, <3>1, AliveHas, BaseLoop DEF Op
  <2>6. QED
    BY <2>4, <2>5
<1>7. ASSUME NEW l \in Loops, RunFunctor(l)
      PROVE  Alive' \subseteq Alive
  <2>1. PICK h : h = Head(batch[l])
    OBVIOUS
  <2>2. /\ batch[l] # <<>> /\ batch' = [batch EXCEPT ![l] = Tail(@)]
        /\ ran' = [ran EXCEPT ![l] = Append(@, h)] /\ h \in Functor /\ h \in Todo(l)
        /\ UNCHANGED held
    BY <1>7, <2>1, RunEffect
  <2>3. \A m \in Loops : Range(ran'[m]) \subseteq Functors(m)
    <3>1. PICK r \in Seq(Functor) : r = ran[l]
      BY DEF Inv, TypeOK
    <3>2. Range(Append(r, h)) = Range(r) \cup {h}
      BY <2>2, RangeOfAppend
    <3>3. ran'[l] = Append(r, h) /\ \A m \in Loops \ {l} : ran'[m] = ran[m]
      BY <2>2, <3>1 DEF Inv, TypeOK
    <3>4. QED
      BY <2>2, <3>1, <3>2, <3>3, AliveHas
  <2>4. \A m \in Loops : Functors(m)' = Todo(m)' \cup Range(ran'[m])
    BY DEF Functors, Todo
  <2>5. CASE UNCHANGED <<connection, pending>>
    <3>1. \A m \in Loops : Todo(m)' \subseteq Todo(m)
      <4>1. /\ \A k \in Loops \ {l} : batch'[k] = batch[k]
            /\ Todo(l) = Todo(l)' \cup {Head(batch[l])}
        BY <1>1, <2>2, <2>5, TakeEffect
      <4>2. QED
        BY <2>5, <4>1 DEF Todo
    <3>2. \A m \in Loops : Functors(m)' \subseteq Functors(m)
      BY <2>3, <2>4, <3>1, AliveHas
    <3>3. QED
      BY <1>3, <2>2, <2>5, <3>2, AliveHas
  <2>6. ASSUME NEW c \in Clients, c \in Accepted, DestroyConnectionInLoop(c),
               h = Task("destroyConnectionInLoop", c)
        PROVE  Alive' \subseteq Alive
    <3>1. PICK k \in Loops : k = conn[c].loop
      BY <2>6 DEF Inv, TypeOK
    <3>2. PICK e \in Functor : e = Task("connectDestroyed", c)
      BY TaskType DEF Op
    <3>3. pending' = [pending EXCEPT ![k] = Append(@, e)]
      BY <2>6, <3>1, <3>2 DEF DestroyConnectionInLoop, Queue, Task
    <3>4. \A m \in Loops : Todo(m)' \subseteq Todo(m) \cup {e}
      BY <1>1, <2>2, <3>3, TakeAndQueueEffect
    <3>5. e.c \in Alive
      <4>1. h.c = c /\ h.op # "sendInLoop" /\ e.c = c
        BY <2>6, <3>2 DEF Task
      <4>2. QED
        BY <2>2, <4>1, AliveHas
    <3>6. Range(connection') \subseteq Range(connection)
      BY <2>6, EraseEffect
    <3>7. \A m \in Loops : \A f \in Functors(m)' : f \in Functors(m) \/ f.c \in Alive
      BY <2>3, <2>4, <3>4, <3>5, AliveHas
    <3>8. QED
      BY <1>3, <2>2, <3>6, <3>7, AliveHas
  <2>7. QED
    BY <1>7, <2>1, <2>5, <2>6, RunCases DEF Added, Removed
<1>8. ASSUME NEW c \in Clients, Send(c)
      PROVE  Alive' \subseteq Alive
  <2>1. PICK l \in Loops : l = conn[c].loop
    BY <1>8 DEF Send, Inv, TypeOK
  <2>2. Queue(l, "sendInLoop", c) /\ UNCHANGED <<batch, ran, connection, held>>
    BY <1>8, <2>1 DEF Send, loopVars
  <2>3. \A m \in Loops : \A f \in Functors(m)' : f \in Functors(m) \/ f = Task("sendInLoop", c)
    BY <1>4, <2>2 DEF Op
  <2>4. Task("sendInLoop", c).op = "sendInLoop"
    BY DEF Task
  <2>5. QED
    BY <1>3, <2>2, <2>3, <2>4, AliveHas
<1>9. ASSUME NEW l \in Loops, StartFunctors(l)
      PROVE  Alive' \subseteq Alive
  <2>1. /\ batch[l] = <<>>
        /\ batch' = [batch EXCEPT ![l] = pending[l]]
        /\ pending' = [pending EXCEPT ![l] = <<>>]
        /\ UNCHANGED <<connection, held, ran>>
    BY <1>9 DEF StartFunctors, Inv, Shape
  <2>2. \A m \in Loops : Todo(m)' = Todo(m)
    BY <1>1, <2>1, SwapEffect
  <2>3. \A m \in Loops : Functors(m)' = Todo(m)' \cup Range(ran'[m])
    BY DEF Functors, Todo
  <2>4. QED
    BY <1>3, <2>1, <2>2, <2>3, AliveHas
<1>10. ASSUME NEW l \in Loops, FinishFunctors(l)
       PROVE  Alive' \subseteq Alive
  <2>1. ran' = [ran EXCEPT ![l] = <<>>] /\ UNCHANGED <<connection, held, batch, pending>>
    BY <1>10 DEF FinishFunctors
  <2>2. \A m \in Loops : Range(ran'[m]) \subseteq Range(ran[m])
    BY <2>1, EmptyRange DEF Inv, TypeOK
  <2>3. \A m \in Loops : Functors(m)' \subseteq Functors(m)
    BY <2>1, <2>2 DEF Functors
  <2>4. QED
    BY <1>3, <2>1, <2>3, AliveHas
<1>11. ASSUME NEW c \in Clients, Hold(c)
       PROVE  Alive' \subseteq Alive
  <2>1. /\ c \in Accepted /\ c \notin peerClosed /\ held' = held \cup {c}
        /\ UNCHANGED <<connection, pending, batch, ran>>
    BY <1>11 DEF Hold, loopVars
  <2>2. c \in Range(connection)
    BY <2>1 DEF Inv, Reported, Named
  <2>3. \A m \in Loops : Functors(m)' = Functors(m)
    BY <2>1 DEF Functors
  <2>4. QED
    BY <1>3, <2>1, <2>2, <2>3, AliveHas
<1>12. ASSUME NEW c \in Clients, Drop(c)
       PROVE  Alive' \subseteq Alive
  <2>1. held' \subseteq held /\ UNCHANGED <<connection, pending, batch, ran>>
    BY <1>12 DEF Drop, loopVars
  <2>2. \A m \in Loops : Functors(m)' = Functors(m)
    BY <2>1 DEF Functors
  <2>3. QED
    BY <1>3, <2>1, <2>2, AliveHas
<1>13. CASE Start \/ UNCHANGED vars
  BY <1>2, <1>13 DEF Start, vars, acceptVars, loopVars
<1>14. ASSUME NEW l \in Loops, Poll(l)
       PROVE  Alive' \subseteq Alive /\ conn' = conn
  BY <1>14 DEF Poll, acceptVars, Alive, Functors
<1>15. ASSUME NEW c \in Clients, Connect(c) \/ PeerClose(c)
       PROVE  Alive' \subseteq Alive /\ conn' = conn
  BY <1>15 DEF Connect, PeerClose, acceptVars, loopVars, Alive, Functors
<1>16. AcceptorHandleRead \/ conn' = conn
  BY StepKinds DEF Aside, HandleClose, RunFunctor, acceptVars
<1>17. QED
  BY <1>5, <1>6, <1>7, <1>8, <1>9, <1>10, <1>11, <1>12, <1>13, <1>14, <1>15, <1>16
     DEF Next, LoopStep

\* A descriptor is given out when no connection that lives has it.
LEMMA OwnFdStep ==
  ASSUME Inv, AliveAccepted, OwnFd, [Next]_vars
  PROVE  AliveAccepted' /\ OwnFd'
<1>1. CASE Alive' \subseteq Alive /\ conn' = conn
  BY <1>1 DEF AliveAccepted, OwnFd, Accepted
<1>2. ASSUME NEW c \in Clients, NEW l \in Loops, NEW fd \in FreeFds, Taken(l, c, fd),
             Alive' \subseteq Alive \cup {c}
      PROVE  AliveAccepted' /\ OwnFd'
  <2>1. /\ Accepted' = Accepted \cup {c} /\ c \notin Accepted
        /\ \A d \in Accepted : conn'[d] = conn[d]
        /\ conn'[c].fd = fd
    BY <1>2 DEF Taken
  <2>2. \A d \in Alive : conn[d].fd # fd
    BY DEF FreeFds
  <2>3. ASSUME NEW d \in Alive', NEW e \in Alive', conn'[d].fd = conn'[e].fd
        PROVE  d = e
    <3>1. CASE d \in Alive /\ e \in Alive
      BY <2>1, <2>3, <3>1 DEF AliveAccepted, OwnFd
    <3>2. CASE d = c \/ e = c
      BY <1>2, <2>1, <2>2, <2>3, <3>2 DEF AliveAccepted
    <3>3. QED
      BY <1>2, <2>3, <3>1, <3>2
  <2>4. QED
    BY <1>2, <2>1, <2>3 DEF AliveAccepted, OwnFd
<1>3. QED
  BY <1>1, <1>2, AliveStep

\* Every step keeps a connection until it was told of its end.
LEMMA KeptStep ==
  ASSUME Inv, Kept, [Next]_vars
  PROVE  Kept'
<1>1. Queues
  BY QueuesType DEF Inv
<1>2. ASSUME UNCHANGED <<connection, state, conn>>, \A m \in Loops : Todo(m) \subseteq Todo(m)'
      PROVE  Kept'
  BY <1>2 DEF Kept, Accepted
<1>3. CASE UNCHANGED <<connection, state, conn, pending, batch>>
  BY <1>2, <1>3 DEF Todo
<1>4. ASSUME NEW k \in Loops, NEW op \in Op, NEW d \in Clients, Queue(k, op, d), batch' = batch
      PROVE  /\ \A m \in Loops : Todo(m) \subseteq Todo(m)'
             /\ Task(op, d) \in Todo(k)'
  <2>1. /\ \A m \in Loops \ {k} : pending'[m] = pending[m] /\ batch'[m] = batch[m]
        /\ Todo(k)' = Todo(k) \cup {Task(op, d)}
    BY <1>1, <1>4, QueueEffect
  <2>2. QED
    BY <2>1 DEF Todo
<1>5. CASE AcceptorHandleRead
  <2>1. PICK c \in Clients : \/ Rejected(c)
                             \/ \E l \in Loops : \E fd \in FreeFds : Taken(l, c, fd)
    BY <1>5, AcceptCases
  <2>2. UNCHANGED batch
    BY <1>5, AcceptFrame
  <2>3. CASE Rejected(c)
    BY <1>3, <2>2, <2>3 DEF Rejected
  <2>4. ASSUME NEW l \in Loops, NEW fd \in FreeFds, Taken(l, c, fd)
        PROVE  Kept'
    <3>1. /\ Range(connection') = Range(connection) \cup {c}
          /\ Accepted' = Accepted \cup {c} /\ c \notin Accepted
      BY <2>4 DEF Taken
    <3>2. \A d \in Clients : d # c => state'[d] = state[d]
      BY <2>4 DEF Taken, Inv, TypeOK
    <3>3. \A m \in Loops : Todo(m) \subseteq Todo(m)'
      <4>1. CASE l = 0
        BY <2>2, <2>4, <4>1 DEF Taken, Todo
      <4>2. CASE l # 0
        <5>1. Queue(l, "connectEstablished", c)
          BY <2>4, <4>2 DEF Taken
        <5>2. QED
          BY <1>4, <2>2, <5>1 DEF Op
      <4>3. QED
        BY <4>1, <4>2
    <3>4. Accepted \subseteq Clients
      BY DEF Inv, TypeOK
    <3>5. QED
      BY <3>1, <3>2, <3>3, <3>4 DEF Kept
  <2>5. QED
    BY <2>1, <2>3, <2>4
<1>6. ASSUME NEW l \in Loops, NEW c \in Clients, HandleClose(l, c)
      PROVE  Kept'
  <2>1. UNCHANGED <<batch, state, conn>> /\ conn[c].loop = l /\ c \in Accepted
    BY <1>6, CloseEffect DEF HandleClose, acceptVars
  <2>2. CASE l = 0
    <3>1. DestroyConnectionInLoop(c)
      BY <1>6, <2>2 DEF HandleClose
    <3>2. Queue(l, "connectDestroyed", c)
      BY <2>1, <3>1 DEF DestroyConnectionInLoop
    <3>3. /\ \A m \in Loops : Todo(m) \subseteq Todo(m)'
          /\ Task("connectDestroyed", c) \in Todo(l)'
      BY <1>4, <2>1, <3>2 DEF Op
    <3>4. \A d \in Range(connection) : d # c => d \in Range(connection')
      BY <2>1, <3>1, EraseKeeps
    <3>5. QED
      BY <2>1, <3>3, <3>4 DEF Kept, Accepted
  <2>3. CASE l # 0
    <3>1. Queue(0, "destroyConnectionInLoop", c) /\ UNCHANGED connection
      BY <1>6, <2>3 DEF HandleClose
    <3>2. \A m \in Loops : Todo(m) \subseteq Todo(m)'
      BY <1>4, <2>1, <3>1, BaseLoop DEF Op
    <3>3. QED
      BY <1>2, <2>1, <3>1, <3>2
  <2>4. QED
    BY <2>2, <2>3
<1>7. ASSUME NEW l \in Loops, RunFunctor(l)
      PROVE  Kept'
  <2>1. /\ batch[l] # <<>> /\ batch' = [batch EXCEPT ![l] = Tail(@)]
        /\ conn' = conn /\ state \in [Clients -> {"Connecting", "Connected", "Disconnected"}]
    BY <1>7, RunEffect DEF RunFunctor, acceptVars, Inv, TypeOK
  <2>2. ASSUME UNCHANGED pending, NEW m \in Loops, NEW e \in Todo(m), e # Head(batch[l])
        PROVE  e \in Todo(m)'
    <3>1. /\ \A k \in Loops \ {l} : batch'[k] = batch[k]
          /\ Todo(l) = Todo(l)' \cup {Head(batch[l])}
      BY <1>1, <2>1, <2>2, TakeEffect
    <3>2. QED
      BY <2>2, <3>1 DEF Todo
  <2>3. ASSUME NEW c \in Clients, c \in Accepted, Added(l, c),
               Head(batch[l]) = Task("connectEstablished", c)
        PROVE  Kept'
    <3>1. /\ UNCHANGED <<connection, pending>> /\ c \in Range(connection)
          /\ \A d \in Clients : d # c => state'[d] = state[d]
      BY <2>1, <2>3 DEF Added, Inv, Named
    <3>2. \A d : Task("connectDestroyed", d) # Head(batch[l])
      BY <2>3 DEF Task
    <3>3. \A m \in Loops : \A d : Task("connectDestroyed", d) \in Todo(m) =>
            Task("connectDestroyed", d) \in Todo(m)'
      BY <2>2, <3>1, <3>2
    <3>4. Accepted' = Accepted /\ Accepted \subseteq Clients
      BY <2>1 DEF Accepted, Inv, TypeOK
    <3>5. QED
      BY <3>1, <3>3, <3>4 DEF Kept
  <2>4. ASSUME NEW c \in Clients, Removed(l, c),
               Head(batch[l]) = Task("connectDestroyed", c)
        PROVE  Kept'
    <3>1. /\ UNCHANGED <<connection, pending>> /\ state'[c] = "Disconnected"
          /\ \A d \in Clients : d # c => state'[d] = state[d]
      BY <2>1, <2>4 DEF Removed
    <3>2. \A d : d # c => Task("connectDestroyed", d) # Head(batch[l])
      BY <2>4 DEF Task
    <3>3. \A m \in Loops : \A d : d # c /\ Task("connectDestroyed", d) \in Todo(m) =>
            Task("connectDestroyed", d) \in Todo(m)'
      BY <2>2, <3>1, <3>2
    <3>4. Accepted' = Accepted /\ Accepted \subseteq Clients
      BY <2>1 DEF Accepted, Inv, TypeOK
    <3>5. QED
      BY <3>1, <3>3, <3>4 DEF Kept
  <2>5. ASSUME NEW c \in Clients, c \in Accepted, DestroyConnectionInLoop(c), UNCHANGED state,
               Head(batch[l]) = Task("destroyConnectionInLoop", c)
        PROVE  Kept'
    <3>1. PICK k \in Loops : k = conn[c].loop
      BY <2>5 DEF Inv, TypeOK
    <3>2. PICK e \in Functor : e = Task("connectDestroyed", c)
      BY TaskType DEF Op
    <3>3. pending' = [pending EXCEPT ![k] = Append(@, e)]
      BY <2>5, <3>1, <3>2 DEF DestroyConnectionInLoop, Queue, Task
    <3>4. /\ e \in Todo(k)'
          /\ \A m \in Loops : Todo(m) \subseteq Todo(m)' \cup {Head(batch[l])}
      BY <1>1, <2>1, <3>3, TakeAndQueueEffect
    <3>5. \A d : Task("connectDestroyed", d) # Head(batch[l])
      BY <2>5 DEF Task
    <3>6. \A d \in Range(connection) : d # c => d \in Range(connection')
      BY <2>5, EraseKeeps
    <3>7. \A m \in Loops : \A d : Task("connectDestroyed", d) \in Todo(m) =>
            Task("connectDestroyed", d) \in Todo(m)'
      BY <3>4, <3>5
    <3>8. QED
      BY <2>1, <2>5, <3>2, <3>4, <3>6, <3>7 DEF Kept, Accepted
  <2>6. ASSUME NEW c \in Clients, UNCHANGED <<connection, state, pending>>,
               Head(batch[l]) = Task("sendInLoop", c)
        PROVE  Kept'
    <3>1. \A d : Task("connectDestroyed", d) # Head(batch[l])
      BY <2>6 DEF Task
    <3>2. \A m \in Loops : \A d : Task("connectDestroyed", d) \in Todo(m) =>
            Task("connectDestroyed", d) \in Todo(m)'
      BY <2>2, <2>6, <3>1
    <3>3. QED
      BY <2>1, <2>6, <3>2 DEF Kept, Accepted
  <2>7. QED
    BY <1>7, <2>3, <2>4, <2>5, <2>6, RunCases
<1>8. ASSUME NEW c \in Clients, Send(c)
      PROVE  Kept'
  <2>1. PICK l \in Loops : l = conn[c].loop
    BY <1>8 DEF Send, Inv, TypeOK
  <2>2. Queue(l, "sendInLoop", c) /\ UNCHANGED <<batch, connection, state, conn>>
    BY <1>8, <2>1 DEF Send, loopVars, acceptVars
  <2>3. QED
    BY <1>2, <1>4, <2>2 DEF Op
<1>9. ASSUME NEW l \in Loops, StartFunctors(l)
      PROVE  Kept'
  <2>1. /\ batch[l] = <<>>
        /\ batch' = [batch EXCEPT ![l] = pending[l]]
        /\ pending' = [pending EXCEPT ![l] = <<>>]
        /\ UNCHANGED <<connection, state, conn>>
    BY <1>9 DEF StartFunctors, acceptVars, Inv, Shape
  <2>2. \A m \in Loops : Todo(m) \subseteq Todo(m)'
    BY <1>1, <2>1, SwapEffect
  <2>3. QED
    BY <1>2, <2>1, <2>2
<1>10. CASE Start \/ UNCHANGED vars
  BY <1>3, <1>10 DEF Start, vars, acceptVars, loopVars
<1>11. ASSUME NEW l \in Loops, Poll(l) \/ FinishFunctors(l)
       PROVE  Kept'
  BY <1>3, <1>11 DEF Poll, FinishFunctors, acceptVars
<1>12. ASSUME NEW c \in Clients, Connect(c) \/ PeerClose(c) \/ Hold(c) \/ Drop(c)
       PROVE  Kept'
  BY <1>3, <1>12 DEF Connect, PeerClose, Hold, Drop, acceptVars, loopVars
<1>13. QED
  BY <1>5, <1>6, <1>7, <1>8, <1>9, <1>10, <1>11, <1>12 DEF Next, LoopStep

\* Nothing dangles at the start.
LEMMA AliveInit == Init => AliveInv
<1> SUFFICES ASSUME Init
             PROVE  AliveInv
  OBVIOUS
<1>1. Inv
  BY InvInit
<1>2. /\ Range(connection) = {} /\ held = {}
      /\ \A l \in Loops : pending[l] = <<>> /\ batch[l] = <<>> /\ ran[l] = <<>>
  BY EmptyRange DEF Init
<1>3. \A l \in Loops : Functors(l) = {} /\ Todo(l) = {}
  BY <1>2, EmptyRange DEF Functors, Todo
<1>4. Alive = {}
  BY <1>2, <1>3 DEF Alive
<1>5. QED
  BY <1>1, <1>3, <1>4 DEF AliveInv, AliveAccepted, OwnFd, Kept,
     Accepted, Init

\* The invariant gives that what is used is alive.
LEMMA AliveWhenUsedHolds == AliveInv => AliveWhenUsed
<1> SUFFICES ASSUME AliveInv
             PROVE  AliveWhenUsed
  OBVIOUS
<1> USE DEF AliveInv
<1>1. ASSUME NEW l \in Loops
      PROVE  epoll[l] \cup (active[l] \ {Acceptor}) \subseteq Alive
  <2>1. \A c : /\ Task("connectDestroyed", c).c = c
               /\ Task("connectDestroyed", c).op # "sendInLoop"
    BY DEF Task
  <2>2. epoll[l] \subseteq Alive
    BY <2>1, AliveHas DEF Inv, Owned
  <2>3. active[l] \ {Acceptor} \subseteq epoll[l]
    BY DEF Inv, Reported
  <2>4. QED
    BY <2>2, <2>3
<1>2. ASSUME NEW c \in Accepted \ Alive
      PROVE  c \in noticed /\ state[c] = "Disconnected"
  <2>1. c \notin Range(connection)
    BY AliveHas
  <2>2. \A l \in Loops : Task("connectDestroyed", c) \notin Todo(l)
    <3>1. /\ Task("connectDestroyed", c).c = c
          /\ Task("connectDestroyed", c).op # "sendInLoop"
      BY DEF Task
    <3>2. QED
      BY <3>1, AliveHas
  <2>3. QED
    BY <2>1, <2>2 DEF Kept, Inv, Named
<1>3. QED
  BY <1>1, <1>2 DEF AliveWhenUsed, Inv, Registered, OwnFd

\* Over all loops, names and descriptors that are given out again: the Poller's
\* channels and those about to be handled are not destroyed, no two live
\* connections share a descriptor, and none is destroyed before its close was
\* noticed and connectDestroyed has run, whatever the workers drop and send when.
THEOREM NothingDangles == Spec => []AliveWhenUsed
<1>1. AliveInv /\ [Next]_vars => AliveInv'
  BY InvStep, OwnFdStep, KeptStep DEF AliveInv
<1>2. QED
  BY AliveInit, <1>1, AliveWhenUsedHolds, PTL DEF Spec

-----------------------------------------------------------------------------
(* How the connections are dealt out. *)

Given(l) == {c \in Accepted : conn[c].loop = l}

\* The loops up to next_ are one connection ahead of those behind it.
Dealt ==
  /\ \A c \in Accepted : conn[c].loop \in IF nums = 0 THEN {0} ELSE 1 .. nums
  /\ \A k, l \in 1 .. nums :
       /\ (k <= next <=> l <= next) => Cardinality(Given(k)) = Cardinality(Given(l))
       /\ k <= next /\ next < l => Cardinality(Given(k)) = Cardinality(Given(l)) + 1

\* A loop was given finitely many connections.
LEMMA GivenFinite ==
  ASSUME TypeOK, NEW l
  PROVE  IsFiniteSet(Given(l)) /\ Cardinality(Given(l)) \in Nat
<1>1. IsFiniteSet(Clients)
  BY MaxAssumption, FS_Interval DEF Clients
<1>2. Given(l) \subseteq Clients
  BY DEF Given, TypeOK
<1>3. QED
  BY <1>1, <1>2, FS_Subset, FS_CardinalityType

\* Every step keeps the connections dealt in turn.
LEMMA DealtStep ==
  ASSUME Inv, Dealt, [Next]_vars
  PROVE  Dealt'
<1>1. CASE UNCHANGED <<nums, next, conn>>
  BY <1>1 DEF Dealt, Given, Accepted
<1>2. ASSUME NEW c \in Clients, NEW l \in Loops, NEW fd \in FreeFds, Taken(l, c, fd), nums' = nums
      PROVE  Dealt'
  <2>1. /\ Accepted' = Accepted \cup {c} /\ c \notin Accepted
        /\ \A d \in Accepted : conn'[d] = conn[d]
        /\ conn'[c].loop = l /\ l = NextLoop
        /\ next' = IF nums = 0 THEN next ELSE Wrapped(next + 1)
    BY <1>2 DEF Taken
  <2>2. nums \in Nat /\ next \in Nat /\ (nums > 0 => next < nums)
    BY BaseLoop DEF Inv, TypeOK, Turn
  <2>3. l = IF nums = 0 THEN 0 ELSE next + 1
    BY <2>1 DEF NextLoop
  <2>4. \A d \in Accepted' : conn'[d].loop \in IF nums = 0 THEN {0} ELSE 1 .. nums
    BY <2>1, <2>2, <2>3 DEF Dealt
  <2>5. Given(l)' = Given(l) \cup {c} /\ \A k : k # l => Given(k)' = Given(k)
    BY <2>1 DEF Given
  <2>6. Cardinality(Given(l) \cup {c}) = Cardinality(Given(l)) + 1
    <3>1. IsFiniteSet(Given(l)) /\ c \notin Given(l)
      BY <2>1, GivenFinite DEF Inv, Given
    <3>2. QED
      BY <3>1, FS_AddElement
  <2>7. PICK n : n = [k \in 1 .. nums |-> Cardinality(Given(k))]
    OBVIOUS
  <2>8. \A k \in 1 .. nums : n[k] = Cardinality(Given(k)) /\ n[k] \in Nat
    BY <2>7, GivenFinite DEF Inv
  <2>9. \A k \in 1 .. nums :
          Cardinality(Given(k)') = IF k = next + 1 THEN n[k] + 1 ELSE n[k]
    BY <2>2, <2>3, <2>5, <2>6, <2>8
  <2>10. \A j, k \in 1 .. nums :
           /\ (j <= next <=> k <= next) => n[j] = n[k]
           /\ j <= next /\ next < k => n[j] = n[k] + 1
    BY <2>8 DEF Dealt
  <2>11. nums > 0 => next' = IF next + 1 >= nums THEN 0 ELSE next + 1
    BY <2>1, <2>2 DEF Wrapped
  <2>12. ASSUME NEW j \in 1 .. nums, NEW k \in 1 .. nums
         PROVE  /\ (j <= next' <=> k <= next') =>
                     Cardinality(Given(j)') = Cardinality(Given(k)')
                /\ j <= next' /\ next' < k =>
                     Cardinality(Given(j)') = Cardinality(Given(k)') + 1
    <3>1. PICK p \in Nat, q \in Nat : p = n[j] /\ q = n[k]
      BY <2>8
    <3>2. nums > 0 /\ next < nums
      BY <2>2
    <3>3. /\ (j <= next <=> k <= next) => p = q
          /\ j <= next /\ next < k => p = q + 1
          /\ k <= next /\ next < j => q = p + 1
      BY <2>10, <3>1
    <3>4. /\ Cardinality(Given(j)') = IF j = next + 1 THEN p + 1 ELSE p
          /\ Cardinality(Given(k)') = IF k = next + 1 THEN q + 1 ELSE q
      BY <2>9, <3>1
    <3>5. CASE next + 1 >= nums
      BY <2>2, <2>11, <3>2, <3>3, <3>4, <3>5
    <3>6. CASE next + 1 < nums
      BY <2>2, <2>11, <3>2, <3>3, <3>4, <3>6
    <3>7. QED
      BY <2>2, <3>5, <3>6
  <2>13. QED
    BY <1>2, <2>4, <2>12 DEF Dealt
<1>3. CASE AcceptorHandleRead
  <2>1. PICK c \in Clients : \/ Rejected(c)
                             \/ \E l \in Loops : \E fd \in FreeFds : Taken(l, c, fd)
    BY <1>3, AcceptCases
  <2>2. nums' = nums
    BY <1>3, AcceptFrame
  <2>3. QED
    BY <1>1, <1>2, <2>1, <2>2 DEF Rejected
<1>4. QED
  BY <1>1, <1>3, StepKinds DEF Aside, HandleClose, RunFunctor, poolVars, acceptVars

\* The loops of the pool take turns: however many connections were accepted, none
\* has two more than another, and next_ never leaves loops_.
THEOREM DealtEvenly == Spec => []Balanced
<1>1. Init => Dealt
  <2>1. Init => Accepted = {} /\ next = 0
    BY DEF Init, Accepted
  <2>2. Init => \A k : Given(k) = {}
    BY <2>1 DEF Given
  <2>3. Init => \A k \in 1 .. nums : ~(k <= next)
    <3>1. Init => nums \in Nat
      BY InvInit, BaseLoop DEF Inv, TypeOK
    <3>2. QED
      BY <2>1, <3>1
  <2>4. QED
    BY <2>1, <2>2, <2>3 DEF Dealt
<1>2. Inv /\ Dealt => Balanced
  <2> SUFFICES ASSUME Inv, Dealt
               PROVE  Balanced
    OBVIOUS
  <2>1. ASSUME NEW k \in 1 .. nums, NEW l \in 1 .. nums
        PROVE  Cardinality(Given(k)) <= Cardinality(Given(l)) + 1
    <3>1. PICK p \in Nat, q \in Nat : p = Cardinality(Given(k)) /\ q = Cardinality(Given(l))
      BY GivenFinite DEF Inv
    <3>2. /\ (k <= next <=> l <= next) => p = q
          /\ k <= next /\ next < l => p = q + 1
          /\ l <= next /\ next < k => q = p + 1
      BY <3>1 DEF Dealt
    <3>3. next \in Nat /\ nums \in Nat
      BY BaseLoop DEF Inv, TypeOK
    <3>4. p <= q + 1
      BY <3>2, <3>3
    <3>5. QED
      BY <3>1, <3>4
  <2>2. QED
    BY <2>1 DEF Balanced, Dealt, Given
<1>3. Inv /\ Dealt /\ [Next]_vars => Inv' /\ Dealt'
  BY InvStep, DealtStep
<1>4. QED
  BY InvInit, <1>1, <1>2, <1>3, PTL DEF Spec

=============================================================================
