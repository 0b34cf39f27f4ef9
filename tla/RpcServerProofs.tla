-------------------------- MODULE RpcServerProofs --------------------------
(***************************************************************************)
(* For any number of connections, messages and requests in a batch: a      *)
(* message is answered at most once, and its answer is complete; clients   *)
(* that send legal calls, one at a time, never bring the server down.      *)
(***************************************************************************)
EXTENDS RpcServer, SequenceTheorems, TLAPS

(* The inductive invariant.                                                *)

\* The stream to the server holds messages in the order they were sent, those
\* not yet taken.
Stream(c) == inbuf[c] \o wire[c]

Ordered(s, low, high) ==
  /\ \A i \in 1 .. Len(s) : s[i].n <= high /\ (s[i].kind = "head" => low < s[i].n)
  /\ \A i, j \in 1 .. Len(s) :
       i < j /\ s[i].kind = "head" /\ s[j].kind = "head" => s[i].n < s[j].n

StreamInv ==
  \A c \in Clients :
    /\ cur[c] <= Len(log[c]) /\ Len(log[c]) <= MaxMessages
    /\ Ordered(Stream(c), cur[c], Len(log[c]))

\* What there is of a message before it is taken: nothing.
Untouched(c, n) ==
  /\ \A i \in 1 .. MaxBatch : call[<<c, n, i>>] = "none"
  /\ responses[<<c, n>>] = {}
  /\ \A j \in 1 .. Len(sent[c]) : sent[c][j].n # n

FutureInv == \A c \in Clients, n \in Number : n > cur[c] => Untouched(c, n)

\* A batch's data holds the responses of the calls that have answered; a single
\* request is one call that never holds a share.
DataInv ==
  \A c \in Clients, n \in Number :
    IF n <= cur[c] /\ log[c][n].form = "array"
      THEN responses[<<c, n>>] =
             {i \in 1 .. MaxBatch : call[<<c, n, i>>] \in {"added", "released"}}
      ELSE /\ responses[<<c, n>>] = {}
           /\ \A i \in 1 .. MaxBatch : call[<<c, n, i>>] # "added"
           /\ \A i \in 1 .. MaxBatch : i # 1 => call[<<c, n, i>>] = "none"

\* Requests of a batch that are still to be looked at have not been called.
FrameInv ==
  \A c \in Clients : pc[c] = "batch" =>
    /\ cur[c] # 0 /\ log[c][cur[c]].form = "array"
    /\ elem[c] <= Len(log[c][cur[c]].requests) + 1
    /\ \A i \in 1 .. MaxBatch : i >= elem[c] => call[<<c, cur[c], i>>] = "none"

\* What is answered is over: nobody owns it any more, and the answer has all.
AnswerInv ==
  \A c \in Clients : \A j \in 1 .. Len(sent[c]) :
    LET n == sent[c][j].n
    IN  /\ sent[c][j].ids = Made(c, n)
        /\ CallsOwning(c, n) = {}
        /\ ~FrameOwns(c, n)

IInv == Types /\ StreamInv /\ FutureInv /\ DataInv /\ FrameInv /\ AnswerInv /\ AnsweredOnce
-----------------------------------------------------------------------------
(* The stream. *)

\* Reading moves tokens from wire to inbuf and leaves the stream as it is.
LEMMA ReadKeepsStream ==
  ASSUME NEW S, NEW a \in Seq(S), NEW b \in Seq(S), NEW k \in 1 .. Len(b)
  PROVE  /\ SubSeq(b, 1, k) \in Seq(S)
         /\ SubSeq(b, k + 1, Len(b)) \in Seq(S)
         /\ (a \o SubSeq(b, 1, k)) \o SubSeq(b, k + 1, Len(b)) = a \o b
  <1> DEFINE p == SubSeq(b, 1, k)
             q == SubSeq(b, k + 1, Len(b))
  <1>1. p \in Seq(S) /\ Len(p) = k /\ \A i \in 1 .. k : p[i] = b[i]
    OBVIOUS
  <1>2. /\ q \in Seq(S) /\ Len(q) = Len(b) - k
        /\ \A i \in 1 .. Len(b) - k : q[i] = b[i + k]
    OBVIOUS
  <1> HIDE DEF p, q
  <1>0. k \in Nat /\ Len(a) \in Nat /\ Len(b) \in Nat /\ Len(b) - k \in Nat
    OBVIOUS
  <1> DEFINE r == a \o p
  <1>3. r \in Seq(S) /\ Len(r) = Len(a) + k
    BY <1>0, <1>1
  <1>4. r \o q \in Seq(S) /\ Len(r \o q) = Len(a) + Len(b)
    <2> HIDE DEF r
    <2>1. r \o q \in Seq(S) /\ Len(r \o q) = Len(r) + Len(q)
      BY <1>2, <1>3, ConcatProperties
    <2> QED BY <2>1, <1>0, <1>2, <1>3
  <1>5. a \o b \in Seq(S) /\ Len(a \o b) = Len(a) + Len(b)
    OBVIOUS
  <1>6. ASSUME NEW i \in 1 .. Len(a) + Len(b)
        PROVE  ((a \o p) \o q)[i] = (a \o b)[i]
    <2>1. CASE i <= Len(a) + k
      <3>1. ((a \o p) \o q)[i] = (a \o p)[i]
        BY <2>1, <1>2, <1>3
      <3>2. (a \o p)[i] = (a \o b)[i]
        BY <2>1, <1>1
      <3> QED BY <3>1, <3>2
    <2>2. CASE i > Len(a) + k
      <3>1. ((a \o p) \o q)[i] = q[i - (Len(a) + k)]
        BY <2>2, <1>2, <1>3
      <3>2. i - (Len(a) + k) \in 1 .. Len(b) - k
        BY <2>2
      <3>3. q[i - (Len(a) + k)] = b[i - Len(a)]
        <4>1. q[i - (Len(a) + k)] = b[(i - (Len(a) + k)) + k]
          BY <3>2, <1>2
        <4>2. (i - (Len(a) + k)) + k = i - Len(a)
          BY <1>0
        <4> QED BY <4>1, <4>2
      <3>4. (a \o b)[i] = b[i - Len(a)]
        BY <2>2
      <3> QED BY <3>1, <3>3, <3>4
    <2>3. i <= Len(a) + k \/ i > Len(a) + k
      BY <1>0
    <2> QED BY <2>1, <2>2, <2>3
  <1>7. (a \o p) \o q = a \o b
    <2> DEFINE l == (a \o p) \o q
               m == a \o b
    <2>1. l \in Seq(S) /\ m \in Seq(S) /\ Len(l) = Len(m)
      BY <1>4, <1>5
    <2>2. \A i \in 1 .. Len(l) : l[i] = m[i]
      BY <1>4, <1>6
    <2> HIDE DEF l, m
    <2>3. l = m
      BY <2>1, <2>2, SeqEqual
    <2> QED BY <2>3 DEF l, m
  <1> QED BY <1>1, <1>2, <1>7 DEF p, q

\* The tokens of a message carry its number, and only the first can be a head.
LEMMA FrameTokens ==
  ASSUME NEW m, NEW n \in Number
  PROVE  /\ Frame(m, n) \in Seq(Token)
         /\ Len(Frame(m, n)) \in 1 .. 2
         /\ \A i \in 1 .. Len(Frame(m, n)) :
              Frame(m, n)[i].n = n /\ (Frame(m, n)[i].kind = "head" => i = 1)
  <1>1. CASE m.form = "blank"
    BY <1>1 DEF Frame, Token
  <1>2. CASE m.form = "badLength" /\ m.form # "blank"
    BY <1>2 DEF Frame, Token
  <1>3. CASE m.form # "badLength" /\ m.form # "blank"
    BY <1>3 DEF Frame, Token
  <1> QED BY <1>1, <1>2, <1>3

\* A new message goes behind the others.
LEMMA OrderedAppend ==
  ASSUME NEW s \in Seq(Token), NEW low \in Nat, NEW high \in Nat, NEW m,
         low <= high, high + 1 \in Number, Ordered(s, low, high)
  PROVE  Ordered(s \o Frame(m, high + 1), low, high + 1)
  <1> DEFINE f == Frame(m, high + 1)
             t == s \o f
  <1>1. /\ f \in Seq(Token) /\ Len(f) \in 1 .. 2
        /\ \A i \in 1 .. Len(f) : f[i].n = high + 1 /\ (f[i].kind = "head" => i = 1)
    BY FrameTokens
  <1> HIDE DEF f
  <1>2. /\ Len(t) = Len(s) + Len(f)
        /\ \A i \in 1 .. Len(s) : t[i] = s[i]
        /\ \A i \in Len(s) + 1 .. Len(t) : t[i] = f[i - Len(s)]
    BY <1>1
  <1>3. \A i \in Len(s) + 1 .. Len(t) :
          t[i].n = high + 1 /\ (t[i].kind = "head" => i = Len(s) + 1)
    BY <1>1, <1>2
  <1>4. \A i \in 1 .. Len(s) : s[i].n \in Nat
    <2>1. \A i \in 1 .. Len(s) : s[i] \in Token
      OBVIOUS
    <2> QED BY <2>1, MaxAssumption DEF Token, Number
  <1>5. \A i \in 1 .. Len(t) : t[i].n <= high + 1 /\ (t[i].kind = "head" => low < t[i].n)
    BY <1>2, <1>3, <1>4, <1>1 DEF Ordered
  <1>6. ASSUME NEW i \in 1 .. Len(t), NEW j \in 1 .. Len(t),
               i < j, t[i].kind = "head", t[j].kind = "head"
        PROVE  t[i].n < t[j].n
    <2>1. CASE j <= Len(s)
      BY <2>1, <1>6, <1>2 DEF Ordered
    <2>2. CASE j > Len(s)
      BY <2>2, <1>6, <1>1, <1>2, <1>3, <1>4 DEF Ordered
    <2> QED BY <2>1, <2>2, <1>2, <1>1
  <1> HIDE DEF t
  <1>7. Ordered(t, low, high + 1)
    BY <1>5, <1>6 DEF Ordered
  <1> QED BY <1>7 DEF t, f

\* A token dropped at the front of the buffer.
LEMMA OrderedTail ==
  ASSUME NEW a \in Seq(Token), NEW b \in Seq(Token), NEW low, NEW high,
         a # <<>>, Ordered(a \o b, low, high)
  PROVE  Ordered(Tail(a) \o b, low, high)
  <1> DEFINE s == a \o b
             t == Tail(a) \o b
  <1>1. Len(t) \in Nat /\ Len(s) = Len(t) + 1
    OBVIOUS
  <1>2. \A i \in 1 .. Len(t) : t[i] = s[i + 1]
    OBVIOUS
  <1>3. Ordered(s, low, high)
    OBVIOUS
  <1> HIDE DEF s, t
  <1>4. \A i \in 1 .. Len(t) : i + 1 \in 1 .. Len(s)
    BY <1>1
  <1>5. ASSUME NEW i \in 1 .. Len(t)
        PROVE  t[i].n <= high /\ (t[i].kind = "head" => low < t[i].n)
    BY <1>2, <1>3, <1>4 DEF Ordered
  <1>6. ASSUME NEW i \in 1 .. Len(t), NEW j \in 1 .. Len(t),
               i < j, t[i].kind = "head", t[j].kind = "head"
        PROVE  t[i].n < t[j].n
    <2>1. i + 1 < j + 1
      BY <1>6
    <2> QED BY <2>1, <1>6, <1>2, <1>3, <1>4 DEF Ordered
  <1>7. Ordered(t, low, high)
    BY <1>5, <1>6 DEF Ordered
  <1> QED BY <1>7 DEF t

\* The whole buffer is taken: what is left on the wire came after it.
LEMMA OrderedTaken ==
  ASSUME NEW a \in Seq(Token), NEW b \in Seq(Token), NEW low \in Nat, NEW high \in Nat,
         a # <<>>, Head(a).kind = "head", Ordered(a \o b, low, high)
  PROVE  /\ low < Head(a).n /\ Head(a).n <= high
         /\ Ordered(<<>> \o b, Head(a).n, high)
  <1> DEFINE s == a \o b
  <1>1. Len(a) \in Nat \ {0} /\ Len(b) \in Nat /\ Len(s) = Len(a) + Len(b)
    OBVIOUS
  <1>2. s[1] = Head(a) /\ \A i \in 1 .. Len(b) : b[i] = s[i + Len(a)]
    OBVIOUS
  <1>3. <<>> \o b = b
    OBVIOUS
  <1>4. Ordered(s, low, high)
    OBVIOUS
  <1> HIDE DEF s
  <1>5. 1 \in 1 .. Len(s) /\ \A i \in 1 .. Len(b) : i + Len(a) \in 2 .. Len(s)
    BY <1>1
  <1>6. low < Head(a).n /\ Head(a).n <= high
    BY <1>2, <1>4, <1>5 DEF Ordered
  <1>7. Ordered(b, Head(a).n, high)
    <2>1. ASSUME NEW i \in 1 .. Len(b)
          PROVE  b[i].n <= high /\ (b[i].kind = "head" => Head(a).n < b[i].n)
      BY <1>1, <1>2, <1>4, <1>5 DEF Ordered
    <2>2. ASSUME NEW i \in 1 .. Len(b), NEW j \in 1 .. Len(b),
                 i < j, b[i].kind = "head", b[j].kind = "head"
          PROVE  b[i].n < b[j].n
      <3>1. i + Len(a) < j + Len(a)
        BY <2>2, <1>1
      <3>2. i + Len(a) \in 1 .. Len(s) /\ j + Len(a) \in 1 .. Len(s)
        BY <1>1
      <3> QED BY <3>1, <3>2, <2>2, <1>2, <1>4 DEF Ordered
    <2> QED BY <2>1, <2>2 DEF Ordered
  <1> QED BY <1>3, <1>6, <1>7

(* Initially, and what the invariant says. *)

\* The invariant holds at the start.
LEMMA InitIInv == Init => IInv
  <1> SUFFICES ASSUME Init PROVE IInv
    OBVIOUS
  <1>1. Types
    <2>1. 0 \in 0 .. MaxMessages /\ 1 \in 1 .. MaxBatch + 1
      BY MaxAssumption
    <2>2. /\ log \in [Clients -> Seq(Menu)]
          /\ wire \in [Clients -> Seq(Token)] /\ inbuf \in [Clients -> Seq(Token)]
          /\ sent \in [Clients -> Seq(Answer)]
      BY DEF Init
    <2>3. responses \in [Clients \X Number -> SUBSET (1 .. MaxBatch)]
      BY DEF Init
    <2>4. /\ call \in [Call -> {"none", "running", "added", "released"}]
          /\ pc \in [Clients -> {"idle", "parse", "batch"}]
      BY DEF Init
    <2> QED BY <2>1, <2>2, <2>3, <2>4 DEF Init, Types
  <1>2. StreamInv
    BY MaxAssumption DEF Init, StreamInv, Stream, Ordered
  <1>3. FutureInv
    BY MaxAssumption DEF Init, FutureInv, Untouched, Call, Number
  <1>4. DataInv
    BY MaxAssumption DEF Init, DataInv, Call, Number
  <1>5. FrameInv /\ AnswerInv /\ AnsweredOnce
    BY DEF Init, FrameInv, AnswerInv, AnsweredOnce
  <1> QED BY <1>1, <1>2, <1>3, <1>4, <1>5 DEF IInv

\* The invariant gives the types.
LEMMA IInvTypeOK == IInv => TypeOK
  <1> SUFFICES ASSUME IInv PROVE TypeOK
    OBVIOUS
  <1>1. \A c \in Clients :
          pc[c] = "batch" => cur[c] # 0 /\ log[c][cur[c]].form = "array"
    BY DEF IInv, FrameInv
  <1>2. \A c \in Clients, n \in Number :
          responses[<<c, n>>] # {} => log[c][n].form = "array"
    BY DEF IInv, DataInv
  <1> QED BY <1>1, <1>2 DEF IInv, TypeOK

\* The invariant gives that an answer holds a response for each call it led to.
LEMMA IInvAnswersComplete == IInv => AnswersComplete
  BY DEF IInv, AnswerInv, AnswersComplete

-----------------------------------------------------------------------------
(* The client, the network and the steps of the loop that only parse. *)

\* Nothing but log, hasty and wire changes, and log only grows.
LEMMA SendStep ==
  ASSUME IInv, NEW c \in Clients, NEW m \in Menu, Send(c, m)
  PROVE  IInv'
  <1> DEFINE n == Len(log[c]) + 1
  <1>1. n \in Number /\ Len(log[c]) \in Nat
    BY MaxAssumption DEF IInv, Types, Send, Number
  <1>2. Frame(m, n) \in Seq(Token)
    BY <1>1, FrameTokens
  <1>3. Types'
    <2>1. log' \in [Clients -> Seq(Menu)]
      BY DEF IInv, Types, Send
    <2>2. wire' \in [Clients -> Seq(Token)]
      BY <1>2 DEF IInv, Types, Send
    <2> QED BY <2>1, <2>2 DEF IInv, Types, Send, loopVars, answerVars
  <1>4. \A d \in Clients : /\ Len(log'[d]) >= Len(log[d])
                           /\ \A i \in 1 .. Len(log[d]) : log'[d][i] = log[d][i]
    BY DEF IInv, Types, Send
  <1>5. StreamInv'
    <2> SUFFICES ASSUME NEW d \in Clients
                 PROVE  /\ cur'[d] <= Len(log'[d]) /\ Len(log'[d]) <= MaxMessages
                        /\ Ordered(Stream(d)', cur'[d], Len(log'[d]))
      BY DEF StreamInv
    <2>1. CASE d # c
      BY <2>1 DEF IInv, Types, StreamInv, Stream, Send, loopVars
    <2>2. CASE d = c
      <3>1. Len(log'[c]) = n /\ cur'[c] = cur[c] /\ cur[c] \in Nat
        BY MaxAssumption DEF IInv, Types, Send, loopVars
      <3>2. Stream(c)' = Stream(c) \o Frame(m, n)
        <4>1. wire[c] \in Seq(Token) /\ inbuf[c] \in Seq(Token)
          BY DEF IInv, Types
        <4>2. (inbuf[c] \o wire[c]) \o Frame(m, n) = inbuf[c] \o (wire[c] \o Frame(m, n))
          <5>1. \A a, b, f \in Seq(Token) : (a \o b) \o f = a \o (b \o f)
            BY ConcatAssociative
          <5> QED BY <4>1, <1>2, <5>1
        <4>3. wire'[c] = wire[c] \o Frame(m, n) /\ inbuf'[c] = inbuf[c]
          BY DEF IInv, Types, Send, loopVars
        <4> QED BY <4>2, <4>3 DEF Stream
      <3>3. Stream(c) \in Seq(Token)
        BY DEF IInv, Types, Stream
      <3>4. cur[c] <= Len(log[c]) /\ Ordered(Stream(c), cur[c], Len(log[c]))
        BY DEF IInv, StreamInv
      <3>5. Ordered(Stream(c) \o Frame(m, n), cur[c], n)
        BY <1>1, <3>1, <3>3, <3>4, OrderedAppend
      <3> QED BY <2>2, <1>1, <3>1, <3>2, <3>4, <3>5 DEF Number
    <2> QED BY <2>1, <2>2
  <1>6. \A d \in Clients, i \in Number : i <= cur[d] => log'[d][i] = log[d][i]
    BY <1>4 DEF IInv, Types, StreamInv, Number
  <1>7. /\ pc' = pc /\ cur' = cur /\ elem' = elem
        /\ call' = call /\ responses' = responses /\ sent' = sent
    BY DEF Send, loopVars, answerVars
  <1>8. FutureInv'
    <2>1. \A d \in Clients, i \in Number : Untouched(d, i) => Untouched(d, i)'
      BY <1>7 DEF Untouched
    <2> QED BY <2>1, <1>7 DEF IInv, FutureInv
  <1>9. DataInv'
    BY <1>6, <1>7 DEF IInv, DataInv
  <1>10. FrameInv'
    <2>1. \A d \in Clients : cur[d] # 0 => cur[d] \in Number
      BY DEF IInv, Types, Number
    <2>2. SUFFICES ASSUME NEW d \in Clients, pc[d] = "batch"
                   PROVE  log'[d][cur[d]] = log[d][cur[d]]
      BY <1>7 DEF IInv, FrameInv
    <2>3. cur[d] \in Number
      BY <2>1, <2>2 DEF IInv, FrameInv
    <2> QED BY <2>3, <1>6, MaxAssumption DEF Number
  <1>11. AnswerInv' /\ AnsweredOnce'
    BY <1>7 DEF IInv, AnswerInv, AnsweredOnce, Made, CallsOwning, FrameOwns
  <1> QED BY <1>3, <1>5, <1>8, <1>9, <1>10, <1>11 DEF IInv

\* Steps that change only where the loop is and leave it outside a batch.
LEMMA PcStep ==
  ASSUME IInv, NEW c \in Clients, NEW where \in {"idle", "parse"},
         pc[c] # "batch", ReturnTo(c, where), StreamInv',
         wire' \in [Clients -> Seq(Token)], inbuf' \in [Clients -> Seq(Token)],
         UNCHANGED <<log, hasty, cur, elem, answerVars, open, aborted>>
  PROVE  IInv'
  <1>1. Types'
    BY DEF IInv, Types, ReturnTo, answerVars
  <1>2. /\ log' = log /\ cur' = cur /\ elem' = elem
        /\ call' = call /\ responses' = responses /\ sent' = sent
    BY DEF answerVars
  <1>3. \A d \in Clients : pc'[d] = "batch" <=> pc[d] = "batch"
    BY DEF IInv, Types, ReturnTo
  <1>4. FutureInv'
    <2>1. \A d \in Clients, i \in Number : Untouched(d, i) => Untouched(d, i)'
      BY <1>2 DEF Untouched
    <2> QED BY <2>1, <1>2 DEF IInv, FutureInv
  <1>5. DataInv'
    <2>1. DataInv
      BY DEF IInv
    <2> QED BY <2>1, <1>2 DEF DataInv
  <1>6. FrameInv'
    BY <1>2, <1>3 DEF IInv, FrameInv
  <1>7. AnswerInv'
    <2>1. \A d \in Clients, i \in Nat : FrameOwns(d, i)' <=> FrameOwns(d, i)
      BY <1>2, <1>3 DEF FrameOwns
    <2>2. \A d \in Clients : \A j \in 1 .. Len(sent[d]) : sent[d][j].n \in Nat
      <3>1. \A d \in Clients : sent[d] \in Seq(Answer)
        BY DEF IInv, Types
      <3>2. \A d \in Clients : \A j \in 1 .. Len(sent[d]) : sent[d][j] \in Answer
        BY <3>1
      <3> QED BY <3>2, MaxAssumption DEF Answer, Number
    <2> QED BY <2>1, <2>2, <1>2 DEF IInv, AnswerInv, Made, CallsOwning
  <1>8. AnsweredOnce'
    BY <1>2 DEF IInv, AnsweredOnce
  <1> QED BY <1>1, <1>4, <1>5, <1>6, <1>7, <1>8 DEF IInv

\* A read moves bytes and changes no stream.
LEMMA ReadStream ==
  ASSUME IInv, NEW c \in Clients, Read(c)
  PROVE  /\ wire' \in [Clients -> Seq(Token)] /\ inbuf' \in [Clients -> Seq(Token)]
         /\ \A d \in Clients : Stream(d)' = Stream(d)
  <1>1. PICK k \in 1 .. Len(wire[c]) :
          /\ inbuf' = [inbuf EXCEPT ![c] = @ \o SubSeq(wire[c], 1, k)]
          /\ wire' = [wire EXCEPT ![c] = SubSeq(@, k + 1, Len(@))]
    BY DEF Read
  <1> DEFINE p == SubSeq(wire[c], 1, k)
             q == SubSeq(wire[c], k + 1, Len(wire[c]))
  <1>2. wire[c] \in Seq(Token) /\ inbuf[c] \in Seq(Token)
    BY DEF IInv, Types
  <1>3. p \in Seq(Token) /\ q \in Seq(Token) /\ (inbuf[c] \o p) \o q = inbuf[c] \o wire[c]
    BY <1>2, ReadKeepsStream
  <1>4. inbuf' = [inbuf EXCEPT ![c] = inbuf[c] \o p] /\ wire' = [wire EXCEPT ![c] = q]
    BY <1>1
  <1> HIDE DEF p, q
  <1>5. wire' \in [Clients -> Seq(Token)] /\ inbuf' \in [Clients -> Seq(Token)]
    BY <1>2, <1>3, <1>4 DEF IInv, Types
  <1>6. \A d \in Clients : Stream(d)' = Stream(d)
    BY <1>3, <1>4 DEF IInv, Types, Stream
  <1> QED BY <1>5, <1>6

\* A read keeps the invariant.
LEMMA ReadStep ==
  ASSUME IInv, NEW c \in Clients, Read(c)
  PROVE  IInv'
  <1>1. StreamInv'
    BY ReadStream DEF IInv, StreamInv, Read
  <1> QED BY <1>1, ReadStream, PcStep DEF Read, ReturnTo

\* The steps that find no message to handle keep the invariant.
LEMMA ParseStep ==
  ASSUME IInv, NEW c \in Clients, NeedMore(c) \/ SkipBlank(c) \/ BadLength(c)
  PROVE  IInv'
  <1>1. wire' = wire /\ log' = log /\ cur' = cur /\ pc[c] # "batch" /\ ReturnTo(c, "idle")
    BY DEF NeedMore, SkipBlank, BadLength, AtParse, clientVars
  <1>2. wire[c] \in Seq(Token) /\ inbuf[c] \in Seq(Token)
    BY DEF IInv, Types
  <1>3. CASE inbuf' = inbuf
    <2>1. StreamInv'
      BY <1>1, <1>3 DEF IInv, StreamInv, Stream
    <2> QED BY <1>1, <1>3, <2>1, PcStep
            DEF IInv, Types, NeedMore, SkipBlank, BadLength, clientVars
  <1>4. CASE SkipBlank(c)
    <2>1. inbuf[c] # <<>> /\ inbuf' = [inbuf EXCEPT ![c] = Tail(inbuf[c])]
      BY <1>4 DEF SkipBlank, FrontIs
    <2>2. Tail(inbuf[c]) \in Seq(Token)
      BY <1>2, <2>1
    <2>3. inbuf' \in [Clients -> Seq(Token)]
      BY <2>1, <2>2 DEF IInv, Types
    <2>4. ASSUME NEW d \in Clients
          PROVE  /\ cur[d] <= Len(log[d]) /\ Len(log[d]) <= MaxMessages
                 /\ Ordered(Stream(d)', cur[d], Len(log[d]))
      <3>1. /\ cur[d] <= Len(log[d]) /\ Len(log[d]) <= MaxMessages
            /\ Ordered(Stream(d), cur[d], Len(log[d]))
        BY DEF IInv, StreamInv
      <3>2. CASE d # c
        BY <3>1, <3>2, <2>1, <1>1 DEF IInv, Types, Stream
      <3>3. CASE d = c
        <4>1. Stream(c)' = Tail(inbuf[c]) \o wire[c]
          BY <2>1, <1>1 DEF IInv, Types, Stream
        <4>2. Ordered(Tail(inbuf[c]) \o wire[c], cur[c], Len(log[c]))
          BY <1>2, <2>1, <3>1, <3>3, OrderedTail DEF Stream
        <4> QED BY <3>1, <3>3, <4>1, <4>2
      <3> QED BY <3>2, <3>3
    <2>5. StreamInv'
      BY <2>4, <1>1 DEF StreamInv
    <2> QED BY <1>1, <1>4, <2>3, <2>5, PcStep DEF IInv, Types, SkipBlank, clientVars
  <1> QED BY <1>3, <1>4 DEF NeedMore, BadLength

\* A closed connection: nothing the invariant speaks of.
LEMMA CloseStep ==
  ASSUME IInv, NEW c \in Clients, Close(c)
  PROVE  IInv'
  <1>1. /\ log' = log /\ hasty' = hasty /\ wire' = wire /\ inbuf' = inbuf /\ pc' = pc
        /\ cur' = cur /\ elem' = elem /\ call' = call /\ responses' = responses
        /\ sent' = sent /\ aborted' = aborted /\ open' \in SUBSET Clients
    BY DEF IInv, Types, Close, clientVars, loopVars, answerVars
  <1>2. Types' /\ StreamInv'
    BY <1>1 DEF IInv, Types, StreamInv, Stream
  <1>3. FutureInv'
    <2>1. \A d \in Clients, i \in Number : Untouched(d, i) => Untouched(d, i)'
      BY <1>1 DEF Untouched
    <2> QED BY <2>1, <1>1 DEF IInv, FutureInv
  <1>4. DataInv' /\ FrameInv'
    BY <1>1 DEF IInv, DataInv, FrameInv
  <1>5. AnswerInv' /\ AnsweredOnce'
    BY <1>1 DEF IInv, AnswerInv, AnsweredOnce, Made, CallsOwning, FrameOwns
  <1> QED BY <1>2, <1>3, <1>4, <1>5 DEF IInv

-----------------------------------------------------------------------------
(* Taking a message. *)

\* What taking a message does to the stream: its number n is new and becomes
\* cur, and nothing has been done about it.
LEMMA TakeFacts ==
  ASSUME IInv, NEW c \in Clients, Take(c), UNCHANGED <<log, wire>>
  PROVE  /\ Head(inbuf[c]).n \in Number
         /\ cur[c] < Head(inbuf[c]).n /\ Head(inbuf[c]).n <= Len(log[c])
         /\ cur' = [cur EXCEPT ![c] = Head(inbuf[c]).n]
         /\ inbuf' \in [Clients -> Seq(Token)] /\ cur' \in [Clients -> 0 .. MaxMessages]
         /\ Untouched(c, Head(inbuf[c]).n)
         /\ pc[c] = "parse"
         /\ StreamInv'
  <1> DEFINE n == Head(inbuf[c]).n
  <1>1. /\ wire[c] \in Seq(Token) /\ inbuf[c] \in Seq(Token) /\ inbuf[c] # <<>>
        /\ Head(inbuf[c]).kind = "head" /\ pc[c] = "parse"
    BY DEF IInv, Types, Take, AtParse, HasMessage, FrontIs
  <1>2. cur' = [cur EXCEPT ![c] = n] /\ inbuf' = [inbuf EXCEPT ![c] = <<>>]
    BY DEF Take
  <1>3. /\ cur[c] <= Len(log[c]) /\ Len(log[c]) <= MaxMessages
        /\ Ordered(inbuf[c] \o wire[c], cur[c], Len(log[c]))
    BY DEF IInv, StreamInv, Stream
  <1>4. cur[c] \in Nat /\ Len(log[c]) \in Nat
    BY MaxAssumption DEF IInv, Types
  <1>5. cur[c] < n /\ n <= Len(log[c]) /\ Ordered(<<>> \o wire[c], n, Len(log[c]))
    BY <1>1, <1>3, <1>4, OrderedTaken
  <1>6. n \in Number
    <2>1. Head(inbuf[c]) \in Token
      BY <1>1
    <2> QED BY <2>1 DEF Token
  <1>7. inbuf' \in [Clients -> Seq(Token)] /\ cur' \in [Clients -> 0 .. MaxMessages]
    <2>1. n \in 0 .. MaxMessages /\ <<>> \in Seq(Token)
      BY <1>6 DEF Number
    <2> HIDE DEF n
    <2> QED BY <1>2, <2>1 DEF IInv, Types
  <1>8. Untouched(c, n)
    BY <1>5, <1>6 DEF IInv, FutureInv
  <1> HIDE DEF n
  <1>9. StreamInv'
    <2> SUFFICES ASSUME NEW d \in Clients
                 PROVE  /\ cur'[d] <= Len(log[d]) /\ Len(log[d]) <= MaxMessages
                        /\ Ordered(Stream(d)', cur'[d], Len(log[d]))
      BY DEF StreamInv
    <2>1. CASE d # c
      BY <2>1, <1>2 DEF IInv, Types, StreamInv, Stream
    <2>2. CASE d = c
      <3>1. Stream(c)' = <<>> \o wire[c] /\ cur'[c] = n
        BY <1>2 DEF IInv, Types, Stream
      <3> QED BY <2>2, <3>1, <1>3, <1>5
    <2> QED BY <2>1, <2>2
  <1> QED BY <1>1, <1>2, <1>5, <1>6, <1>7, <1>8, <1>9 DEF n

\* The answers sent so far carry numbers of messages.
LEMMA AnswerNumbers ==
  ASSUME IInv, NEW d \in Clients, NEW j \in 1 .. Len(sent[d])
  PROVE  sent[d][j].n \in Number /\ sent[d][j] \in Answer
  <1>1. sent[d] \in Seq(Answer)
    BY DEF IInv, Types
  <1>2. sent[d][j] \in Answer
    BY <1>1
  <1> QED BY <1>2 DEF Answer

\* Common to the three ways a message is taken: at most its only call is made,
\* or the loop enters handleBatchRequests with it.
LEMMA TakeStep ==
  ASSUME IInv, NEW c \in Clients, Take(c), NEW n, n = Head(inbuf[c]).n,
         UNCHANGED <<log, hasty, wire, responses, sent, open>>, aborted' \in BOOLEAN,
         elem' \in [Clients -> 1 .. MaxBatch + 1],
         \A d \in Clients : d # c => elem'[d] = elem[d],
         NEW where \in {"idle", "parse", "batch"}, ReturnTo(c, where),
         \/ call' = call
         \/ StartCall(<<c, n, 1>>) /\ log[c][n].form # "array",
         where = "batch" =>
           elem'[c] = 1 /\ log[c][n].form = "array" /\ Len(log[c][n].requests) \in Nat
  PROVE  IInv'
  <1>1. /\ n \in Number /\ cur[c] < n /\ n <= Len(log[c])
        /\ cur' = [cur EXCEPT ![c] = n]
        /\ inbuf' \in [Clients -> Seq(Token)] /\ cur' \in [Clients -> 0 .. MaxMessages]
        /\ Untouched(c, n) /\ pc[c] = "parse" /\ StreamInv'
    BY TakeFacts
  <1>2. 1 \in 1 .. MaxBatch /\ <<c, n, 1>> \in Call
    BY <1>1, MaxAssumption DEF Call
  <1>3. call' \in [Call -> {"none", "running", "added", "released"}]
    BY <1>2 DEF IInv, Types, StartCall
  <1>4. \A d \in Clients, m \in Number, i \in 1 .. MaxBatch :
          (d # c \/ m # n) => call'[<<d, m, i>>] = call[<<d, m, i>>]
    BY <1>2 DEF IInv, Types, StartCall, Call
  <1>5. \A i \in 1 .. MaxBatch :
          /\ call[<<c, n, i>>] = "none"
          /\ call'[<<c, n, i>>] \in {"none", "running"}
          /\ (i # 1 \/ log[c][n].form = "array") => call'[<<c, n, i>>] = "none"
    <2> SUFFICES ASSUME NEW i \in 1 .. MaxBatch
                 PROVE  /\ call[<<c, n, i>>] = "none"
                        /\ call'[<<c, n, i>>] \in {"none", "running"}
                        /\ (i # 1 \/ log[c][n].form = "array") =>
                              call'[<<c, n, i>>] = "none"
      OBVIOUS
    <2>1. call[<<c, n, i>>] = "none" /\ <<c, n, i>> \in Call
      BY <1>1 DEF Untouched, Call
    <2>2. CASE call' = call
      BY <2>1, <2>2
    <2>3. CASE StartCall(<<c, n, 1>>) /\ log[c][n].form # "array"
      <3>1. call' = [call EXCEPT ![<<c, n, 1>>] = "running"]
        BY <2>3 DEF StartCall
      <3>2. i # 1 => <<c, n, i>> # <<c, n, 1>>
        OBVIOUS
      <3> QED BY <2>1, <2>3, <3>1, <3>2, <1>2 DEF IInv, Types
    <2> QED BY <2>2, <2>3
  <1>6. pc' = [pc EXCEPT ![c] = where]
    BY DEF ReturnTo
  <1>7. Types'
    BY <1>1, <1>3, <1>6 DEF IInv, Types
  <1>8. \A d \in Clients : cur'[d] = (IF d = c THEN n ELSE cur[d]) /\ cur[d] \in Nat
    BY <1>1, MaxAssumption DEF IInv, Types
  <1>9. FutureInv'
    <2> SUFFICES ASSUME NEW d \in Clients, NEW m \in Number, m > cur'[d]
                 PROVE  Untouched(d, m)'
      BY DEF FutureInv
    <2>1. m > cur[d] /\ (d # c \/ m # n)
      BY <1>1, <1>8, MaxAssumption DEF Number
    <2>2. Untouched(d, m)
      BY <2>1 DEF IInv, FutureInv
    <2> QED BY <2>1, <2>2, <1>4 DEF Untouched
  <1>10. DataInv'
    <2> SUFFICES ASSUME NEW d \in Clients, NEW m \in Number
                 PROVE  IF m <= cur'[d] /\ log[d][m].form = "array"
                          THEN responses[<<d, m>>] =
                                 {i \in 1 .. MaxBatch : call'[<<d, m, i>>] \in {"added", "released"}}
                          ELSE /\ responses[<<d, m>>] = {}
                               /\ \A i \in 1 .. MaxBatch : call'[<<d, m, i>>] # "added"
                               /\ \A i \in 1 .. MaxBatch : i # 1 => call'[<<d, m, i>>] = "none"
      BY DEF DataInv
    <2>1. CASE d = c /\ m = n
      BY <2>1, <1>1, <1>5 DEF Untouched
    <2>2. CASE (d # c \/ m # n) /\ m > cur[d]
      <3>1. Untouched(d, m)
        BY <2>2 DEF IInv, FutureInv
      <3> QED BY <2>2, <3>1, <1>4 DEF Untouched
    <2>3. CASE (d # c \/ m # n) /\ m <= cur[d]
      <3>1. m <= cur'[d]
        BY <2>3, <1>1, <1>8, MaxAssumption DEF Number
      <3> QED BY <2>3, <3>1, <1>4 DEF IInv, DataInv
    <2>4. m <= cur[d] \/ m > cur[d]
      BY <1>8, MaxAssumption DEF Number
    <2> QED BY <2>1, <2>2, <2>3, <2>4
  <1>11. FrameInv'
    <2> SUFFICES ASSUME NEW d \in Clients, pc'[d] = "batch"
                 PROVE  /\ cur'[d] # 0 /\ log[d][cur'[d]].form = "array"
                        /\ elem'[d] <= Len(log[d][cur'[d]].requests) + 1
                        /\ \A i \in 1 .. MaxBatch :
                             i >= elem'[d] => call'[<<d, cur'[d], i>>] = "none"
      BY DEF FrameInv
    <2>1. CASE d = c
      <3>1. where = "batch" /\ cur'[c] = n
        BY <2>1, <1>6, <1>8 DEF IInv, Types
      <3>2. Len(log[c][n].requests) \in Nat
        BY <3>1
      <3>3. n # 0 /\ log[c][n].form = "array" /\ elem'[c] = 1
        BY <3>1, <1>1 DEF Number
      <3>4. 1 <= Len(log[c][n].requests) + 1
        <4>1. \A k \in Nat : 1 <= k + 1
          OBVIOUS
        <4> QED BY <3>2, <4>1, Zenon
      <3> QED BY <2>1, <3>1, <3>3, <3>4, <1>5
    <2>2. CASE d # c
      <3>1. pc[d] = "batch" /\ cur'[d] = cur[d] /\ elem'[d] = elem[d]
        BY <2>2, <1>6, <1>8 DEF IInv, Types
      <3>2. cur[d] \in Number
        BY <3>1 DEF IInv, Types, FrameInv, Number
      <3> QED BY <2>2, <3>1, <3>2, <1>4 DEF IInv, FrameInv
    <2> QED BY <2>1, <2>2
  <1>12. AnswerInv'
    <2> SUFFICES ASSUME NEW d \in Clients, NEW j \in 1 .. Len(sent[d]),
                        NEW m, m = sent[d][j].n
                 PROVE  /\ sent[d][j].ids = Made(d, m)'
                        /\ CallsOwning(d, m)' = {}
                        /\ ~FrameOwns(d, m)'
      BY DEF AnswerInv, Made, CallsOwning, FrameOwns
    <2>1. m \in Number /\ (d # c \/ m # n)
      BY <1>1, AnswerNumbers DEF Untouched
    <2>2. sent[d][j].ids = Made(d, m) /\ CallsOwning(d, m) = {} /\ ~FrameOwns(d, m)
      BY DEF IInv, AnswerInv
    <2>3. Made(d, m)' = Made(d, m) /\ CallsOwning(d, m)' = CallsOwning(d, m)
      <3>1. \A i \in 1 .. MaxBatch : call'[<<d, m, i>>] = call[<<d, m, i>>]
        BY <2>1, <1>4
      <3> QED BY <3>1 DEF Made, CallsOwning
    <2>4. ~FrameOwns(d, m)'
      <3>1. CASE d = c
        BY <3>1, <2>1, <1>8 DEF FrameOwns
      <3>2. CASE d # c
        BY <3>2, <2>2, <1>6, <1>8 DEF IInv, Types, FrameOwns
      <3> QED BY <3>1, <3>2
    <2> QED BY <2>2, <2>3, <2>4
  <1>13. AnsweredOnce'
    BY DEF IInv, AnsweredOnce
  <1> QED BY <1>1, <1>7, <1>9, <1>10, <1>11, <1>12, <1>13 DEF IInv

\* Taking a message from the buffer keeps the invariant.
LEMMA TakingStep ==
  ASSUME IInv, NEW c \in Clients, RejectBody(c) \/ HandleSingle(c) \/ EnterBatch(c)
  PROVE  IInv'
  <1> DEFINE n == Head(inbuf[c]).n
  <1>1. Take(c) /\ UNCHANGED <<log, hasty, wire, responses, sent, open>>
    BY DEF RejectBody, HandleSingle, EnterBatch, clientVars, answerVars
  <1>2. pc[c] = "parse" /\ n \in Number /\ n <= Len(log[c])
    BY <1>1, TakeFacts
  <1>3. Len(log[c][n].requests) \in Nat
    <2>1. log[c][n] \in Menu
      BY <1>2 DEF IInv, Types, Number
    <2>2. log[c][n].requests \in Seq(Request)
      BY <2>1, MenuAssumption
    <2>3. \A s \in Seq(Request) : Len(s) \in Nat
      OBVIOUS
    <2> QED BY <2>2, <2>3, Zenon
  <1>4. CASE RejectBody(c)
    <2>1. ReturnTo(c, "parse") /\ elem' = elem /\ call' = call /\ aborted' \in BOOLEAN
      BY <1>2, <1>4 DEF IInv, Types, RejectBody, ReturnTo, answerVars
    <2>2. elem' \in [Clients -> 1 .. MaxBatch + 1]
      BY <2>1 DEF IInv, Types
    <2> QED BY <1>1, <2>1, <2>2, TakeStep
  <1>5. CASE HandleSingle(c)
    <2>1. PICK where \in {"idle", "parse"} : ReturnTo(c, where)
      BY <1>5 DEF HandleSingle
    <2>2. elem' \in [Clients -> 1 .. MaxBatch + 1] /\ elem' = elem /\ aborted' \in BOOLEAN
      BY <1>5 DEF IInv, Types, HandleSingle
    <2>3. call' = call \/ StartCall(<<c, n, 1>>)
      BY <1>5 DEF HandleSingle
    <2>4. log[c][n].form # "array"
      BY <1>5 DEF HandleSingle, NextMessage
    <2> HIDE DEF n
    <2> QED BY <1>1, <2>1, <2>2, <2>3, <2>4, TakeStep DEF n
  <1>6. CASE EnterBatch(c)
    <2>1. /\ ReturnTo(c, "batch") /\ call' = call /\ log[c][n].form = "array"
          /\ elem' = [elem EXCEPT ![c] = 1] /\ aborted' \in BOOLEAN
      BY <1>6 DEF IInv, Types, EnterBatch, NextMessage, answerVars
    <2>2. /\ elem' \in [Clients -> 1 .. MaxBatch + 1] /\ elem'[c] = 1
          /\ \A d \in Clients : d # c => elem'[d] = elem[d]
      BY <2>1, MaxAssumption DEF IInv, Types
    <2> QED BY <1>1, <1>3, <2>1, <2>2, TakeStep
  <1> QED BY <1>4, <1>5, <1>6

-----------------------------------------------------------------------------
(* Answers. *)

\* One more answer at most, to a message that had none.
LEMMA NewAnswer ==
  ASSUME IInv, NEW c \in Clients, NEW n \in Number, NEW ids \in SUBSET (1 .. MaxBatch),
         sent' = sent \/ SendResponse(c, [n |-> n, ids |-> ids]),
         \A j \in 1 .. Len(sent[c]) : sent[c][j].n # n
  PROVE  /\ sent' \in [Clients -> Seq(Answer)]
         /\ AnsweredOnce'
         /\ \A d \in Clients : \A j \in 1 .. Len(sent'[d]) :
              \/ j \in 1 .. Len(sent[d]) /\ sent'[d][j] = sent[d][j]
              \/ d = c /\ sent'[d][j].n = n /\ sent'[d][j].ids = ids
  <1>1. CASE sent' = sent
    BY <1>1 DEF IInv, Types, AnsweredOnce
  <1>2. CASE sent' # sent
    <2> DEFINE a == [n |-> n, ids |-> ids]
    <2>1. sent' = [sent EXCEPT ![c] = Append(@, a)]
      BY <1>2 DEF SendResponse
    <2>2. a \in Answer /\ a.n = n /\ a.ids = ids
      BY DEF Answer
    <2> HIDE DEF a
    <2>3. sent' \in [Clients -> Seq(Answer)]
      BY <2>1, <2>2 DEF IInv, Types
    <2>4. \A d \in Clients : d # c => sent'[d] = sent[d]
      BY <2>1 DEF IInv, Types
    <2>5. sent[c] \in Seq(Answer) /\ sent'[c] = Append(sent[c], a)
      BY <2>1 DEF IInv, Types
    <2>6. /\ Len(sent[c]) \in Nat /\ Len(sent'[c]) = Len(sent[c]) + 1
          /\ \A j \in 1 .. Len(sent[c]) : sent'[c][j] = sent[c][j]
          /\ sent'[c][Len(sent[c]) + 1] = a
      BY <2>2, <2>5
    <2>7. ASSUME NEW d \in Clients, NEW j \in 1 .. Len(sent'[d])
          PROVE  \/ j \in 1 .. Len(sent[d]) /\ sent'[d][j] = sent[d][j]
                 \/ d = c /\ sent'[d][j].n = n /\ sent'[d][j].ids = ids
      <3>1. CASE d # c
        BY <3>1, <2>4
      <3>2. CASE d = c /\ j <= Len(sent[c])
        BY <3>2, <2>6
      <3>3. CASE d = c /\ j > Len(sent[c])
        <4>1. j = Len(sent[c]) + 1
          BY <3>3, <2>6
        <4> QED BY <3>3, <4>1, <2>2, <2>6
      <3> QED BY <3>1, <3>2, <3>3, <2>6
    <2>8. AnsweredOnce'
      <3> SUFFICES ASSUME NEW d \in Clients,
                          NEW i \in 1 .. Len(sent'[d]), NEW j \in 1 .. Len(sent'[d]),
                          sent'[d][i].n = sent'[d][j].n
                   PROVE  i = j
        BY DEF AnsweredOnce
      <3>1. CASE d # c
        BY <3>1, <2>4 DEF IInv, AnsweredOnce
      <3>2. CASE d = c
        <4>1. CASE i <= Len(sent[c]) /\ j <= Len(sent[c])
          BY <3>2, <4>1, <2>6 DEF IInv, AnsweredOnce
        <4>2. CASE i > Len(sent[c]) /\ j > Len(sent[c])
          BY <3>2, <4>2, <2>6
        <4>3. CASE i <= Len(sent[c]) /\ j > Len(sent[c])
          <5>1. j = Len(sent[c]) + 1 /\ i \in 1 .. Len(sent[c])
            BY <3>2, <4>3, <2>6
          <5> QED BY <3>2, <5>1, <2>2, <2>6
        <4>4. CASE i > Len(sent[c]) /\ j <= Len(sent[c])
          <5>1. i = Len(sent[c]) + 1 /\ j \in 1 .. Len(sent[c])
            BY <3>2, <4>4, <2>6
          <5> QED BY <3>2, <5>1, <2>2, <2>6
        <4> QED BY <3>2, <4>1, <4>2, <4>3, <4>4, <2>6
      <3> QED BY <3>1, <3>2
    <2> QED BY <2>3, <2>7, <2>8
  <1> QED BY <1>1, <1>2

\* While a message has an owner it has not been answered.
LEMMA OwnedNotAnswered ==
  ASSUME IInv, NEW c \in Clients, NEW n, CallsOwning(c, n) # {} \/ FrameOwns(c, n)
  PROVE  \A j \in 1 .. Len(sent[c]) : sent[c][j].n # n
  BY DEF IInv, AnswerInv

\* The loop leaves handleBatchRequests, at its end or by an exception.
LEMMA LeaveStep ==
  ASSUME IInv, NEW c \in Clients, pc[c] = "batch",
         NEW where \in {"idle", "parse"}, LeaveBatch(c, where), aborted' \in BOOLEAN
  PROVE  IInv'
  <1>1. /\ UNCHANGED <<log, hasty, wire, inbuf, cur, elem, call, responses, open>>
        /\ pc' = [pc EXCEPT ![c] = where]
    BY DEF LeaveBatch, ReturnTo, clientVars
  <1>2. PICK n : n = cur[c]
    OBVIOUS
  <1>3. n \in Number /\ log[c][n].form = "array" /\ FrameOwns(c, n)
    BY <1>2 DEF IInv, Types, FrameInv, Number, FrameOwns
  <1>4. PICK ids : ids = responses[<<c, n>>]
    OBVIOUS
  <1>5. ids \in SUBSET (1 .. MaxBatch)
    BY <1>3, <1>4 DEF IInv, Types
  <1>6. sent' = sent \/ (SendResponse(c, [n |-> n, ids |-> ids]) /\ CallsOwning(c, n) = {})
    BY <1>2, <1>4 DEF LeaveBatch, ReleaseFrame, SendBatch
  <1>7. \A j \in 1 .. Len(sent[c]) : sent[c][j].n # n
    BY <1>3, OwnedNotAnswered
  <1>8. /\ sent' \in [Clients -> Seq(Answer)]
        /\ AnsweredOnce'
        /\ \A d \in Clients : \A j \in 1 .. Len(sent'[d]) :
              \/ j \in 1 .. Len(sent[d]) /\ sent'[d][j] = sent[d][j]
              \/ d = c /\ sent'[d][j].n = n /\ sent'[d][j].ids = ids
    BY <1>3, <1>5, <1>6, <1>7, NewAnswer
  <1>9. Types' /\ StreamInv'
    BY <1>1, <1>8 DEF IInv, Types, StreamInv, Stream
  <1>10. FutureInv'
    <2> SUFFICES ASSUME NEW d \in Clients, NEW m \in Number, m > cur[d]
                 PROVE  Untouched(d, m)'
      BY <1>1 DEF FutureInv
    <2>1. Untouched(d, m)
      BY DEF IInv, FutureInv
    <2>2. d = c => m # n
      BY <1>2, <1>3, MaxAssumption DEF Number
    <2> QED BY <2>1, <2>2, <1>1, <1>8 DEF Untouched
  <1>11. DataInv'
    <2>1. DataInv
      BY DEF IInv
    <2> QED BY <2>1, <1>1 DEF DataInv
  <1>12. \A d \in Clients : pc'[d] = "batch" => pc[d] = "batch" /\ d # c
    BY <1>1 DEF IInv, Types
  <1>13. FrameInv'
    BY <1>1, <1>12 DEF IInv, FrameInv
  <1>14. AnswerInv'
    <2> SUFFICES ASSUME NEW d \in Clients, NEW j \in 1 .. Len(sent'[d]),
                        NEW m, m = sent'[d][j].n
                 PROVE  /\ sent'[d][j].ids = Made(d, m)
                        /\ CallsOwning(d, m) = {}
                        /\ ~FrameOwns(d, m)'
      BY <1>1 DEF AnswerInv, Made, CallsOwning
    <2>1. CASE j \in 1 .. Len(sent[d]) /\ sent'[d][j] = sent[d][j]
      <3>1. /\ sent'[d][j].ids = Made(d, m) /\ CallsOwning(d, m) = {}
            /\ ~FrameOwns(d, m)
        BY <2>1 DEF IInv, AnswerInv
      <3> QED BY <3>1, <1>1, <1>12 DEF FrameOwns
    <2>2. CASE ~(j \in 1 .. Len(sent[d]) /\ sent'[d][j] = sent[d][j])
      <3>1. d = c /\ m = n /\ sent'[d][j].ids = ids
        BY <2>2, <1>8
      <3>2. CallsOwning(c, n) = {}
        <4>1. sent' # sent
          BY <2>2
        <4> QED BY <4>1, <1>6
      <3>3. responses[<<c, n>>] =
              {i \in 1 .. MaxBatch : call[<<c, n, i>>] \in {"added", "released"}}
        BY <1>2, <1>3, MaxAssumption DEF IInv, DataInv, Number
      <3>4. \A i \in 1 .. MaxBatch : call[<<c, n, i>>] \in {"none", "released"}
        BY <3>2, <1>3 DEF IInv, Types, CallsOwning, Call
      <3>5. ids = Made(c, n)
        BY <1>4, <3>3, <3>4 DEF Made
      <3>6. ~FrameOwns(c, n)'
        BY <1>12 DEF FrameOwns
      <3> QED BY <3>1, <3>2, <3>5, <3>6
    <2> QED BY <2>1, <2>2
  <1> QED BY <1>8, <1>9, <1>10, <1>11, <1>13, <1>14 DEF IInv

-----------------------------------------------------------------------------
(* Calls. *)

\* What setting one call leaves alone.
LEMMA OtherCalls ==
  ASSUME IInv, NEW c \in Clients, NEW n \in Number, NEW e \in 1 .. MaxBatch,
         NEW state \in {"running", "added", "released"}, SetCall(<<c, n, e>>, state)
  PROVE  /\ call' \in [Call -> {"none", "running", "added", "released"}]
         /\ call'[<<c, n, e>>] = state
         /\ \A d \in Clients, m \in Number, i \in 1 .. MaxBatch :
              (d # c \/ m # n \/ i # e) => call'[<<d, m, i>>] = call[<<d, m, i>>]
  <1>1. <<c, n, e>> \in Call /\ call' = [call EXCEPT ![<<c, n, e>>] = state]
    BY DEF Call, SetCall
  <1>2. call' \in [Call -> {"none", "running", "added", "released"}]
    BY <1>1 DEF IInv, Types
  <1>3. call'[<<c, n, e>>] = state
    BY <1>1 DEF IInv, Types
  <1>4. ASSUME NEW d \in Clients, NEW m \in Number, NEW i \in 1 .. MaxBatch,
               d # c \/ m # n \/ i # e
        PROVE  call'[<<d, m, i>>] = call[<<d, m, i>>]
    <2>1. <<d, m, i>> \in Call /\ <<d, m, i>> # <<c, n, e>>
      BY <1>4 DEF Call
    <2> QED BY <2>1, <1>1 DEF IInv, Types
  <1> QED BY <1>2, <1>3, <1>4

\* Handling an element of a batch keeps the invariant.
LEMMA HandleElementStep ==
  ASSUME IInv, NEW c \in Clients, HandleElement(c)
  PROVE  IInv'
  <1>1. PICK n, e : n = cur[c] /\ e = elem[c]
    OBVIOUS
  <1>2. /\ UNCHANGED <<log, hasty, wire, inbuf, pc, cur, responses, sent, open, aborted>>
        /\ pc[c] = "batch" /\ e <= Len(log[c][n].requests)
        /\ elem' = [elem EXCEPT ![c] = e + 1]
        /\ call' = call \/ SetCall(<<c, n, e>>, "running")
    BY <1>1 DEF HandleElement, InBatch, BatchLeft, StartCall, SetCall, clientVars
  <1>3. n \in Number /\ n <= Len(log[c]) /\ log[c][n].form = "array"
    BY <1>1, <1>2 DEF IInv, Types, FrameInv, StreamInv, Number
  <1>4. Len(log[c][n].requests) \in Nat /\ Len(log[c][n].requests) <= MaxBatch
    <2>1. log[c][n] \in Menu
      BY <1>3 DEF IInv, Types, Number
    <2>2. log[c][n].requests \in Seq(Request) /\ Len(log[c][n].requests) <= MaxBatch
      BY <2>1, MenuAssumption
    <2>3. \A s \in Seq(Request) : Len(s) \in Nat
      OBVIOUS
    <2> QED BY <2>2, <2>3, Zenon
  <1>5. e \in 1 .. MaxBatch /\ e + 1 <= Len(log[c][n].requests) + 1
    <2>1. e \in 1 .. MaxBatch + 1
      BY <1>1 DEF IInv, Types
    <2>2. \A k \in Nat : k <= MaxBatch /\ e <= k => e \in 1 .. MaxBatch /\ e + 1 <= k + 1
      BY <2>1, MaxAssumption
    <2> QED BY <2>2, <1>2, <1>4, Zenon
  <1>6. \A i \in 1 .. MaxBatch : i >= e => call[<<c, n, i>>] = "none"
    BY <1>1, <1>2 DEF IInv, FrameInv
  <1>7. /\ call' \in [Call -> {"none", "running", "added", "released"}]
        /\ call'[<<c, n, e>>] \in {"none", "running"}
        /\ \A d \in Clients, m \in Number, i \in 1 .. MaxBatch :
             (d # c \/ m # n \/ i # e) => call'[<<d, m, i>>] = call[<<d, m, i>>]
    <2>1. CASE call' = call
      BY <2>1, <1>5, <1>6, MaxAssumption DEF IInv, Types
    <2>2. CASE SetCall(<<c, n, e>>, "running")
      BY <2>2, <1>3, <1>5, OtherCalls
    <2> QED BY <2>1, <2>2, <1>2
  <1>8. Types' /\ StreamInv'
    <2>1. e + 1 \in 1 .. MaxBatch + 1
      BY <1>5, MaxAssumption
    <2> QED BY <2>1, <1>2, <1>7 DEF IInv, Types, StreamInv, Stream
  <1>9. FutureInv'
    <2> SUFFICES ASSUME NEW d \in Clients, NEW m \in Number, m > cur[d]
                 PROVE  Untouched(d, m)'
      BY <1>2 DEF FutureInv
    <2>1. Untouched(d, m) /\ (d # c \/ m # n)
      BY <1>1, <1>3, MaxAssumption DEF IInv, FutureInv, Number
    <2> QED BY <2>1, <1>2, <1>7 DEF Untouched
  <1>10. DataInv'
    <2> SUFFICES ASSUME NEW d \in Clients, NEW m \in Number
                 PROVE  IF m <= cur[d] /\ log[d][m].form = "array"
                          THEN responses[<<d, m>>] =
                                 {i \in 1 .. MaxBatch : call'[<<d, m, i>>] \in {"added", "released"}}
                          ELSE /\ responses[<<d, m>>] = {}
                               /\ \A i \in 1 .. MaxBatch : call'[<<d, m, i>>] # "added"
                               /\ \A i \in 1 .. MaxBatch : i # 1 => call'[<<d, m, i>>] = "none"
      BY <1>2 DEF DataInv
    <2>1. CASE d # c \/ m # n
      BY <2>1, <1>7 DEF IInv, DataInv
    <2>2. CASE d = c /\ m = n
      <3>1. responses[<<c, n>>] =
              {i \in 1 .. MaxBatch : call[<<c, n, i>>] \in {"added", "released"}}
        BY <1>1, <1>3, MaxAssumption DEF IInv, DataInv, Number
      <3>2. \A i \in 1 .. MaxBatch :
              call'[<<c, n, i>>] \in {"added", "released"} <=>
                call[<<c, n, i>>] \in {"added", "released"}
        <4>1. call[<<c, n, e>>] = "none"
          BY <1>5, <1>6
        <4> QED BY <4>1, <1>3, <1>7
      <3>3. n <= cur[c]
        BY <1>1, <1>3, MaxAssumption DEF Number
      <3> QED BY <2>2, <3>1, <3>2, <3>3, <1>3
    <2> QED BY <2>1, <2>2
  <1>11. FrameInv'
    <2> SUFFICES ASSUME NEW d \in Clients, pc[d] = "batch"
                 PROVE  /\ cur[d] # 0 /\ log[d][cur[d]].form = "array"
                        /\ elem'[d] <= Len(log[d][cur[d]].requests) + 1
                        /\ \A i \in 1 .. MaxBatch :
                             i >= elem'[d] => call'[<<d, cur[d], i>>] = "none"
      BY <1>2 DEF FrameInv
    <2>1. /\ cur[d] # 0 /\ log[d][cur[d]].form = "array" /\ cur[d] \in Number
          /\ elem[d] <= Len(log[d][cur[d]].requests) + 1
          /\ \A i \in 1 .. MaxBatch : i >= elem[d] => call[<<d, cur[d], i>>] = "none"
      <3>1. cur[d] # 0 => cur[d] \in Number
        BY DEF IInv, Types, Number
      <3> QED BY <3>1 DEF IInv, FrameInv
    <2>2. CASE d # c
      BY <2>1, <2>2, <1>2, <1>7 DEF IInv, Types
    <2>3. CASE d = c
      <3>1. elem'[c] = e + 1
        BY <1>2 DEF IInv, Types
      <3>2. \A i \in 1 .. MaxBatch : i >= e + 1 => call'[<<c, n, i>>] = "none"
        BY <1>3, <1>5, <1>6, <1>7
      <3> QED BY <2>1, <2>3, <3>1, <3>2, <1>1, <1>5
    <2> QED BY <2>2, <2>3
  <1>12. AnswerInv'
    <2> SUFFICES ASSUME NEW d \in Clients, NEW j \in 1 .. Len(sent[d]),
                        NEW m, m = sent[d][j].n
                 PROVE  /\ sent[d][j].ids = Made(d, m)'
                        /\ CallsOwning(d, m)' = {}
                        /\ ~FrameOwns(d, m)'
      BY <1>2 DEF AnswerInv, Made, CallsOwning, FrameOwns
    <2>1. sent[d][j].ids = Made(d, m) /\ CallsOwning(d, m) = {} /\ ~FrameOwns(d, m)
      BY DEF IInv, AnswerInv
    <2>2. m \in Number /\ (d # c \/ m # n)
      BY <2>1, <1>1, <1>2, AnswerNumbers DEF FrameOwns
    <2>3. \A i \in 1 .. MaxBatch : call'[<<d, m, i>>] = call[<<d, m, i>>]
      BY <2>2, <1>7
    <2> QED BY <2>1, <2>3, <1>2 DEF Made, CallsOwning, FrameOwns
  <1>13. AnsweredOnce'
    BY <1>2 DEF IInv, AnsweredOnce
  <1> QED BY <1>8, <1>9, <1>10, <1>11, <1>12, <1>13 DEF IInv

\* A call that has been made belongs to a message that was taken.
LEMMA CallTaken ==
  ASSUME IInv, NEW c \in Clients, NEW n \in Number, NEW e \in 1 .. MaxBatch,
         call[<<c, n, e>>] # "none"
  PROVE  n <= cur[c] /\ cur[c] \in Nat
  <1>1. cur[c] \in Nat
    BY MaxAssumption DEF IInv, Types
  <1>2. ASSUME n > cur[c] PROVE FALSE
    <2>1. Untouched(c, n)
      BY <1>2 DEF IInv, FutureInv
    <2> QED BY <2>1 DEF Untouched
  <1> QED BY <1>1, <1>2, MaxAssumption DEF Number

\* Common to the steps of a call that is open: the message may be answered if
\* the answer is complete and the message has no owner left.
LEMMA CallStep ==
  ASSUME IInv, NEW c \in Clients, NEW n \in Number, NEW e \in 1 .. MaxBatch,
         call[<<c, n, e>>] \in {"running", "added"},
         NEW state \in {"added", "released"}, SetCall(<<c, n, e>>, state),
         UNCHANGED <<clientVars, loopVars, open, aborted>>,
         responses' \in [Clients \X Number -> SUBSET (1 .. MaxBatch)],
         \A d \in Clients, m \in Number :
           d # c \/ m # n => responses'[<<d, m>>] = responses[<<d, m>>],
         NEW ids \in SUBSET (1 .. MaxBatch),
         sent' = sent \/ SendResponse(c, [n |-> n, ids |-> ids]),
         sent' # sent =>
           ids = Made(c, n)' /\ CallsOwning(c, n)' = {} /\ ~FrameOwns(c, n),
         DataInv'
  PROVE  IInv'
  <1>1. /\ log' = log /\ hasty' = hasty /\ wire' = wire /\ inbuf' = inbuf /\ pc' = pc
        /\ cur' = cur /\ elem' = elem /\ open' = open /\ aborted' = aborted
    BY DEF clientVars, loopVars
  <1>2. /\ call' \in [Call -> {"none", "running", "added", "released"}]
        /\ call'[<<c, n, e>>] = state
        /\ \A d \in Clients, m \in Number, i \in 1 .. MaxBatch :
             (d # c \/ m # n \/ i # e) => call'[<<d, m, i>>] = call[<<d, m, i>>]
    <2>1. CASE state = "added"
      BY <2>1, OtherCalls
    <2>2. CASE state = "released"
      BY <2>2, OtherCalls
    <2> QED BY <2>1, <2>2
  <1>3. n <= cur[c] /\ cur[c] \in Nat
    BY CallTaken
  <1>4. CallsOwning(c, n) # {}
    BY DEF CallsOwning
  <1>5. \A j \in 1 .. Len(sent[c]) : sent[c][j].n # n
    BY <1>4, OwnedNotAnswered
  <1>6. /\ sent' \in [Clients -> Seq(Answer)]
        /\ AnsweredOnce'
        /\ \A d \in Clients : \A j \in 1 .. Len(sent'[d]) :
              \/ j \in 1 .. Len(sent[d]) /\ sent'[d][j] = sent[d][j]
              \/ d = c /\ sent'[d][j].n = n /\ sent'[d][j].ids = ids
    BY <1>5, NewAnswer
  <1>7. Types' /\ StreamInv'
    BY <1>1, <1>2, <1>6 DEF IInv, Types, StreamInv, Stream
  <1>8. FutureInv'
    <2> SUFFICES ASSUME NEW d \in Clients, NEW m \in Number, m > cur[d]
                 PROVE  Untouched(d, m)'
      BY <1>1 DEF FutureInv
    <2>1. Untouched(d, m) /\ (d # c \/ m # n)
      BY <1>3, MaxAssumption DEF IInv, FutureInv, Number
    <2>2. \A i \in 1 .. MaxBatch : call'[<<d, m, i>>] = "none"
      BY <2>1, <1>2 DEF Untouched
    <2>3. responses'[<<d, m>>] = {}
      BY <2>1 DEF Untouched
    <2>4. \A j \in 1 .. Len(sent'[d]) : sent'[d][j].n # m
      BY <2>1, <1>6 DEF Untouched
    <2> QED BY <2>2, <2>3, <2>4 DEF Untouched
  <1>9. FrameInv'
    <2> SUFFICES ASSUME NEW d \in Clients, pc[d] = "batch",
                        NEW i \in 1 .. MaxBatch, i >= elem[d]
                 PROVE  call'[<<d, cur[d], i>>] = "none"
      BY <1>1 DEF IInv, FrameInv
    <2>1. cur[d] \in Number /\ call[<<d, cur[d], i>>] = "none"
      <3>1. cur[d] # 0 => cur[d] \in Number
        BY DEF IInv, Types, Number
      <3> QED BY <3>1 DEF IInv, FrameInv
    <2> QED BY <2>1, <1>2
  <1>10. AnswerInv'
    <2> SUFFICES ASSUME NEW d \in Clients, NEW j \in 1 .. Len(sent'[d]),
                        NEW m, m = sent'[d][j].n
                 PROVE  /\ sent'[d][j].ids = Made(d, m)'
                        /\ CallsOwning(d, m)' = {}
                        /\ ~FrameOwns(d, m)'
      BY DEF AnswerInv, Made, CallsOwning, FrameOwns
    <2>1. CASE j \in 1 .. Len(sent[d]) /\ sent'[d][j] = sent[d][j]
      <3>1. /\ sent'[d][j].ids = Made(d, m) /\ CallsOwning(d, m) = {}
            /\ ~FrameOwns(d, m)
        BY <2>1 DEF IInv, AnswerInv
      <3>2. m \in Number /\ (d # c \/ m # n)
        BY <2>1, <1>5, AnswerNumbers
      <3>3. \A i \in 1 .. MaxBatch : call'[<<d, m, i>>] = call[<<d, m, i>>]
        BY <3>2, <1>2
      <3> QED BY <3>1, <3>3, <1>1 DEF Made, CallsOwning, FrameOwns
    <2>2. CASE ~(j \in 1 .. Len(sent[d]) /\ sent'[d][j] = sent[d][j])
      <3>1. d = c /\ m = n /\ sent'[d][j].ids = ids /\ sent' # sent
        BY <2>2, <1>6
      <3> QED BY <3>1, <1>1 DEF FrameOwns
    <2> QED BY <2>1, <2>2
  <1> QED BY <1>6, <1>7, <1>8, <1>9, <1>10 DEF IInv

\* The done of a single request.
LEMMA AnswerSingleStep ==
  ASSUME IInv, NEW c \in Clients, NEW n \in Number, NEW e \in 1 .. MaxBatch,
         AnswerSingle(<<c, n, e>>)
  PROVE  IInv'
  <1>1. /\ call[<<c, n, e>>] = "running" /\ log[c][n].form # "array"
        /\ SetCall(<<c, n, e>>, "released") /\ SendResponse(c, [n |-> n, ids |-> {e}])
        /\ UNCHANGED <<clientVars, loopVars, open, aborted>> /\ responses' = responses
    BY DEF AnswerSingle, IsBatch
  <1>2. /\ call'[<<c, n, e>>] = "released"
        /\ \A d \in Clients, m \in Number, i \in 1 .. MaxBatch :
             (d # c \/ m # n \/ i # e) => call'[<<d, m, i>>] = call[<<d, m, i>>]
    BY <1>1, OtherCalls
  <1>3. /\ responses[<<c, n>>] = {}
        /\ \A i \in 1 .. MaxBatch : i # 1 => call[<<c, n, i>>] = "none"
    BY <1>1 DEF IInv, DataInv
  <1>4. e = 1
    BY <1>1, <1>3
  <1>5. \A i \in 1 .. MaxBatch : i # e => call'[<<c, n, i>>] = "none"
    BY <1>2, <1>3, <1>4
  <1>6. Made(c, n)' = {e} /\ CallsOwning(c, n)' = {}
    BY <1>2, <1>5 DEF Made, CallsOwning
  <1>7. ~FrameOwns(c, n)
    BY <1>1 DEF IInv, FrameInv, FrameOwns
  <1>8. DataInv'
    <2> SUFFICES ASSUME NEW d \in Clients, NEW m \in Number
                 PROVE  IF m <= cur[d] /\ log[d][m].form = "array"
                          THEN responses[<<d, m>>] =
                                 {i \in 1 .. MaxBatch : call'[<<d, m, i>>] \in {"added", "released"}}
                          ELSE /\ responses[<<d, m>>] = {}
                               /\ \A i \in 1 .. MaxBatch : call'[<<d, m, i>>] # "added"
                               /\ \A i \in 1 .. MaxBatch : i # 1 => call'[<<d, m, i>>] = "none"
      BY <1>1 DEF DataInv, clientVars, loopVars
    <2>1. CASE d # c \/ m # n
      BY <2>1, <1>2 DEF IInv, DataInv
    <2>2. CASE d = c /\ m = n
      BY <2>2, <1>1, <1>2, <1>3, <1>4, <1>5
    <2> QED BY <2>1, <2>2
  <1>9. responses' \in [Clients \X Number -> SUBSET (1 .. MaxBatch)]
    BY <1>1 DEF IInv, Types
  <1> QED BY <1>1, <1>6, <1>7, <1>8, <1>9, CallStep

\* A call of a batch: the form of the message, and what its data holds.
LEMMA BatchCall ==
  ASSUME IInv, NEW c \in Clients, NEW n \in Number, NEW e \in 1 .. MaxBatch,
         call[<<c, n, e>>] # "none", call[<<c, n, e>>] = "added" \/ log[c][n].form = "array"
  PROVE  /\ log[c][n].form = "array" /\ n <= cur[c]
         /\ responses[<<c, n>>] =
              {i \in 1 .. MaxBatch : call[<<c, n, i>>] \in {"added", "released"}}
  <1>1. n <= cur[c]
    BY CallTaken
  <1>2. log[c][n].form = "array"
    BY DEF IInv, DataInv
  <1> QED BY <1>1, <1>2 DEF IInv, DataInv

\* The done of a request in a batch.
LEMMA AddResponseStep ==
  ASSUME IInv, NEW c \in Clients, NEW n \in Number, NEW e \in 1 .. MaxBatch,
         AddResponse(<<c, n, e>>)
  PROVE  IInv'
  <1>1. /\ call[<<c, n, e>>] = "running" /\ log[c][n].form = "array"
        /\ SetCall(<<c, n, e>>, "added")
        /\ UNCHANGED <<clientVars, loopVars, open, aborted>> /\ sent' = sent
        /\ responses' = [responses EXCEPT ![<<c, n>>] = @ \cup {e}]
    BY DEF AddResponse, IsBatch
  <1>2. /\ call'[<<c, n, e>>] = "added"
        /\ \A d \in Clients, m \in Number, i \in 1 .. MaxBatch :
             (d # c \/ m # n \/ i # e) => call'[<<d, m, i>>] = call[<<d, m, i>>]
    BY <1>1, OtherCalls
  <1>3. <<c, n>> \in Clients \X Number
    OBVIOUS
  <1>4. /\ responses' \in [Clients \X Number -> SUBSET (1 .. MaxBatch)]
        /\ responses'[<<c, n>>] = responses[<<c, n>>] \cup {e}
    BY <1>1, <1>3 DEF IInv, Types
  <1>5. ASSUME NEW d \in Clients, NEW m \in Number, d # c \/ m # n
        PROVE  responses'[<<d, m>>] = responses[<<d, m>>]
    <2>1. <<d, m>> \in Clients \X Number /\ <<d, m>> # <<c, n>>
      BY <1>5
    <2> QED BY <2>1, <1>1 DEF IInv, Types
  <1>6. /\ n <= cur[c]
        /\ responses[<<c, n>>] =
             {i \in 1 .. MaxBatch : call[<<c, n, i>>] \in {"added", "released"}}
    BY <1>1, BatchCall
  <1>7. DataInv'
    <2> SUFFICES ASSUME NEW d \in Clients, NEW m \in Number
                 PROVE  IF m <= cur[d] /\ log[d][m].form = "array"
                          THEN responses'[<<d, m>>] =
                                 {i \in 1 .. MaxBatch : call'[<<d, m, i>>] \in {"added", "released"}}
                          ELSE /\ responses'[<<d, m>>] = {}
                               /\ \A i \in 1 .. MaxBatch : call'[<<d, m, i>>] # "added"
                               /\ \A i \in 1 .. MaxBatch : i # 1 => call'[<<d, m, i>>] = "none"
      BY <1>1 DEF DataInv, clientVars, loopVars
    <2>1. CASE d # c \/ m # n
      BY <2>1, <1>2, <1>5 DEF IInv, DataInv
    <2>2. CASE d = c /\ m = n
      <3>1. \A i \in 1 .. MaxBatch :
              call'[<<c, n, i>>] \in {"added", "released"} <=>
                i = e \/ call[<<c, n, i>>] \in {"added", "released"}
        BY <1>2
      <3> QED BY <2>2, <3>1, <1>1, <1>4, <1>6
    <2> QED BY <2>1, <2>2
  <1>8. PICK ids \in SUBSET (1 .. MaxBatch) : ids = {}
    OBVIOUS
  <1>9. \A d \in Clients, m \in Number :
          d # c \/ m # n => responses'[<<d, m>>] = responses[<<d, m>>]
    BY <1>5
  <1>10. /\ call[<<c, n, e>>] \in {"running", "added"}
         /\ sent' = sent \/ SendResponse(c, [n |-> n, ids |-> ids])
         /\ sent' # sent =>
              ids = Made(c, n)' /\ CallsOwning(c, n)' = {} /\ ~FrameOwns(c, n)
    BY <1>1
  <1>11. PICK state \in {"added", "released"} : state = "added"
    OBVIOUS
  <1>12. SetCall(<<c, n, e>>, state) /\ UNCHANGED <<clientVars, loopVars, open, aborted>>
    BY <1>1, <1>11
  <1>13. responses' \in [Clients \X Number -> SUBSET (1 .. MaxBatch)]
    BY <1>4
  <1> QED BY <1>7, <1>8, <1>9, <1>10, <1>12, <1>13, CallStep

\* The callback of a request in a batch is destroyed.
LEMMA ReleaseCallStep ==
  ASSUME IInv, NEW c \in Clients, NEW n \in Number, NEW e \in 1 .. MaxBatch,
         ReleaseCall(<<c, n, e>>)
  PROVE  IInv'
  <1>1. /\ call[<<c, n, e>>] = "added"
        /\ SetCall(<<c, n, e>>, "released")
        /\ UNCHANGED <<clientVars, loopVars, open, aborted>> /\ responses' = responses
    BY DEF ReleaseCall
  <1>2. PICK ids : ids = responses[<<c, n>>]
    OBVIOUS
  <1>3. /\ responses' \in [Clients \X Number -> SUBSET (1 .. MaxBatch)]
        /\ ids \in SUBSET (1 .. MaxBatch)
    <2>1. <<c, n>> \in Clients \X Number
      OBVIOUS
    <2> QED BY <2>1, <1>1, <1>2 DEF IInv, Types
  <1>4. \/ sent' = sent
        \/ /\ SendResponse(c, [n |-> n, ids |-> ids])
           /\ ~FrameOwns(c, n) /\ CallsOwning(c, n) = {e}
    BY <1>2 DEF ReleaseCall, LastOwner, SendBatch
  <1>5. /\ call'[<<c, n, e>>] = "released"
        /\ \A d \in Clients, m \in Number, i \in 1 .. MaxBatch :
             (d # c \/ m # n \/ i # e) => call'[<<d, m, i>>] = call[<<d, m, i>>]
    BY <1>1, OtherCalls
  <1>6. /\ n <= cur[c] /\ log[c][n].form = "array"
        /\ responses[<<c, n>>] =
             {i \in 1 .. MaxBatch : call[<<c, n, i>>] \in {"added", "released"}}
    BY <1>1, BatchCall
  <1>7. CallsOwning(c, n) = {e} => ids = Made(c, n)' /\ CallsOwning(c, n)' = {}
    <2> SUFFICES ASSUME CallsOwning(c, n) = {e}
                 PROVE  ids = Made(c, n)' /\ CallsOwning(c, n)' = {}
      OBVIOUS
    <2>1. \A i \in 1 .. MaxBatch : i # e => call[<<c, n, i>>] \in {"none", "released"}
      BY DEF IInv, Types, CallsOwning, Call
    <2>2. \A i \in 1 .. MaxBatch :
            call'[<<c, n, i>>] \in {"none", "released"} /\
            (call'[<<c, n, i>>] # "none" <=> call[<<c, n, i>>] \in {"added", "released"})
      BY <2>1, <1>1, <1>5
    <2> QED BY <2>2, <1>2, <1>6 DEF Made, CallsOwning
  <1>8. DataInv'
    <2>1. \A d \in Clients, m \in Number, i \in 1 .. MaxBatch :
            d # c \/ m # n => call'[<<d, m, i>>] = call[<<d, m, i>>]
      BY <1>5
    <2>2. \A i \in 1 .. MaxBatch :
            call'[<<c, n, i>>] \in {"added", "released"} <=>
              call[<<c, n, i>>] \in {"added", "released"}
      BY <1>1, <1>5
    <2> SUFFICES ASSUME NEW d \in Clients, NEW m \in Number
                 PROVE  IF m <= cur[d] /\ log[d][m].form = "array"
                          THEN responses[<<d, m>>] =
                                 {i \in 1 .. MaxBatch : call'[<<d, m, i>>] \in {"added", "released"}}
                          ELSE /\ responses[<<d, m>>] = {}
                               /\ \A i \in 1 .. MaxBatch : call'[<<d, m, i>>] # "added"
                               /\ \A i \in 1 .. MaxBatch : i # 1 => call'[<<d, m, i>>] = "none"
      BY <1>1 DEF DataInv, clientVars, loopVars
    <2>3. CASE d # c \/ m # n
      BY <2>3, <2>1 DEF IInv, DataInv
    <2>4. CASE d = c /\ m = n
      BY <2>4, <2>2, <1>6
    <2> QED BY <2>3, <2>4
  <1> QED BY <1>1, <1>3, <1>4, <1>7, <1>8, CallStep

-----------------------------------------------------------------------------
(* The theorems. *)

\* Every step keeps the invariant.
LEMMA IInvStep == IInv /\ [Next]_vars => IInv'
  <1> SUFFICES ASSUME IInv, [Next]_vars PROVE IInv'
    OBVIOUS
  <1>1. CASE UNCHANGED vars
    <2>1. /\ log' = log /\ hasty' = hasty /\ wire' = wire /\ inbuf' = inbuf /\ pc' = pc
          /\ cur' = cur /\ elem' = elem /\ call' = call /\ responses' = responses
          /\ sent' = sent /\ open' = open /\ aborted' = aborted
      BY <1>1 DEF vars, clientVars, loopVars, answerVars
    <2>2. Types' /\ StreamInv'
      BY <2>1 DEF IInv, Types, StreamInv, Stream
    <2>3. FutureInv'
      <3>1. \A d \in Clients, i \in Number : Untouched(d, i) => Untouched(d, i)'
        BY <2>1 DEF Untouched
      <3> QED BY <3>1, <2>1 DEF IInv, FutureInv
    <2>4. DataInv' /\ FrameInv'
      BY <2>1 DEF IInv, DataInv, FrameInv
    <2>5. AnswerInv' /\ AnsweredOnce'
      BY <2>1 DEF IInv, AnswerInv, AnsweredOnce, Made, CallsOwning, FrameOwns
    <2> QED BY <2>2, <2>3, <2>4, <2>5 DEF IInv
  <1>2. CASE \E c \in Clients, m \in Menu : Send(c, m)
    BY <1>2, SendStep
  <1>3. CASE \E c \in Clients : Read(c)
    BY <1>3, ReadStep
  <1>4. CASE \E c \in Clients : Close(c)
    BY <1>4, CloseStep
  <1>5. ASSUME NEW c \in Clients, Loop(c) PROVE IInv'
    <2>1. CASE NeedMore(c) \/ SkipBlank(c) \/ BadLength(c)
      BY <2>1, ParseStep
    <2>2. CASE RejectBody(c) \/ HandleSingle(c) \/ EnterBatch(c)
      BY <2>2, TakingStep
    <2>3. CASE HandleElement(c)
      BY <2>3, HandleElementStep
    <2>4. CASE BatchDone(c) \/ BatchRefused(c) \/ BatchThrows(c)
      <3>1. pc[c] = "batch" /\ aborted' \in BOOLEAN
        BY <2>4 DEF IInv, Types, BatchDone, BatchRefused, BatchThrows, InBatch
      <3>2. LeaveBatch(c, "parse") \/ LeaveBatch(c, "idle")
        BY <2>4 DEF BatchDone, BatchRefused, BatchThrows
      <3> QED BY <3>1, <3>2, LeaveStep
    <2> QED BY <1>5, <2>1, <2>2, <2>3, <2>4 DEF Loop
  <1>6. ASSUME NEW k \in Call, Procedure(k) PROVE IInv'
    <2>1. PICK c \in Clients, n \in Number, e \in 1 .. MaxBatch : k = <<c, n, e>>
      BY DEF Call
    <2> QED BY <1>6, <2>1, AnswerSingleStep, AddResponseStep, ReleaseCallStep DEF Procedure
  <1> QED BY <1>1, <1>2, <1>3, <1>4, <1>5, <1>6 DEF Next

\* The invariant always holds.
LEMMA Invariance == Spec => []IInv
  BY InitIInv, IInvStep, PTL DEF Spec

\* The types, and that only batches collect responses (TypeOK).
THEOREM TypeCorrect == Spec => []TypeOK
  BY Invariance, IInvTypeOK, PTL

\* Whatever threads the procedures answer on, in whatever order, and wherever a
\* batch is left by an exception: an answer is sent when nobody can add to it any
\* more (AnswersComplete; ~ThreadSafeData).
THEOREM CompleteAnswers == Spec => []AnswersComplete
  BY Invariance, IInvAnswersComplete, PTL

\* One answer to a message at most (AnsweredOnce).
THEOREM AtMostOneAnswer == Spec => []AnsweredOnce
  <1>1. IInv => AnsweredOnce
    BY DEF IInv
  <1> QED BY <1>1, Invariance, PTL
-----------------------------------------------------------------------------
(* Orderly clients. *)

\* An orderly client has at most one message on its way, and that whole.
Alone(c) ==
  \/ Stream(c) = <<>>
  \/ /\ log[c] # <<>>
     /\ Stream(c) = Frame(log[c][Len(log[c])], Len(log[c]))

AloneInv == \A c \in Clients : Orderly(c) => Alone(c)

\* What stands second is not moved by what is appended.
LEMMA SecondOfConcat ==
  ASSUME NEW a, NEW b, a \in Seq(Token), b \in Seq(Token), Len(a) = 2
  PROVE  (a \o b)[2] = a[2]
OBVIOUS

\* A legal message is a length and a body.
LEMMA LegalFrame ==
  ASSUME NEW m, Legal(m), NEW n
  PROVE  Frame(m, n) = <<[kind |-> "head", n |-> n], [kind |-> "body", n |-> n]>>
  BY DEF Legal, Frame

\* What is in the buffer of an orderly client when something of it is.
LEMMA OrderlyBuffer ==
  ASSUME IInv, AloneInv, NEW c \in Clients, Orderly(c), inbuf[c] # <<>>
  PROVE  /\ log[c] # <<>>
         /\ Legal(log[c][Len(log[c])])
         /\ Stream(c) = <<[kind |-> "head", n |-> Len(log[c])],
                          [kind |-> "body", n |-> Len(log[c])]>>
         /\ Head(inbuf[c]).kind = "head" /\ Head(inbuf[c]).n = Len(log[c])
         /\ Len(inbuf[c]) >= 2 => /\ wire[c] = <<>>
                                  /\ Tail(inbuf[c]) =
                                       <<[kind |-> "body", n |-> Len(log[c])]>>
  <1>1. inbuf[c] \in Seq(Token) /\ wire[c] \in Seq(Token) /\ log[c] \in Seq(Menu)
    BY DEF IInv, Types
  <1>2. PICK a \in Seq(Token), b \in Seq(Token), n \in Nat :
          a = inbuf[c] /\ b = wire[c] /\ n = Len(log[c])
    BY <1>1
  <1>3. a # <<>> /\ Stream(c) = a \o b /\ Len(a) \in Nat /\ Len(b) \in Nat
    BY <1>2 DEF Stream
  <1>4. a \o b # <<>>
    BY <1>3
  <1>5. log[c] # <<>> /\ Stream(c) = Frame(log[c][n], n)
    BY <1>2, <1>3, <1>4 DEF AloneInv, Alone
  <1>6. Legal(log[c][n])
    <2>1. n \in 1 .. Len(log[c])
      BY <1>1, <1>2, <1>5
    <2> QED BY <2>1 DEF Orderly
  <1>7. Stream(c) = <<[kind |-> "head", n |-> n], [kind |-> "body", n |-> n]>>
    BY <1>5, <1>6, LegalFrame
  <1>8. PICK h, t : h = [kind |-> "head", n |-> n] /\ t = [kind |-> "body", n |-> n]
    OBVIOUS
  <1>9. a \o b = <<h, t>>
    BY <1>3, <1>7, <1>8
  <1>10. Head(a) = h
    <2>1. (a \o b)[1] = a[1] /\ Head(a) = a[1]
      BY <1>3
    <2> QED BY <2>1, <1>9
  <1>11. Len(a) >= 2 => b = <<>> /\ Tail(a) = <<t>>
    <2> SUFFICES ASSUME Len(a) >= 2 PROVE b = <<>> /\ Tail(a) = <<t>>
      OBVIOUS
    <2>1. Len(a) + Len(b) = 2
      <3>1. Len(a \o b) = 2
        BY <1>9
      <3>2. Len(a \o b) = Len(a) + Len(b)
        OBVIOUS
      <3> QED BY <3>1, <3>2
    <2>2. Len(a) = 2 /\ Len(b) = 0
      <3>1. PICK x, y : x = Len(a) /\ y = Len(b)
        OBVIOUS
      <3>2. x \in Nat /\ y \in Nat /\ x >= 2 /\ x + y = 2
        BY <1>3, <2>1, <3>1
      <3>3. x = 2 /\ y = 0
        BY <3>2
      <3> QED BY <3>1, <3>3
    <2>3. a[2] = t
      <3>1. (a \o b)[2] = a[2]
        BY <2>2, SecondOfConcat
      <3> QED BY <3>1, <1>9
    <2>4. Tail(a) = <<t>>
      <3>1. Tail(a) \in Seq(Token) /\ Len(Tail(a)) = 1 /\ Tail(a)[1] = t
        BY <1>3, <2>2, <2>3
      <3>2. PICK r, s : r = Tail(a) /\ s = <<t>>
        OBVIOUS
      <3>3. t \in Token
        <4>1. a[2] \in Token
          BY <2>2
        <4> QED BY <4>1, <2>3
      <3>4. r \in Seq(Token) /\ s \in Seq(Token) /\ Len(r) = 1 /\ Len(s) = 1
            /\ r[1] = s[1]
        BY <3>1, <3>2, <3>3
      <3>5. \A i \in 1 .. Len(r) : r[i] = s[i]
        BY <3>4
      <3>6. r = s
        BY <3>4, <3>5, SeqEqual
      <3> QED BY <3>2, <3>6
    <2> QED BY <2>2, <2>3, <2>4
  <1>12. Head(inbuf[c]).kind = "head" /\ Head(inbuf[c]).n = Len(log[c])
    BY <1>2, <1>8, <1>10
  <1> QED BY <1>2, <1>5, <1>6, <1>7, <1>8, <1>11, <1>12

\* A client that is orderly after a step has been so before.
LEMMA StillOrderly ==
  ASSUME IInv, NEW c \in Clients, NEW m \in Menu, Send(c, m),
         NEW d \in Clients, Orderly(d)'
  PROVE  Orderly(d)
  <1>1. d \notin hasty
    BY DEF Send, Orderly
  <1>2. /\ Len(log'[d]) >= Len(log[d])
        /\ \A i \in 1 .. Len(log[d]) : log'[d][i] = log[d][i]
    BY DEF IInv, Types, Send
  <1>3. \A i \in 1 .. Len(log[d]) : i \in 1 .. Len(log'[d])
    <2>1. log[d] \in Seq(Menu) /\ log'[d] \in Seq(Menu)
      BY DEF IInv, Types, Send
    <2> QED BY <1>2, <2>1
  <1> QED BY <1>1, <1>2, <1>3 DEF Orderly

\* Every step keeps one message at most on the way from an orderly client.
LEMMA AloneStep == IInv /\ AloneInv /\ [Next]_vars => AloneInv'
  <1> SUFFICES ASSUME IInv, AloneInv, [Next]_vars, NEW d \in Clients, Orderly(d)'
               PROVE  Alone(d)'
    BY DEF AloneInv
  <1>1. ASSUME log'[d] = log[d], hasty' = hasty, Stream(d)' = Stream(d)
        PROVE  Alone(d)'
    <2>1. Orderly(d)
      BY <1>1 DEF Orderly
    <2> QED BY <1>1, <2>1 DEF AloneInv, Alone
  <1>2. ASSUME UNCHANGED clientVars, inbuf' = inbuf
        PROVE  Alone(d)'
    BY <1>1, <1>2 DEF clientVars, Stream
  <1>3. ASSUME NEW c \in Clients, NEW m \in Menu, Send(c, m)
        PROVE  Alone(d)'
    <2>1. CASE d # c
      <3>1. log'[d] = log[d] /\ wire'[d] = wire[d] /\ inbuf'[d] = inbuf[d]
        BY <1>3, <2>1 DEF IInv, Types, Send, loopVars
      <3>2. Orderly(d)
        BY <1>3, StillOrderly
      <3> QED BY <3>1, <3>2 DEF AloneInv, Alone, Stream
    <2>2. CASE d = c
      <3>1. wire[c] = <<>> /\ inbuf[c] = <<>>
        BY <1>3, <2>2 DEF Send, Orderly
      <3>2. /\ log'[c] = Append(log[c], m)
            /\ wire'[c] = <<>> \o Frame(m, Len(log[c]) + 1)
            /\ inbuf'[c] = <<>>
            /\ log[c] \in Seq(Menu)
        BY <1>3, <3>1 DEF IInv, Types, Send, loopVars
      <3>3. /\ Len(log'[c]) = Len(log[c]) + 1 /\ log'[c][Len(log'[c])] = m
            /\ log'[c] # <<>>
        BY <3>2
      <3>4. PICK f : f = Frame(m, Len(log[c]) + 1)
        OBVIOUS
      <3>5. f \in Seq(Token)
        <4>1. Len(log[c]) + 1 \in Number
          BY <1>3, <3>2, MaxAssumption DEF Send, Number
        <4> QED BY <3>4, <4>1, FrameTokens
      <3>6. <<>> \o (<<>> \o f) = f
        BY <3>5
      <3>7. Stream(c)' = f
        BY <3>2, <3>4, <3>6 DEF Stream
      <3> QED BY <2>2, <3>3, <3>4, <3>7 DEF Alone
    <2> QED BY <2>1, <2>2
  <1>4. ASSUME NEW c \in Clients, Read(c)
        PROVE  Alone(d)'
    <2>1. Stream(d)' = Stream(d)
      BY <1>4, ReadStream
    <2> QED BY <1>1, <1>4, <2>1 DEF Read
  <1>5. ASSUME NEW c \in Clients, SkipBlank(c)
        PROVE  Alone(d)'
    <2>1. CASE d # c
      <3>1. Stream(d)' = Stream(d) /\ log' = log /\ hasty' = hasty
        BY <1>5, <2>1 DEF IInv, Types, SkipBlank, Stream, clientVars
      <3> QED BY <1>1, <3>1
    <2>2. CASE d = c
      <3>1. Orderly(c)
        BY <1>5, <2>2 DEF SkipBlank, clientVars, Orderly
      <3>2. inbuf[c] # <<>> /\ Head(inbuf[c]).kind = "blank"
        BY <1>5 DEF SkipBlank, FrontIs
      <3> QED BY <3>1, <3>2, OrderlyBuffer
    <2> QED BY <2>1, <2>2
  <1>6. ASSUME NEW c \in Clients, Take(c), UNCHANGED clientVars
        PROVE  Alone(d)'
    <2>1. CASE d # c
      <3>1. Stream(d)' = Stream(d)
        BY <1>6, <2>1 DEF IInv, Types, Take, Stream, clientVars
      <3> QED BY <1>1, <1>6, <3>1 DEF clientVars
    <2>2. CASE d = c
      <3>1. Orderly(c)
        BY <1>6, <2>2 DEF clientVars, Orderly
      <3>2. inbuf[c] # <<>> /\ Len(inbuf[c]) >= 2
        BY <1>6 DEF Take, HasMessage, FrontIs
      <3>3. wire[c] = <<>>
        BY <3>1, <3>2, OrderlyBuffer
      <3>4. Stream(c)' = <<>> \o <<>>
        BY <1>6, <3>3 DEF IInv, Types, Take, Stream, clientVars
      <3> QED BY <2>2, <3>4 DEF Alone
    <2> QED BY <2>1, <2>2
  <1>7. ASSUME NEW c \in Clients, Loop(c)
        PROVE  Alone(d)'
    <2>1. CASE NeedMore(c) \/ BadLength(c) \/ HandleElement(c)
      BY <1>2, <2>1 DEF NeedMore, BadLength, HandleElement
    <2>2. CASE RejectBody(c) \/ HandleSingle(c) \/ EnterBatch(c)
      BY <1>6, <2>2 DEF RejectBody, HandleSingle, EnterBatch
    <2>3. CASE BatchDone(c) \/ BatchRefused(c) \/ BatchThrows(c)
      BY <1>2, <2>3 DEF BatchDone, BatchRefused, BatchThrows, LeaveBatch
    <2> QED BY <1>5, <1>7, <2>1, <2>2, <2>3 DEF Loop
  <1>8. ASSUME NEW k \in Call, Procedure(k)
        PROVE  Alone(d)'
    BY <1>2, <1>8 DEF Procedure, AnswerSingle, AddResponse, ReleaseCall, loopVars
  <1>9. ASSUME NEW c \in Clients, Close(c)
        PROVE  Alone(d)'
    BY <1>2, <1>9 DEF Close, loopVars
  <1>10. CASE UNCHANGED vars
    BY <1>2, <1>10 DEF vars, loopVars
  <1> QED BY <1>3, <1>4, <1>7, <1>8, <1>9, <1>10 DEF Next

\* A legal call is neither refused nor does it throw.
LEMMA LegalDispatch ==
  ASSUME NEW m, Legal(m), AllCalls(m), NEW i \in 1 .. Len(m.requests)
  PROVE  Dispatch(m.requests[i]) = "called"
  <1>1. PICK r : r = m.requests[i]
    OBVIOUS
  <1>2. r.wellFormed /\ r.service /\ r.method /\ r.params /\ r.id
    BY <1>1 DEF Legal, AllCalls
  <1>3. Dispatch(r) = "called"
    BY <1>2 DEF Dispatch, isNotify, validateRequest, findProcedure, validateGeneric
  <1> QED BY <1>1, <1>3

\* An exception leaves a loop only while it handles a message of a client that
\* is not orderly.
LEMMA UpStep ==
  IInv /\ AloneInv /\ OrderlyStaysUp /\ [Next]_vars => OrderlyStaysUp'
  <1> SUFFICES ASSUME IInv, AloneInv, OrderlyStaysUp, [Next]_vars, aborted'
               PROVE  \E c \in Clients : ~Orderly(c)'
    BY DEF OrderlyStaysUp
  <1>1. CASE UNCHANGED vars
    BY <1>1 DEF vars, clientVars, OrderlyStaysUp, Orderly
  <1>2. ASSUME NEW c \in Clients, UNCHANGED clientVars, ~Orderly(c)
        PROVE  \E x \in Clients : ~Orderly(x)'
    BY <1>2 DEF clientVars, Orderly
  <1>3. ASSUME NEW c \in Clients, Take(c), UNCHANGED clientVars,
               ~Parses(c) \/ NextMessage(c).requests = <<>>
        PROVE  ~Orderly(c)
    <2> SUFFICES ASSUME Orderly(c) PROVE FALSE
      OBVIOUS
    <2>1. inbuf[c] # <<>> /\ Len(inbuf[c]) >= 2
      BY <1>3 DEF Take, HasMessage, FrontIs
    <2>2. /\ Legal(log[c][Len(log[c])])
          /\ Head(inbuf[c]).n = Len(log[c])
          /\ Tail(inbuf[c]) = <<[kind |-> "body", n |-> Len(log[c])]>>
      BY <2>1, OrderlyBuffer
    <2>3. NextMessage(c).requests # <<>> /\ log[c][Len(log[c])].form # "garbage"
      BY <2>2 DEF NextMessage, Legal
    <2>4. Parses(c)
      <3>1. PICK t, x : t = Taken(c) /\ x = [kind |-> "body", n |-> Len(log[c])]
        OBVIOUS
      <3>2. t = <<x>> /\ x.n = Len(log[c])
        BY <2>2, <3>1 DEF Taken
      <3>3. t # <<>> /\ Head(t).n = Len(log[c]) /\ Len(t) = 1
        BY <3>2
      <3> QED BY <2>3, <3>1, <3>3 DEF Parses
    <2> QED BY <1>3, <2>3, <2>4
  <1>4. ASSUME NEW c \in Clients, HandleSingle(c)
        PROVE  ~Orderly(c)
    <2> SUFFICES ASSUME Orderly(c) PROVE FALSE
      OBVIOUS
    <2>1. inbuf[c] # <<>>
      BY <1>4 DEF HandleSingle, Take, HasMessage, FrontIs
    <2>2. /\ log[c] # <<>> /\ Legal(log[c][Len(log[c])])
          /\ Head(inbuf[c]).n = Len(log[c])
      BY <2>1, OrderlyBuffer
    <2>3. PICK m : m = NextMessage(c)
      OBVIOUS
    <2>4. Legal(m) /\ AllCalls(m)
      <3>1. Len(log[c]) \in 1 .. Len(log[c])
        BY <2>2 DEF IInv, Types
      <3> QED BY <2>2, <2>3, <3>1 DEF NextMessage, Orderly
    <2>5. m.form = "object"
      BY <1>4, <2>3 DEF HandleSingle
    <2>6. 1 \in 1 .. Len(m.requests)
      <3>1. m \in Menu
        BY <2>2, <2>3 DEF IInv, Types, NextMessage
      <3> QED BY <3>1, <2>5, MenuAssumption
    <2>7. Dispatch(m.requests[1]) = "called"
      BY <2>4, <2>6, LegalDispatch
    <2>8. ~aborted'
      BY <1>4, <2>3, <2>7 DEF HandleSingle
    <2> QED BY <2>8
  <1>5. ASSUME NEW c \in Clients, BatchThrows(c)
        PROVE  ~Orderly(c)
    <2> SUFFICES ASSUME Orderly(c) PROVE FALSE
      OBVIOUS
    <2>1. /\ pc[c] = "batch" /\ elem[c] <= Len(log[c][cur[c]].requests)
          /\ Dispatch(BatchElement(c)) = "throws"
      BY <1>5 DEF BatchThrows, InBatch, BatchLeft
    <2>2. cur[c] \in 1 .. Len(log[c])
      BY <2>1 DEF IInv, Types, StreamInv, FrameInv
    <2>3. Legal(log[c][cur[c]]) /\ AllCalls(log[c][cur[c]])
      BY <2>2 DEF Orderly
    <2>4. elem[c] \in 1 .. Len(log[c][cur[c]].requests)
      <3>1. log[c][cur[c]] \in Menu
        BY <2>2 DEF IInv, Types
      <3>2. Len(log[c][cur[c]].requests) \in Nat
        BY <3>1, MenuAssumption
      <3>3. elem[c] \in 1 .. MaxBatch + 1
        BY DEF IInv, Types
      <3> QED BY <2>1, <3>2, <3>3, MaxAssumption
    <2>5. Dispatch(BatchElement(c)) = "called"
      BY <2>3, <2>4, LegalDispatch DEF BatchElement
    <2> QED BY <2>1, <2>5
  <1>6. ASSUME NEW c \in Clients, Loop(c)
        PROVE  \E x \in Clients : ~Orderly(x)'
    <2>1. UNCHANGED clientVars /\ ~aborted
      BY <1>6 DEF Loop, NeedMore, SkipBlank, BadLength, RejectBody, HandleSingle,
                  EnterBatch, HandleElement, BatchDone, BatchRefused, BatchThrows,
                  LeaveBatch, AtParse, InBatch, Take
    <2>2. CASE RejectBody(c)
      BY <1>2, <1>3, <2>1, <2>2 DEF RejectBody
    <2>3. CASE HandleSingle(c)
      BY <1>2, <1>4, <2>1, <2>3
    <2>4. CASE BatchThrows(c)
      BY <1>2, <1>5, <2>1, <2>4
    <2>5. CASE ~RejectBody(c) /\ ~HandleSingle(c) /\ ~BatchThrows(c)
      <3>1. aborted' = aborted
        BY <1>6, <2>5 DEF Loop, NeedMore, SkipBlank, BadLength, EnterBatch,
                          HandleElement, BatchDone, BatchRefused
      <3> QED BY <2>1, <3>1
    <2> QED BY <2>2, <2>3, <2>4, <2>5
  <1>7. ASSUME NEW c \in Clients, NEW m \in Menu, Send(c, m) PROVE FALSE
    BY <1>7 DEF Send
  <1>8. ASSUME NEW c \in Clients, Read(c) \/ Close(c) PROVE FALSE
    BY <1>8 DEF Read, Close
  <1>9. ASSUME NEW k \in Call, Procedure(k) PROVE FALSE
    BY <1>9 DEF Procedure, AnswerSingle, AddResponse, ReleaseCall
  <1> QED BY <1>1, <1>6, <1>7, <1>8, <1>9 DEF Next

\* However the bytes of orderly clients arrive, they do not bring the server
\* down (OrderlyStaysUp; handleMessage).
THEOREM OrderlyClientsHarmless == Spec => []OrderlyStaysUp
  <1>1. Init => AloneInv /\ OrderlyStaysUp
    BY DEF Init, AloneInv, Alone, Stream, OrderlyStaysUp
  <1> QED BY <1>1, AloneStep, UpStep, Invariance, PTL DEF Spec

=============================================================================
