----------------------------- MODULE HttpServer -----------------------------
(***************************************************************************)
(* net/HttpServer.cpp with HttpContext.cpp, HttpRespond.cpp and the input  *)
(* buffer, for one connection.  onMessage parses what has arrived in a     *)
(* context of its own, line by line, and answers if that ends a request:   *)
(* a request line that came alone is consumed and forgotten, a second      *)
(* request stays in the buffer until more arrives, a body is never         *)
(* consumed.                                                               *)
(*                                                                         *)
(* A byte stands for a whole text or end of line: the code tells apart a   *)
(* request line by its version, a Connection header by its value, other    *)
(* headers, and text that is none of these.                                *)
(***************************************************************************)
EXTENDS Buffer

CONSTANTS
  Requests,             \* the requests that clients send
  Fragments,            \* what else may be on the wire
  MaxMessages           \* bound on both

Header == {"Connection: close", "Connection: Keep-Alive", "Other:"}
Request == [line: {"GET 1.0", "GET 1.1"}, headers: Seq(Header)]

\* What a client sends for a request: each line ends with an end of line, and
\* an empty one is the last.
Encode(r) ==
  <<r.line, "crlf">> \o
  [i \in 1 .. 2 * Len(r.headers) |->
     IF i % 2 = 1 THEN r.headers[(i + 1) \div 2] ELSE "crlf"] \o
  <<"crlf">>

ASSUME MessageAssumption ==
  /\ \A r \in Requests : r \in Request /\ Encode(r) \in Seq(Byte)
  /\ Fragments \subseteq Seq(Byte)
  /\ MaxMessages \in Nat

VARIABLES
  wire,                 \* sent, and not read
  input,                \* inputBuffer_
  unread,               \* ghost: read, and not retrieved
  pc,                   \* onMessage: idle, or its loop
  part,                 \* HttpContext::part_
  version, connection,  \* of the HttpRequest: the version and a header
  connected,            \* TcpConnection's state: no shutdown
  answers,              \* responses sent
  log,                  \* ghost: the requests sent, and a mark per fragment
  orderly               \* ghost: they were all that was sent, and each came
                        \* alone and whole, in one read

requestVars == <<part, version, connection>>
bufferVars == <<input, unread>>
vars == <<wire, bufferVars, pc, requestVars, connected, answers, log, orderly>>

TypeOK ==
  /\ wire \in Seq(Byte) /\ input \in Buffers /\ unread \in Seq(Byte)
  /\ pc \in {"idle", "parse", "bad", "answer"}
  /\ part \in {"RequestLine", "Headers", "End"}
  /\ version \in {"Http10", "Http11", "Unknown"}
  /\ connection \in {"", "close", "Keep-Alive"}
  /\ connected \in BOOLEAN /\ orderly \in BOOLEAN

NewContext == part' = "RequestLine" /\ version' = "Unknown" /\ connection' = ""

Init ==
  /\ wire = <<>> /\ unread = <<>>
  /\ input = EmptyBuffer
  /\ pc = "idle"
  /\ part = "RequestLine" /\ version = "Unknown" /\ connection = ""
  /\ connected = TRUE
  /\ answers = <<>> /\ log = <<>>
  /\ orderly = TRUE

-----------------------------------------------------------------------------
Version(line) == IF line = <<"GET 1.0">> THEN "Http10"
                 ELSE IF line = <<"GET 1.1">> THEN "Http11" ELSE "Unknown"
HasColon(line) == \E i \in 1 .. Len(line) : line[i] \in Header
Connection(line) == IF line = <<"Connection: close">> THEN "close"
                    ELSE IF line = <<"Connection: Keep-Alive">> THEN "Keep-Alive"
                    ELSE connection

\* Nothing of an earlier request is left anywhere.
Quiet == wire = <<>> /\ unread = <<>> /\ pc = "idle" /\ connected

SendRequest(r) ==
  /\ Len(log) < MaxMessages
  /\ wire' = wire \o Encode(r)
  /\ log' = Append(log, r)
  /\ orderly' = (orderly /\ Quiet)
  /\ UNCHANGED <<bufferVars, pc, requestVars, connected, answers>>

SendFragment(f) ==
  /\ Len(log) < MaxMessages
  /\ wire' = wire \o f
  /\ log' = Append(log, [line |-> "text", headers |-> <<>>])
  /\ orderly' = FALSE
  /\ UNCHANGED <<bufferVars, pc, requestVars, connected, answers>>

\* TcpConnection reads what has come and fits, and calls onMessage.
OnMessage ==
  /\ pc = "idle"
  /\ \E n \in 1 .. Len(wire) :
       /\ n <= Room(input)
       /\ input' = ReadFd(input, SubSeq(wire, 1, n))
       /\ unread' = unread \o SubSeq(wire, 1, n)
       /\ wire' = SubSeq(wire, n + 1, Len(wire))
       /\ orderly' = (orderly /\ n = Len(wire))
  /\ pc' = "parse"
  /\ NewContext
  /\ UNCHANGED <<connected, answers, log>>

\* findCRLF: the bytes before the first end of line, if there is one.
Lines == {n \in 1 .. Len(Contents(input)) : Contents(input)[n] = "crlf"}
LineEnd == CHOOSE n \in Lines : \A m \in Lines : n <= m
Line == SubSeq(Contents(input), 1, LineEnd - 1)

\* A mistake: retrieves up to the end of line and not behind it.
Consumed_Text == LineEnd - 1
Consumed == LineEnd
RetrieveLine ==
  /\ input' = Retrieve(input, Consumed)
  /\ unread' = SubSeq(unread, Consumed + 1, Len(unread))

ParseRequestLine ==
  /\ pc = "parse" /\ part = "RequestLine" /\ Lines # {}
  /\ version' = Version(Line)
  /\ IF version' # "Unknown"
       THEN part' = "Headers" /\ RetrieveLine /\ UNCHANGED pc
       ELSE pc' = "bad" /\ UNCHANGED <<part, bufferVars>>
  /\ UNCHANGED <<wire, connection, connected, answers, log, orderly>>

\* A line without a colon ends the headers.
ParseHeader ==
  /\ pc = "parse" /\ part = "Headers" /\ Lines # {}
  /\ RetrieveLine
  /\ IF HasColon(Line)
       THEN connection' = Connection(Line) /\ UNCHANGED <<part, pc>>
       ELSE part' = "End" /\ pc' = "answer" /\ UNCHANGED connection
  /\ UNCHANGED <<wire, version, connected, answers, log, orderly>>

\* No whole line is left: the context is lost.
NotEnough ==
  /\ pc = "parse" /\ Lines = {}
  /\ pc' = "idle"
  /\ UNCHANGED <<wire, bufferVars, requestVars, connected, answers, log, orderly>>

\* send does nothing once the connection was shut down.
Answer(status, close) ==
  /\ answers' = IF connected THEN Append(answers, [status |-> status, close |-> close])
                ELSE answers
  /\ connected' = (connected /\ ~close)
  /\ pc' = "idle"
  /\ UNCHANGED <<wire, bufferVars, requestVars, log, orderly>>

BadRequest == pc = "bad" /\ Answer("400", TRUE)

Close(v, c) == c = "close" \/ (v = "Http10" /\ c # "Keep-Alive")

\* onRequest; the user's callback may ask to close, as the default one does.
OnRequest ==
  /\ pc = "answer"
  /\ Answer("found", Close(version, connection)) \/ Answer("NotFound", TRUE)

Loop == OnMessage \/ ParseRequestLine \/ ParseHeader \/ NotEnough
        \/ BadRequest \/ OnRequest
Next == Loop 
        \/ \E r \in Requests : SendRequest(r)
        \/ \E f \in Fragments : SendFragment(f)
Spec == Init /\ [][Next]_vars

-----------------------------------------------------------------------------
\* The indices of the input buffer stay in the vector and the bytes between them
\* are those read and not retrieved, however the buffer grew and was compacted.
BufferExact == InBounds(input) /\ Contents(input) = unread

\* A request that comes alone and whole is answered once, in order, and the
\* connection kept or shut down as the protocol and the last Connection header
\* say, before it is idle again.
LastIs(r, h) ==
  \E i \in 1 .. Len(r.headers) :
    /\ r.headers[i] = h
    /\ \A j \in i + 1 .. Len(r.headers) : r.headers[j] = "Other:"
AnswerOf(r, a) ==
  \/ a.status = "NotFound" /\ a.close
  \/ /\ a.status = "found"
     /\ a.close <=> IF r.line = "GET 1.1" THEN LastIs(r, "Connection: close")
                    ELSE ~LastIs(r, "Connection: Keep-Alive")
OrderlyAnswered ==
  orderly /\ pc = "idle" /\ wire = <<>> =>
    /\ Len(answers) = Len(log)
    /\ \A n \in 1 .. Len(log) : AnswerOf(log[n], answers[n])

=============================================================================
