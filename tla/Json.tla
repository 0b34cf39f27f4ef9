-------------------------------- MODULE Json --------------------------------
(***************************************************************************)
(* jackson: Value::writeTo drives a Writer, which makes a text; Reader     *)
(* parses a text and drives a Document, which makes a Value again.  What   *)
(* they exchange are the events of the value in preorder: scalars, keys,   *)
(* and starts and ends of arrays and objects.                              *)
(*                                                                         *)
(* A text is a sequence of tokens without white space: the marks           *)
(* [ ] { } , : and scalars.  Strings that hold a quote stand for all that  *)
(* a writer has to escape.  Of doubles, those that %.17g prints as a minus *)
(* and digits only (-0 and the whole numbers above -10^17) have a class of *)
(* their own, and so have the denormal ones, which strtod takes for a      *)
(* range error; any other is named by what is printed of it.               *)
(* A text that no Writer made is chosen token by token while it is read.   *)
(***************************************************************************)
EXTENDS Integers, Sequences, SequencesExt

CONSTANTS
  Scalars,              \* the scalar events that values are made of
  Keys,                 \* the keys of objects
  ForeignTokens,        \* the tokens of other texts, without the marks
  MaxInt32,             \* of an int32_t
  MaxEvents, MaxTokens, \* bounds on a written value and on another text
  MaxDepth              \* bound on the nesting of a written value

ASSUME JsonAssumption ==
  /\ MaxInt32 \in Nat /\ MaxInt32 <= 2147483647
  /\ MaxEvents \in Nat /\ MaxTokens \in Nat /\ MaxDepth \in Nat

IsInt32(n) == -MaxInt32 - 1 <= n /\ n <= MaxInt32
Magnitude(n) == IF n < 0 THEN -n ELSE n

\* The scalars of Value, and numbers of at most 64 bits.
ASSUME ScalarsAssumption ==
  \A e \in Scalars :
    \/ e \in {[op |-> op] : op \in {"null", "true", "false"}}
    \/ e \in [op : {"String"}, s : STRING]
    \/ e \in [op : {"Double"}, class : {"denormal", "other"}, d : STRING]
    \/ /\ DOMAIN e = {"op", "class", "n"}
       /\ e = [op |-> "Double", class |-> "negative whole", n |-> e.n]
       /\ e.n \in Nat /\ e.n \div 10^9 < 10^8
    \/ /\ DOMAIN e = {"op", "n"} /\ e = [op |-> e.op, n |-> e.n] /\ e.n \in Int
       /\ \/ e.op = "Int32" /\ IsInt32(e.n)
          \/ e.op = "Int64" /\ (Magnitude(e.n) \div 2^30) \div 2^30 < 16

Quoted == "a quote"     \* the string, or key, that has to be escaped

VARIABLES
  status,               \* writing, reading, a ParseError, or aborted
  foreign,              \* the text was not made by a Writer
  written,              \* ghost: the events of the value written
  wstack,               \* Writer::stack_, with the keys of the Value so far
  text,                 \* what was written, or chosen
  pos,                  \* StringReadStream: the tokens read
  frames, want,         \* the calls of Reader, and what the innermost expects
  doc,                  \* the Document's Value, as its events
  dstack, key           \* Document::stack_ and key_

writerVars == <<foreign, written, wstack>>
documentVars == <<doc, dstack, key>>
readerVars == <<pos, frames, want>>
jsonVars == <<status, writerVars, text, readerVars, documentVars>>

Marks == {"[", "]", "{", "}", ",", ":"}
Mark(m) == [t |-> m]
EndOfText == [t |-> "end"]
Plain(op) == [op |-> op]
KeyEvent(s) == [op |-> "Key", s |-> s]
DoubleEvent(d) == [op |-> "Double", class |-> "other", d |-> d]

\* What parseString throws.
StringErrors ==
  {"PARSE_BAD_STRING_CHAR", "PARSE_BAD_STRING_ESCAPE", "PARSE_BAD_UNICODE_HEX",
   "PARSE_BAD_UNICODE_SURROGATE", "PARSE_MISS_QUOTATION_MARK"}

ASSUME TokensAssumption ==
  /\ EndOfText \notin ForeignTokens
  /\ \A t \in ForeignTokens : t.t = "broken" => t.error \in StringErrors

JsonInit ==
  /\ status = "writing"
  /\ foreign \in BOOLEAN
  /\ written = <<>> /\ wstack = <<>> /\ text = <<>>
  /\ pos = 0 /\ frames = <<>> /\ want = "value"
  /\ doc = <<>> /\ dstack = <<>> /\ key = Plain("none")

-----------------------------------------------------------------------------
(* Numbers. *)

Twos[b \in 0 .. 64] == IF b = 0 THEN 1 ELSE 2 * Twos[b - 1]
Tens[t \in 0 .. 20] == IF t = 0 THEN 1 ELSE 10 * Tens[t - 1]

\* countDigits, with the bits of n | 1 instead of 32 or 64 less the leading zeros.
BitLength(n) == CHOOSE b \in 1 .. 64 : n \div Twos[b - 1] = 1
PowersOf10(t) == IF t = 0 THEN 0 ELSE Tens[t]
\* A mistake: <= for <.
CountDigits_Le(n) ==
  LET t == (BitLength(IF n % 2 = 0 THEN n + 1 ELSE n) * 1233) \div 4096
  IN t - (IF n <= PowersOf10(t) THEN 1 ELSE 0) + 1
CountDigits(n) ==
  LET t == (BitLength(IF n % 2 = 0 THEN n + 1 ELSE n) * 1233) \div 4096
  IN t - (IF n < PowersOf10(t) THEN 1 ELSE 0) + 1

\* itoa: the digits are put in place from the last.
Itoa(n) ==
  LET u == Magnitude(n)
      count == CountDigits(u)
  IN [t |-> "digits", neg |-> n < 0, suffix |-> "",
      ds |-> [i \in 1 .. count |-> (u \div Tens[count - i]) % 10]]

Atoi(token) ==
  LET upTo[i \in 0 .. Len(token.ds)] ==
        IF i = 0 THEN 0 ELSE 10 * upTo[i - 1] + token.ds[i]
      u == upTo[Len(token.ds)]
  IN IF token.neg THEN -u ELSE u

\* What Writer::Double makes of what %.17g prints: infinity loses its sign, and
\* ".0" is added if there is nothing but digits, which a minus is not.  A denormal
\* is written as any other double, but is a number that Reader has no range for.
DoubleText(e) ==
  CASE e.class = "negative whole" -> [Itoa(e.n) EXCEPT !.neg = TRUE]
    [] e.class = "denormal" -> [t |-> "huge"]
    [] e.class = "other" /\ e.d \in {"inf", "-inf"} -> [t |-> "Infinity"]
    [] e.class = "other" /\ e.d = "nan" -> [t |-> "NaN"]
    [] e.class = "other" /\ e.d \notin {"inf", "-inf", "nan"} -> [t |-> "real", d |-> e.d]

-----------------------------------------------------------------------------
(* \u escapes. *)

IsHigh(u) == \hD800 <= u /\ u <= \hDBFF
IsLow(u) == \hDC00 <= u /\ u <= \hDFFF
BadSurrogate(us) == IsHigh(us[1]) /\ (Len(us) = 1 \/ ~IsLow(us[2]))
CodePoint(us) ==
  IF IsHigh(us[1]) THEN \h10000 + (us[1] - \hD800) * \h400 + (us[2] - \hDC00)
  ELSE us[1]

\* The last n groups of six bits, one per byte.
Continued(u, n) == [i \in 1 .. n |-> \h80 + ((u \div 64^(n - i)) % 64)]
EncodeUtf8(u) ==
  CASE u <= \h7F -> <<u>>
    [] \h80 <= u /\ u <= \h7FF -> <<\hC0 + (u \div 64)>> \o Continued(u, 1)
    [] \h800 <= u /\ u <= \hFFFF -> <<\hE0 + (u \div 64^2)>> \o Continued(u, 2)
    [] OTHER -> <<\hF0 + (u \div 64^3)>> \o Continued(u, 3)

-----------------------------------------------------------------------------
(* Writer. *)

\* prefix: the mark before the next value or key.
Prefix ==
  IF wstack = <<>> THEN <<>>
  ELSE LET top == Last(wstack) IN
       IF ~top.inArray /\ top.valueCount % 2 = 1 THEN <<Mark(":")>>
       ELSE IF top.valueCount > 0 THEN <<Mark(",")>> ELSE <<>>

Counted(keys) ==
  IF wstack = <<>> THEN <<>>
  ELSE Front(wstack) \o <<[Last(wstack) EXCEPT !.valueCount = @ + 1,
                                               !.keys = @ \cup keys]>>

\* What a scalar is written as.
Written(e) ==
  CASE e.op \in {"Int32", "Int64"} -> Itoa(e.n)
    [] e.op = "Double" -> DoubleText(e)
    [] e.op = "String" -> [t |-> "string", s |-> e.s]
    [] OTHER -> [t |-> e.op]

\* Key does not escape: a quote ends the string, and the rest is no JSON.
KeyText(s) ==
  IF s = Quoted THEN <<[t |-> "string", s |-> "a"], [t |-> "junk"]>>
  ELSE <<[t |-> "string", s |-> s]>>

\* What writeTo calls next, given that a value is a tree with unique keys.
Due(e) ==
  IF wstack = <<>> THEN written = <<>> /\ e.op \notin {"Key", "EndArray", "EndObject"}
  ELSE LET top == Last(wstack) IN
    IF top.inArray THEN e.op \notin {"Key", "EndObject"}
    ELSE IF top.valueCount % 2 = 1 THEN e.op \notin {"Key", "EndArray", "EndObject"}
    ELSE e.op = "EndObject" \/ (e.op = "Key" /\ e.s \notin top.keys)

Write(e) ==
  /\ status = "writing" /\ ~foreign
  /\ Due(e)
  /\ written' = Append(written, e)
  /\ \/ /\ e.op \in {"StartArray", "StartObject"}
        /\ wstack' = Append(Counted({}), [inArray |-> e.op = "StartArray",
                                          valueCount |-> 0, keys |-> {}])
        /\ text' = text \o Prefix
                     \o <<Mark(IF e.op = "StartArray" THEN "[" ELSE "{")>>
     \/ /\ e.op \in {"EndArray", "EndObject"}
        /\ wstack' = Front(wstack)
        /\ text' = Append(text, Mark(IF e.op = "EndArray" THEN "]" ELSE "}"))
     \/ /\ e.op = "Key"
        /\ wstack' = Counted({e.s})
        /\ text' = text \o Prefix \o KeyText(e.s)
     \/ /\ e.op \notin {"StartArray", "StartObject", "EndArray", "EndObject", "Key"}
        /\ wstack' = Counted({})
        /\ text' = text \o Prefix \o <<Written(e)>>
  /\ UNCHANGED <<status, foreign, readerVars, documentVars>>

\* A user makes and writes any value.
Events == Scalars \cup {KeyEvent(s) : s \in Keys} \cup
          {Plain(op) : op \in {"StartArray", "EndArray", "StartObject", "EndObject"}}
WriteAny ==
  \E e \in Events :
    /\ Len(written) + Len(wstack) < MaxEvents
       \/ (e.op \in {"EndArray", "EndObject"} /\ written # <<>>)
    /\ e.op \in {"StartArray", "StartObject"} => Len(wstack) < MaxDepth
    /\ Write(e)

StartReading ==
  /\ status = "writing"
  /\ foreign \/ (written # <<>> /\ wstack = <<>>)
  /\ status' = "reading"
  /\ UNCHANGED <<writerVars, text, readerVars, documentVars>>

-----------------------------------------------------------------------------
(* Document.  An assertion that fails stops the process. *)

\* addValue, with addMember.  s is the event of a string, or of no use.
Top == Last(dstack)
InObject == dstack # <<>> /\ Top.type = "object"
KeyExpected == InObject /\ Top.count % 2 = 0
Accepts(isString) ==
  /\ doc # <<>> => dstack # <<>>
  /\ KeyExpected => isString
  /\ InObject /\ ~KeyExpected => key \notin Top.keys
AddedTo ==
  IF dstack = <<>> THEN <<>>
  ELSE Front(dstack) \o
       <<[Top EXCEPT !.count = @ + 1,
                     !.keys = IF InObject /\ ~KeyExpected THEN @ \cup {key} ELSE @]>>

Abort == status' = "aborted" /\ UNCHANGED documentVars

AddValue(e, isString, opened) ==
  IF ~Accepts(isString) THEN Abort
  ELSE /\ doc' = Append(doc, e)
       /\ dstack' = AddedTo \o opened
       /\ key' = IF KeyExpected THEN e ELSE key
       /\ UNCHANGED status

Start(type) == AddValue(Plain(IF type = "array" THEN "StartArray" ELSE "StartObject"),
                        FALSE, <<[type |-> type, count |-> 0, keys |-> {}]>>)
End(type) ==
  IF dstack = <<>> \/ Top.type # type THEN Abort
  ELSE /\ doc' = Append(doc, Plain(IF type = "array" THEN "EndArray" ELSE "EndObject"))
       /\ dstack' = Front(dstack)
       /\ UNCHANGED <<key, status>>

-----------------------------------------------------------------------------
(* Reader.  One step reads one token; t is the next one. *)

Throw(error) == status' = error /\ UNCHANGED <<readerVars, documentVars>>
Go(next) == pos' = pos + 1 /\ want' = next
InArray == frames # <<>> /\ Last(frames) = "array"

StringEvent(op, t) ==
  IF t.t = "escape" THEN [op |-> op, utf8 |-> EncodeUtf8(CodePoint(t.us))]
  ELSE [op |-> op, s |-> t.s]

\* A broken string holds what parseString refuses, or does not end.
IsString(t) == t.t \in {"string", "escape", "broken"}
StringError(t) ==
  CASE t.t = "broken" -> {t.error}
    [] t.t = "escape" /\ BadSurrogate(t.us) -> {"PARSE_BAD_UNICODE_SURROGATE"}
    [] OTHER -> {}

\* parseLiteral and parseNumber: the type comes from how the number is written.
ReadScalar(t) ==
  CASE t.t \in {"null", "true", "false"} -> [op |-> t.t]
    [] t.t = "NaN" -> DoubleEvent("nan")
    [] t.t = "Infinity" -> DoubleEvent("inf")
    [] t.t = "real" -> DoubleEvent(t.d)
    [] t.t = "digits" ->
         [op |-> IF t.suffix = "i64" \/ ~IsInt32(Atoi(t)) THEN "Int64" ELSE "Int32",
          n |-> Atoi(t)]
IsScalar(t) == t.t \in {"null", "true", "false", "NaN", "Infinity", "real", "digits"}
TooBig(t) == t.t = "huge"
             \/ (t.t = "digits" /\ t.suffix = "i32" /\ ~IsInt32(Atoi(t)))

\* parseValue; what comes after it is a matter of the caller.
ReadValue(t) ==
  \/ IsScalar(t) /\ ~TooBig(t) /\ AddValue(ReadScalar(t), FALSE, <<>>)
     /\ Go("after") /\ UNCHANGED frames
  \/ IsString(t) /\ StringError(t) = {} /\ AddValue(StringEvent("String", t), TRUE, <<>>)
     /\ Go("after") /\ UNCHANGED frames
  \/ t.t = "[" /\ Start("array") /\ Go("firstElement") /\ frames' = Append(frames, "array")
  \/ t.t = "{" /\ Start("object") /\ Go("firstKey") /\ frames' = Append(frames, "object")
  \/ \E error \in StringError(t) : Throw(error)
  \/ TooBig(t) /\ Throw("PARSE_NUMBER_TOO_BIG")
  \/ t = EndOfText /\ Throw("PARSE_EXPECT_VALUE")
  \/ t.t \in (Marks \ {"[", "{"}) \cup {"junk"} /\ Throw("PARSE_BAD_VALUE")

Close(type) == End(type) /\ Go("after") /\ frames' = Front(frames)

\* A mistake: what follows a comma in an object is not looked at.
ReadKey_Any(t) ==
  IF ~IsString(t) THEN ReadValue(t)
  ELSE AddValue(StringEvent("Key", t), TRUE, <<>>) /\ Go("colon") /\ UNCHANGED frames
ReadKey(t) ==
  IF ~IsString(t) THEN Throw("PARSE_MISS_KEY")
  ELSE \/ \E error \in StringError(t) : Throw(error)
       \/ StringError(t) = {} /\ AddValue(StringEvent("Key", t), TRUE, <<>>)
          /\ Go("colon") /\ UNCHANGED frames

Skip(next) == Go(next) /\ UNCHANGED <<status, frames, documentVars>>

\* After a value, in parse, parseArray or parseObject.
AfterValue(t) ==
  \/ /\ frames = <<>>
     /\ Throw(IF t = EndOfText THEN "PARSE_OK" ELSE "PARSE_ROOT_NOT_SINGULAR")
  \/ /\ InArray
     /\ \/ t.t = "," /\ Skip("value")
        \/ t.t = "]" /\ Close("array")
        \/ t.t \notin {",", "]"} /\ Throw("PARSE_MISS_COMMA_OR_SQUARE_BRACKET")
  \/ /\ frames # <<>> /\ ~InArray
     /\ \/ t.t = "," /\ Skip("key")
        \/ t.t = "}" /\ Close("object")
        \/ t.t \notin {",", "}"} /\ Throw("PARSE_MISS_COMMA_OR_CURLY_BRACKET")

\* What the stream gives next, and the text then.
NextToken(t) ==
  \/ pos < Len(text) /\ t = text[pos + 1] /\ UNCHANGED text
  \/ pos = Len(text) /\ t = EndOfText /\ UNCHANGED text
  \/ /\ pos = Len(text) /\ foreign /\ Len(text) < MaxTokens
     /\ t \in ForeignTokens \cup {Mark(m) : m \in Marks}
     /\ text' = Append(text, t)

Read ==
  /\ status = "reading"
  /\ \E t \in {text[i] : i \in 1 .. Len(text)} \cup ForeignTokens
              \cup {Mark(m) : m \in Marks} \cup {EndOfText} :
       /\ NextToken(t)
       /\ \/ want = "value" /\ ReadValue(t)
          \/ want = "firstElement" /\ IF t.t = "]" THEN Close("array") ELSE ReadValue(t)
          \/ want = "firstKey" /\ IF t.t = "}" THEN Close("object") ELSE ReadKey(t)
          \/ want = "key" /\ ReadKey(t)
          \/ want = "colon" /\ IF t.t = ":" THEN Skip("value") ELSE Throw("PARSE_MISS_COLON")
          \/ want = "after" /\ AfterValue(t)
  /\ UNCHANGED writerVars

-----------------------------------------------------------------------------
\* What is known to be lost: an Int64 that fits comes back as an Int32, and a
\* negative whole double as the integer it prints as; infinity loses its sign.
ReadBack(e) ==
  CASE e.op = "Int64" /\ IsInt32(e.n) -> [op |-> "Int32", n |-> e.n]
    [] e.op = "Double" /\ e.class = "negative whole" ->
         [op |-> IF IsInt32(-e.n) THEN "Int32" ELSE "Int64", n |-> -e.n]
    [] e.op = "Double" /\ e.class = "other" /\ e.d = "-inf" -> DoubleEvent("inf")
    [] OTHER -> e

\* Reader refuses a key that had to be escaped, and a denormal.
CanBeRead(e) == e # KeyEvent(Quoted) /\ (e.op = "Double" => e.class # "denormal")

\* A value that is written can be read, and is the same but for these losses,
\* as long as all of it is readable.
Over == status \notin {"writing", "reading"}
RoundTrip ==
  Over /\ ~foreign /\ (\A i \in DOMAIN written : CanBeRead(written[i])) =>
    /\ status = "PARSE_OK"
    /\ doc = [i \in DOMAIN written |-> ReadBack(written[i])]

\* Whatever the text is, Reader gives an error or a Value that is complete, and
\* no assertion of Document fails, but for a key that an object has already.
OnlyDuplicatesAbort ==
  /\ status = "aborted" => InObject /\ ~KeyExpected /\ key \in Top.keys
  /\ status = "PARSE_OK" => doc # <<>> /\ dstack = <<>> /\ pos = Len(text)

=============================================================================
