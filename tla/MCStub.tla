------------------------------- MODULE MCStub -------------------------------
(***************************************************************************)
(* Json and Stub on a small instance: an int32_t holds 127, so that the    *)
(* numbers at the limits of countDigits are 64-bit ones.  Other texts have *)
(* up to eight tokens, which is enough for an object that repeats a key.   *)
(***************************************************************************)
EXTENDS Stub

Number(type, n) == [op |-> type, n |-> n]
NegativeWhole(n) == [op |-> "Double", class |-> "negative whole", n |-> n]
Denormal == [op |-> "Double", class |-> "denormal", d |-> "5e-324"]

MCScalars ==
  {[op |-> "null"], [op |-> "true"], String("a"), String(Quoted)}
  \cup {Number("Int32", n) : n \in {0, -10, 99, 100}}
  \cup {Number("Int64", n) : n \in {-10, 999, 1000000000, 2147483647}}
  \cup {DoubleEvent(d) : d \in {"1", "-inf", "nan"}}
  \cup {NegativeWhole(n) : n \in {0, 200}} \cup {Denormal}
MCKeys == {"a", "b", Quoted}

Digits(ds, neg, suffix) == [t |-> "digits", neg |-> neg, ds |-> ds, suffix |-> suffix]
Escape(us) == [t |-> "escape", us |-> us]
MCTokens ==
  {[t |-> "null"], [t |-> "string", s |-> "a"], [t |-> "junk"], [t |-> "huge"],
   Digits(<<1, 2, 8>>, FALSE, "i32"), Digits(<<1, 2, 8>>, TRUE, "i64")}
  \cup {Escape(us) : us \in {<<\hE9>>, <<\hD800>>, <<\hD800, \hDC00>>}}
  \cup {[t |-> "broken", error |-> e] :
          e \in {"PARSE_BAD_STRING_ESCAPE", "PARSE_MISS_QUOTATION_MARK"}}

\* Definitions of procedures, some with parameters that are named like members of the
\* request; those that lack a result are notifications.
Rpc(params, returns) ==
  [name |-> "string", params |-> [type |-> "object", members |-> params],
   returns |-> returns]
Param(name, example) == [name |-> name, example |-> example]
One == DoubleEvent("1")
MCDefinitions ==
  {Rpc(ps, "object") :
     ps \in {<<>>, <<Param("method", One)>>, <<Param("id", One), Param("jsonrpc", One)>>,
             <<Param("b", Number("Int32", 0)), Param("a", Number("Int64", 1000))>>,
             <<Param("a", String("a")), Param("method", One)>>,
             <<Param("a", [op |-> "null"])>>}}
  \cup {Rpc(<<>>, r) : r \in {"none", "null", "array"}}
  \cup {Rpc(<<Param("a", One)>>, "none"),
        [Rpc(<<>>, "object") EXCEPT !.name = "none"],
        [Rpc(<<>>, "object") EXCEPT !.params = [type |-> "none"]],
        [Rpc(<<>>, "object") EXCEPT !.params = [type |-> "array"]]}
MCArguments == {a \in MCScalars : a.op \notin {"null", "true"}}
=============================================================================
