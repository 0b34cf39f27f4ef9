-------------------------------- MODULE Stub --------------------------------
(***************************************************************************)
(* zrpc/stub: StubGenerator parses the definition of a procedure, and      *)
(* ClientStub and ServiceStubGenerator generate code for it, with jackson  *)
(* between the two.  A definition gives each parameter by an example,      *)
(* whose type it has.  The client's stub makes an object of the arguments  *)
(* and calls; the server's registers the names and types with a Procedure, *)
(* which validates a request, and picks the arguments for the user.        *)
(*                                                                         *)
(* Parameters and arguments are scalars.  One procedure and its call       *)
(* suffice, as nothing is shared; RpcServer and RpcClient model the rest   *)
(* of the way.                                                             *)
(***************************************************************************)
EXTENDS Json

CONSTANTS
  Definitions,          \* of a procedure or notification, in the proto
  Arguments             \* the scalars that calls are made with

\* A definition has any number of parameters, with a name of its own each, of which
\* the compiler makes an identifier; Document stops at a name that comes twice.
ASSUME StubAssumption ==
  /\ Arguments \subseteq Scalars
  /\ \A d \in Definitions : d.params.type = "object" =>
       LET ps == d.params.members
           n == Len(ps)
       IN /\ n \in Nat /\ ps = [i \in 1 .. n |-> ps[i]]
          /\ \A i \in 1 .. n : ps[i].name \in STRING /\ ps[i].name # Quoted
          /\ \A i, j \in 1 .. n : ps[i].name = ps[j].name => i = j

VARIABLES
  definition,           \* the member of "rpc" that is parsed
  kind,                 \* any value, an rpc definition, and then a procedure
                        \* or a notification
  params_,              \* Procedure::params_
  call,                 \* none, by name as the client's stub does, or by
                        \* position as a client without stub may
  args,                 \* the arguments of the caller
  outcome,              \* none, the exception, the abort, or called
  received              \* the arguments of the user's method

stubVars == <<definition, kind, params_, call, args, outcome, received>>
marshalVars == <<jsonVars, stubVars>>

StubInit ==
  /\ JsonInit
  /\ \/ kind = "any" /\ definition = [name |-> "none"]
     \/ kind = "rpc" /\ definition \in Definitions /\ ~foreign
  /\ params_ = <<>> /\ call = "none" /\ args = <<>>
  /\ outcome = "none" /\ received = <<>>

TypeOf(e) == IF e.op \in {"true", "false"} THEN "bool" ELSE e.op

-----------------------------------------------------------------------------
(* The generators. *)

Members(d) == IF d.params.type = "object" THEN d.params.members ELSE <<>>

\* validateReturns; validateParams looks at the types of the keys, and lets a
\* parameter pass whose example is null.
BadReturns(d) == d.returns \in {"null", "array"}

\* getGenericParams and argTemplate have no type for a null.
HasBadType(d) == \E i \in DOMAIN Members(d) : TypeOf(Members(d)[i].example) = "null"

\* The names and types that the generated constructor registers.
Bind(d) == [i \in DOMAIN Members(d) |->
              [paramName |-> Members(d)[i].name,
               paramType |-> TypeOf(Members(d)[i].example)]]

\* parseRpc, and getStub of both generators.  getObject asserts an object.
Generate ==
  /\ kind = "rpc" /\ outcome = "none"
  /\ \/ /\ definition.name # "string"
        /\ outcome' = "refused" /\ UNCHANGED <<kind, params_>>
     \/ /\ definition.name = "string" /\ definition.params.type = "array"
        /\ outcome' = "aborted" /\ UNCHANGED <<kind, params_>>
     \/ /\ definition.name = "string" /\ definition.params.type # "array"
        /\ BadReturns(definition)
        /\ outcome' = "refused" /\ UNCHANGED <<kind, params_>>
     \/ /\ definition.name = "string" /\ definition.params.type # "array"
        /\ ~BadReturns(definition)
        /\ kind' = IF definition.returns = "none" THEN "notify" ELSE "procedure"
        /\ outcome' = IF HasBadType(definition) THEN "aborted" ELSE "none"
        /\ params_' = IF HasBadType(definition) THEN <<>> ELSE Bind(definition)
  /\ UNCHANGED <<jsonVars, definition, call, args, received>>

-----------------------------------------------------------------------------
(* The client. *)

String(s) == [op |-> "String", s |-> s]

\* A service stub for a notification with parameters does not compile: its
\* template has [NotifyName] for [notifyName].
ServiceCompiles == kind = "notify" => params_ = <<>>

\* The user calls; the compiler checks the types.
UserCalls ==
  /\ kind \in {"procedure", "notify"} /\ outcome = "none" /\ call = "none"
  /\ ServiceCompiles
  /\ call' \in {"byName", "byPosition"} /\ (kind = "notify" => call' = "byName")
  /\ args' \in [DOMAIN params_ -> Arguments]
  /\ \A i \in DOMAIN params_ : TypeOf(args'[i]) = params_[i].paramType
  /\ UNCHANGED <<jsonVars, definition, kind, params_, outcome, received>>

\* paramMemberTemplate: params.addMember("p", p).
ParamMembers ==
  [i \in 1 .. 2 * Len(args) |->
     IF i % 2 = 1 THEN KeyEvent(params_[(i + 1) \div 2].paramName) ELSE args[i \div 2]]

Params ==
  IF call = "byPosition" THEN <<Plain("StartArray")>> \o args \o <<Plain("EndArray")>>
  ELSE <<Plain("StartObject")>> \o ParamMembers \o <<Plain("EndObject")>>

Member(name, events) == <<KeyEvent(name)>> \o events

\* procedureDefineTemplate, and the id of sendCall.
CallMessage ==
  Member("jsonrpc", <<String("2.0")>>) \o Member("method", <<String("Test.Do")>>)
  \o Member("params", Params) \o Member("id", <<[op |-> "Int64", n |-> 0]>>)

\* notifyDefineTemplate has a fixed method, and leaves the parameters out.
NotifyMessage ==
  Member("jsonrpc", <<String("2.0")>>) \o Member("method", <<String("Hello.Goodbye")>>)

Message ==
  <<Plain("StartObject")>>
  \o (IF kind = "notify" THEN NotifyMessage ELSE CallMessage)
  \o <<Plain("EndObject")>>

ClientWrites ==
  /\ call # "none"
  /\ Len(written) < Len(Message)
  /\ Write(Message[Len(written) + 1])
  /\ UNCHANGED stubVars

-----------------------------------------------------------------------------
(* The server: the value that was read is an object without nested ones but *)
(* for params.                                                              *)

\* findMember, among the events of an object: the first that has the name.  The
\* members of the request that are looked for come before those of params.
At(object, name) == {i \in DOMAIN object : object[i] = KeyEvent(name)}
Find(object, name) ==
  CHOOSE i \in At(object, name) : \A j \in At(object, name) : i <= j
Value(object, name) == object[1 + Find(object, name)]

ParamsAt == 1 + Find(doc, "params")
IsArray == doc[ParamsAt].op = "StartArray"
\* The elements, or keys and values, of params.
Within ==
  LET end == CHOOSE j \in ParamsAt .. Len(doc) :
               /\ doc[j].op \in {"EndArray", "EndObject"}
               /\ \A i \in ParamsAt .. j - 1 : doc[i].op \notin {"EndArray", "EndObject"}
  IN SubSeq(doc, ParamsAt + 1, end - 1)
Size == IF IsArray THEN Len(Within) ELSE Len(Within) \div 2

\* validateGeneric; a procedure without parameters refuses an empty object.
Validates ==
  IF At(doc, "params") = {} THEN params_ = <<>>
  ELSE /\ Size # 0 /\ Size = Len(params_)
       /\ \A i \in DOMAIN params_ :
            IF IsArray THEN TypeOf(Within[i]) = params_[i].paramType
            ELSE /\ At(Within, params_[i].paramName) # {}
                 /\ TypeOf(Value(Within, params_[i].paramName)) = params_[i].paramType

\* getParamsFromJsonArray, by index; and from an object, by name.
\* A mistake: the index is not counted up.
FromArray_First(i) == Within[1]
FromArray(i) == Within[i]
FromObject(i) == Value(Within, params_[i].paramName)

\* stubProcedureDefineTemplate, with the arguments in the order of getGenericArgs.
Picked == IF params_ = <<>> THEN <<>>
          ELSE [i \in DOMAIN params_ |-> IF IsArray THEN FromArray(i) ELSE FromObject(i)]

\* callProcedureReturn and callProcedureNotify of a service that has one.
ServerCalls ==
  /\ call # "none"
  /\ status = "PARSE_OK" /\ outcome = "none"
  /\ outcome' = IF Value(doc, "method") # String("Test.Do") THEN "not found"
                ELSE IF Validates THEN "called" ELSE "params name or type mismatch"
  /\ received' = IF outcome' = "called" THEN Picked ELSE <<>>
  /\ UNCHANGED <<jsonVars, definition, kind, params_, call, args>>

-----------------------------------------------------------------------------
StubNext ==
  \/ kind = "any" /\ WriteAny /\ UNCHANGED stubVars
  \/ (kind = "any" \/ (call # "none" /\ Len(written) = Len(Message)))
     /\ StartReading /\ UNCHANGED stubVars
  \/ Read /\ UNCHANGED stubVars
  \/ Generate
  \/ UserCalls
  \/ ClientWrites
  \/ ServerCalls

StubSpec == StubInit /\ [][StubNext]_marshalVars

-----------------------------------------------------------------------------
\* What the generators accept can be called: every call of a procedure with
\* parameters reaches the user's method with the arguments of the caller in their
\* order, by name or by position, as long as jackson loses nothing of them.
Ended == outcome # "none" \/ (Over /\ status # "PARSE_OK")
IsCall == call # "none" /\ kind = "procedure" /\ params_ # <<>>
CallArrives ==
  Ended /\ IsCall /\ (\A i \in DOMAIN args : CanBeRead(args[i]) /\ ReadBack(args[i]) = args[i])
    => outcome = "called" /\ received = args

=============================================================================
