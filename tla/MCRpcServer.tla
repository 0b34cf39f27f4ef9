---------------------------- MODULE MCRpcServer ----------------------------
(***************************************************************************)
(* One connection, three messages of any kind: a call, a refused one,      *)
(* batches of two calls, batches with a request that is refused or throws, *)
(* an empty line, a bad length.  Connections share nothing but aborted, so *)
(* a second one adds no interleaving that matters; three messages let a    *)
(* late answer, a batch and the next message overlap.                      *)
(***************************************************************************)
EXTENDS RpcServer

Ok == [id |-> TRUE, wellFormed |-> TRUE, service |-> TRUE,
       method |-> TRUE, params |-> TRUE]
Notification == [Ok EXCEPT !.id = FALSE]
NoMethod == [Ok EXCEPT !.method = FALSE]
BadParams == [Ok EXCEPT !.params = FALSE]

Single(r) == [form |-> "object", requests |-> <<r>>]
Batch(s) == [form |-> "array", requests |-> s]
Other(form) == [form |-> form, requests |-> <<>>]

FullMenu == {Single(Ok), Single(NoMethod), Batch(<<Ok, Ok>>), Batch(<<Ok, NoMethod>>),
             Batch(<<BadParams, Ok>>), Batch(<<Ok, Notification>>),
             Other("blank"), Other("badLength")}
=============================================================================
