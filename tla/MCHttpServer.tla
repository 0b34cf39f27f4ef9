---------------------------- MODULE MCHttpServer ----------------------------
(***************************************************************************)
(* HttpServer on a small instance: a buffer of four bytes, with one kept   *)
(* free in front, and two more per read.                                   *)
(***************************************************************************)
EXTENDS HttpServer

MCByte == Header \cup {"GET 1.0", "GET 1.1", "crlf", "text", "zero"}

MCRequests ==
  {[line |-> l, headers |-> h] :
     l \in {"GET 1.0", "GET 1.1"},
     h \in {<<>>, <<"Connection: close">>, <<"Connection: Keep-Alive">>}}
  \cup {[line |-> "GET 1.1", headers |-> <<"Other:", "Other:", "Other:">>],
        [line |-> "GET 1.1",
         headers |-> <<"Connection: close", "Other:", "Connection: Keep-Alive">>]}

MCFragments == {<<"text">>, <<"text", "crlf">>, <<"Other:", "crlf", "crlf">>}
=============================================================================
