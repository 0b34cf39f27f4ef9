--------------------------- MODULE MCAsyncLogging ---------------------------
(***************************************************************************)
(* AsyncLogging with buffers of two messages and batches of at most three  *)
(* buffers: nine messages fill both front buffers and two newly allocated  *)
(* ones, so that a batch is cut down, and leave messages to come after it. *)
(***************************************************************************)
EXTENDS AsyncLogging
=============================================================================
