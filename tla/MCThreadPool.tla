---------------------------- MODULE MCThreadPool ----------------------------
(***************************************************************************)
(* ThreadPool on a small instance: up to two threads, four tasks that do   *)
(* everything a task can, two consumers.                                   *)
(***************************************************************************)
EXTENDS ThreadPool
=============================================================================
