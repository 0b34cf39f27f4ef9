---------------------------- MODULE MCEventLoop -----------------------------
(***************************************************************************)
(* EventLoop on a small instance: the loop thread, two workers, one fd     *)
(* beside the eventfd, three functors.                                     *)
(***************************************************************************)
EXTENDS EventLoop
=============================================================================
