------------------------- MODULE MCThreadEventLoop --------------------------
(***************************************************************************)
(* ThreadEventLoop on a small instance: the owner and one more thread, one *)
(* fd beside the eventfd, two functors.                                    *)
(***************************************************************************)
EXTENDS ThreadEventLoop
=============================================================================
