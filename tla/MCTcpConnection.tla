-------------------------- MODULE MCTcpConnection ---------------------------
(***************************************************************************)
(* TcpConnection with one worker beside the two loops and two messages of  *)
(* two units, so that the kernel can take none, half or all of each.       *)
(***************************************************************************)
EXTENDS TcpConnection
=============================================================================
