---------------------------- MODULE MCTcpServer -----------------------------
(***************************************************************************)
(* TcpServer on a small instance: three peers, two descriptors, a pool of  *)
(* up to two loops.                                                        *)
(***************************************************************************)
EXTENDS TcpServer
=============================================================================
