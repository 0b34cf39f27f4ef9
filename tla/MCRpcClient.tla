---------------------------- MODULE MCRpcClient -----------------------------
(***************************************************************************)
(* TcpClient and RpcClient on a small instance: two connections, two       *)
(* calls, delays of one and two.                                           *)
(***************************************************************************)
EXTENDS RpcClient
=============================================================================
