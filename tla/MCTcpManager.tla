---------------------------- MODULE MCTcpManager ----------------------------
(***************************************************************************)
(* TcpManager for TLC.  The bounds are in the configurations.              *)
(***************************************************************************)
EXTENDS TcpManager

=============================================================================
