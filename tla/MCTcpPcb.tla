------------------------------ MODULE MCTcpPcb ------------------------------
(* TcpPcb for TLC. *)
EXTENDS TcpPcb

=============================================================================
