------------------------------- MODULE MCTcpTx -------------------------------
(* Instances of TcpTx for TLC. *)
EXTENDS TcpTx

=============================================================================
