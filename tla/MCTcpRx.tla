------------------------------- MODULE MCTcpRx -------------------------------
(* Instances of TcpRx for TLC. *)
EXTENDS TcpRx

=============================================================================
