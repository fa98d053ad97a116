------------------------------ MODULE MCNetif ------------------------------
(* A small instance of Netif: two mbufs fill a page. *)
EXTENDS Netif
=============================================================================
