----------------------------- MODULE MCNetStack -----------------------------
(* NetStack for TLC: the configurations a DHCP lease or Manager.configure  *)
(* may give, with and without netmask and gateway.                         *)
EXTENDS NetStack

CONSTANTS h1, m1, m2

MCOffers ==
  { [masked |-> TRUE, gateways |-> << >>],
    [masked |-> TRUE, gateways |-> <<h1>>] }

MCClaims == [h \in Hosts |-> IF h = h1 THEN {m1} ELSE {m2}]

=============================================================================
