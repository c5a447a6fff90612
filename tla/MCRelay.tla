------------------------------- MODULE MCRelay -------------------------------
(***************************************************************************)
(* Relay for TLC: one host with two interfaces, a router, and a service    *)
(* that has two IPv4 addresses and two IPv6 addresses in its life.         *)
(***************************************************************************)
EXTENDS Relay, TLC

CONSTANTS lan, wan, router, server, net, e1, e2, e6, f6

MCV4 == {lan, wan, router, server, net, e1, e2}
MCV6 == {e6, f6}

MCConfigs ==
    [local : {NoIP, wan}, server : {NoIP, server}, relay : {NoIP, e1}, kube : BOOLEAN]

Default(metric, address) ==
    [dst |-> MCV4, gw |-> router, src |-> NoIP, addr |-> address, prio |-> metric]
Direct == [dst |-> {server, router}, gw |-> NoIP, src |-> lan, addr |-> lan, prio |-> 1]

\* A default route of a lower metric than the direct one and of the same (which
\* wins or loses), one over an interface without an address, and no route.
MCTables == { {Direct, Default(0, wan)}, {Direct, Default(1, wan)}, {Default(0, NoIP)}, {} }

MCServices ==
    { [lb |-> NoIP, ingress |-> <<>>], [lb |-> e1, ingress |-> <<>>],
      [lb |-> NoIP, ingress |-> <<e2>>], [lb |-> NoIP, ingress |-> <<e1, e2>>],
      [lb |-> NoIP, ingress |-> <<Garbage>>], [lb |-> e6, ingress |-> <<e2>>],
      [lb |-> NoIP, ingress |-> <<f6>>] }

Symmetry == Permutations(Lookups)
=============================================================================
