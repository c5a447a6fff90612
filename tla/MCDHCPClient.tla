---------------------------- MODULE MCDHCPClient ----------------------------
(***************************************************************************)
(* DHCPClient for TLC.  The cfg files give the requests as model values;   *)
(* there is no symmetry, since all runs check liveness or have a single    *)
(* request of a kind.                                                      *)
(***************************************************************************)
EXTENDS DHCPClient
=============================================================================
