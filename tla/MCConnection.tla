---------------------------- MODULE MCConnection ----------------------------
(***************************************************************************)
(* Connection for TLC.  The cfg files give sends and blocks as model       *)
(* values; the runs check liveness, so there is no symmetry reduction.     *)
(***************************************************************************)
EXTENDS Connection
=============================================================================
