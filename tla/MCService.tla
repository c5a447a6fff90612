------------------------------ MODULE MCService ------------------------------
(***************************************************************************)
(* Service for TLC.  svc_lifecycle.cfg gives the requests as model values; *)
(* they are interchangeable, but the run checks a liveness property, for   *)
(* which TLC's symmetry reduction is not sound.                            *)
(***************************************************************************)
EXTENDS Service
=============================================================================
