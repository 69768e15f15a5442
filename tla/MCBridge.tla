------------------------------ MODULE MCBridge ------------------------------
(***************************************************************************)
(* Bridge on small instances.  No symmetry: the run checks liveness.       *)
(***************************************************************************)
EXTENDS Bridge
=============================================================================
