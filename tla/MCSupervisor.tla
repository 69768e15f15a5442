---------------------------- MODULE MCSupervisor ----------------------------
(***************************************************************************)
(* Supervisor on small instances.  No symmetry: the run checks liveness.   *)
(***************************************************************************)
EXTENDS Supervisor
=============================================================================
