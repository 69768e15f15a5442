----------------------------- MODULE MCTracker -----------------------------
(***************************************************************************)
(* Tracker on a small instance: two goroutines close tunnels while a third *)
(* rotates the route.  No symmetry: the run checks liveness.               *)
(***************************************************************************)
EXTENDS Tracker
=============================================================================
