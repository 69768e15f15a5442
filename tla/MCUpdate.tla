----------------------------- MODULE MCUpdate -----------------------------
(* Update on a small instance: no symmetry, since a liveness property is   *)
(* among those it checks.                                                  *)
EXTENDS Update
=============================================================================
