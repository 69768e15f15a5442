--------------------------- MODULE MCManagedPool ---------------------------
(***************************************************************************)
(* ManagedPool on small instances.                                         *)
(***************************************************************************)
EXTENDS ManagedPool, TLC

Symmetry == Permutations(Endpoints) \cup Permutations(Dialers)
=============================================================================
