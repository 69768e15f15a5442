---------------------------- MODULE MCInjection ----------------------------
(***************************************************************************)
(* Injection on small instances.  Known archives are interchangeable.      *)
(***************************************************************************)
EXTENDS Injection, TLC

Symmetry == Permutations(Archives \ Unknown)
=============================================================================
