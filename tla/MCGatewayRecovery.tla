------------------------- MODULE MCGatewayRecovery -------------------------
(***************************************************************************)
(* GatewayRecovery on small instances.                                     *)
(***************************************************************************)
EXTENDS GatewayRecovery, TLC

Symmetry == Permutations(Endpoints) \cup Permutations(Clients)
=============================================================================
