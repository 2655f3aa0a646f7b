------------------------ MODULE MCConnectionsManager ------------------------
(***************************************************************************)
(* The instance of ConnectionsManager for TLC.                             *)
(***************************************************************************)
EXTENDS ConnectionsManager

Symmetry == Permutations(Guard)
=============================================================================
