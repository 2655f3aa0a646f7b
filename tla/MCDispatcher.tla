---------------------------- MODULE MCDispatcher ----------------------------
(***************************************************************************)
(* The instance of Dispatcher for TLC.                                     *)
(***************************************************************************)
EXTENDS Dispatcher, TLC

Symmetry == Permutations(PV) \cup Permutations(Ioc)
              \cup Permutations(Searcher) \cup Permutations(Guard)
=============================================================================
