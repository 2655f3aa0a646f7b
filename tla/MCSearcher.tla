----------------------------- MODULE MCSearcher -----------------------------
(***************************************************************************)
(* Instances of Searcher for TLC.                                          *)
(***************************************************************************)
EXTENDS Searcher

CONSTANTS p1, p2

OnePV == {p1}
TwoPVs == {p1, p2}
Symmetry == Permutations(PV)

\* Values of SEARCH_INTERVALS.
OneSecond == <<1>>
OneTwoSeconds == <<1, 2>>
=============================================================================
