---------------------------- MODULE MCNameServer ----------------------------
(***************************************************************************)
(* Instances of NameServer for TLC.                                        *)
(***************************************************************************)
EXTENDS NameServer

CONSTANTS p1, i1, i2, nowhere

OnePV == {p1}
TwoIocs == {i1, i2}

ThreeSeconds == <<3>>
=============================================================================
