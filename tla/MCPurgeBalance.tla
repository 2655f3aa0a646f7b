--------------------------- MODULE MCPurgeBalance ---------------------------
(***************************************************************************)
(* Instances of PurgeBalance for TLC.                                      *)
(***************************************************************************)
EXTENDS PurgeBalance

\* Rings of SEARCH_INTERVALS=1 to 3 and sizes around SmallPacket.
Rings == {3, 9, 10, 11, 19, 20, 21, 30}
TenBins == {10}
=============================================================================
