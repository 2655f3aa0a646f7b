-------------------------- MODULE MCSearchExchange --------------------------
(***************************************************************************)
(* Instances of SearchExchange for TLC.                                    *)
(***************************************************************************)
EXTENDS SearchExchange

CONSTANTS p1, p2, p3, p4, h1, c1, c2

\* Two PVs of one IOC, one of another on the same host, and one that the rules
\* deny.
PVs == {p1, p2, p3, p4}
Hosts == p1 :> <<h1, 1>> @@ p2 :> <<h1, 1>> @@ p3 :> <<h1, 2>> @@ p4 :> <<h1, 2>>

\* The second PV goes over the limit, the payload of the third is 8 bytes, as
\* that of a response.
Lengths == p1 :> 470 @@ p2 :> 480 @@ p3 :> 7 @@ p4 :> 20

\* Two PVs of which one may be cached; a PV by two names, with the id of
\* another client's search; a field of nothing; a PV that is denied.
Searches ==
  { <<[chanId |-> 1, name |-> <<p1>>], [chanId |-> 2, name |-> <<p2, "VAL">>]>>,
    <<[chanId |-> 2, name |-> <<p3>>], [chanId |-> 7, name |-> <<p3, "DESC">>]>>,
    <<[chanId |-> 3, name |-> <<NoName, "VAL">>], [chanId |-> 4, name |-> <<p2>>]>>,
    <<[chanId |-> 1, name |-> <<p4>>], [chanId |-> 5, name |-> <<p1, "DESC">>]>> }

TestRules ==
  << [action |-> "ALLOW", matches |-> {p1, p2}],
     [action |-> "DENY", matches |-> {p1, p4}],
     [action |-> "ALLOW", matches |-> {p4}] >>

ClientTestRules ==
  << [action |-> "DENY", matches |-> {c2}], [action |-> "ALLOW", matches |-> {c1, c2}] >>
=============================================================================
