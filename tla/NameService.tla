---------------------------- MODULE NameService ----------------------------
(***************************************************************************)
(* What the server promises its clients, without a word on how: a PV is    *)
(* resolved to an IOC that claimed it, stays resolved to that IOC until    *)
(* the server loses the IOC, and then all PVs of the IOC are unresolved at *)
(* once.  A client is told what its PV is resolved to when it asks.        *)
(***************************************************************************)
CONSTANTS
  PV,          \* the PV names
  Ioc,         \* the addresses of IOCs
  Unresolved   \* no address

VARIABLES
  claims,      \* the pairs of a PV and an IOC that said it hosts the PV
  resolved,    \* the IOC of every PV, or Unresolved
  answer       \* what the last client was told

vars == <<claims, resolved, answer>>

Answer == [pvname: PV, ioc: Ioc \cup {Unresolved}]

TypeOK ==
  /\ claims \in SUBSET (PV \X Ioc)
  /\ resolved \in [PV -> Ioc \cup {Unresolved}]
  /\ answer \in Answer

Init ==
  /\ claims = {}
  /\ resolved = [p \in PV |-> Unresolved]
  /\ \E p \in PV : answer = [pvname |-> p, ioc |-> Unresolved]

Claim(pv, ioc) ==
  /\ claims' = claims \cup {<<pv, ioc>>}
  /\ UNCHANGED <<resolved, answer>>

Learn(pv, ioc) ==
  /\ resolved[pv] = Unresolved
  /\ <<pv, ioc>> \in claims
  /\ resolved' = [resolved EXCEPT ![pv] = ioc]
  /\ UNCHANGED <<claims, answer>>

Lose(ioc) ==
  /\ resolved' = [p \in PV |-> IF resolved[p] = ioc THEN Unresolved ELSE resolved[p]]
  /\ UNCHANGED <<claims, answer>>

Ask(pv) ==
  /\ answer' = [pvname |-> pv, ioc |-> resolved[pv]]
  /\ UNCHANGED <<claims, resolved>>

Next ==
  \/ \E p \in PV, a \in Ioc : Claim(p, a) \/ Learn(p, a)
  \/ \E a \in Ioc : Lose(a)
  \/ \E p \in PV : Ask(p)

Spec == Init /\ [][Next]_vars
=============================================================================
