------------------------------ MODULE Listener ------------------------------
(***************************************************************************)
(* What a Listener does with a datagram from a client: which searches in   *)
(* it the access rules let through, and the replies it sends.  A name in a *)
(* client's search is the sequence of what its dots separate: a PV, and a  *)
(* field if there is one.  A rule is the set of what its regular           *)
(* expression matches.                                                     *)
(***************************************************************************)
EXTENDS ChannelAccess

CONSTANTS
  Client,       \* the IP addresses of clients
  NoName,       \* what is before the dot if nothing is
  PvRules,      \* AccessControl::pvs
  ClientRules   \* AccessControl::clients

Rule(X) == [action: {"ALLOW", "DENY"}, matches: SUBSET X]

ASSUME ListenerAssumption ==
  /\ NoName \notin PV
  /\ PvRules \in Seq(Rule(PV))
  /\ ClientRules \in Seq(Rule(Client))

Before == PV \cup {NoName}

Channel == [chanId: Nat, name: {<<p>> : p \in Before} \cup Before \X {"VAL", "DESC"}]

\* All fields of a PV are on the same IOC.
PvName(ch) == Head(ch.name)

\* Bug: the last rule that matches decides.
PermitsByLast(rules, x) ==
  LET hits == {i \in DOMAIN rules : x \in rules[i].matches}
  IN  hits = {} \/ rules[Max(hits)].action = "ALLOW"

\* One loop of checkAccessControl: the first rule that matches decides.
Permits(rules, x) ==
  LET hits == {i \in DOMAIN rules : x \in rules[i].matches}
  IN  hits = {} \/ rules[Min(hits)].action = "ALLOW"

CheckAccessControl(pv, client) == Permits(PvRules, pv) /\ Permits(ClientRules, client)

\* The channels of a datagram for which m_searchPvCb is called, with the
\* field taken off.
LetThrough(client, channels) ==
  LET ok(ch) == PvName(ch) # NoName /\ CheckAccessControl(PvName(ch), client)
      pass   == Select(channels, ok)
  IN  [i \in DOMAIN pass |-> [chanId |-> pass[i].chanId, pvname |-> PvName(pass[i])]]

\* The datagrams sent back, one for every PV the callback knows of: answer is
\* what it returns, <<>> if nothing.
Replies(client, channels, answer) ==
  LET known == Select(LetThrough(client, channels), LAMBDA ch : answer[ch.pvname] # <<>>)
  IN  [i \in DOMAIN known |-> UpdateReplyId(answer[known[i].pvname], known[i].chanId)]
=============================================================================
