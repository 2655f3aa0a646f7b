--------------------------- MODULE SearchExchange ---------------------------
(***************************************************************************)
(* What goes over UDP between clients, the server and the IOCs: a client's *)
(* datagram is answered from the cache or starts searches, a round of      *)
(* searches is cut into packets, IOCs respond to packets, and responses    *)
(* fill the cache.  Names and addresses are translated on the way: client  *)
(* channel ids to PVs to the server's ids and back, and the addresses in   *)
(* responses to ones a client can use.                                     *)
(***************************************************************************)
EXTENDS Listener

CONSTANTS
  Ip,           \* the IP addresses of hosts with IOCs
  SenderIp,     \* 255.255.255.255 in a response: the sender's
  Host,         \* the IP address and TCP port of every PV's IOC
  Datagrams,    \* the searches clients send
  MaxSearches,  \* bound of the model on the channel ids
  MaxInFlight   \* bound of the model on the responses under way

ASSUME SearchExchangeAssumption ==
  /\ SenderIp \notin Ip
  /\ Host \in [PV -> Ip \X Nat]
  /\ Datagrams \subseteq Seq(Channel)
  /\ MaxSearches \in Nat /\ MaxInFlight \in Nat

VARIABLES
  searches,   \* the PVs in the ring, in the order they came in
  nextChan,   \* m_chanId
  pvs,        \* what processOutgoing has still to send of its round
  round,      \* observer: the PVs of that round
  packets,    \* the packets of that round, for anyone to respond to
  responses,  \* the datagrams on their way to the searcher
  cache,      \* m_connectedPVs: the address of the guard and the response
  asked,      \* observer: the client served in this step, and its channels
  replies     \* observer: the datagrams it was sent

vars == <<searches, nextChan, pvs, round, packets, responses, cache, asked, replies>>

Addr == Ip \X Nat
Search == [chanId: Nat, pvname: PV]
NotCached == [ioc |-> <<>>, response |-> <<>>]

SearchedPVs == {e.pvname : e \in ToSet(searches)}

Init ==
  /\ searches = <<>> /\ nextChan = 0
  /\ pvs = <<>> /\ round = <<>> /\ packets = <<>> /\ responses = {}
  /\ cache = [p \in PV |-> NotCached]
  /\ asked = {} /\ replies = <<>>

\* processOutgoing sends all packets of a round before it returns.
Sending == pvs # <<>>

NobodyServed == asked' = {} /\ replies' = <<>>

-----------------------------------------------------------------------------
\* A Listener receives a client's datagram; for every channel in order,
\* caPvSearched answers from the cache or has the searcher add the PV.
ClientAsks(client, channels) ==
  LET answer == [p \in PV |-> cache[p].response]
      misses == Select(LetThrough(client, channels),
                       LAMBDA ch : answer[ch.pvname] = <<>>)
      added  == SubSeqAt(misses,
                  {i \in DOMAIN misses :
                     /\ misses[i].pvname \notin SearchedPVs
                     /\ \A j \in 1 .. i - 1 : misses[j].pvname # misses[i].pvname})
  IN  /\ ~Sending
      /\ nextChan + Len(added) <= MaxSearches
      /\ searches' = searches \o
           [i \in DOMAIN added |-> [chanId |-> nextChan + i - 1, pvname |-> added[i].pvname]]
      /\ nextChan' = nextChan + Len(added)
      /\ asked' = {[client |-> client, channels |-> channels]}
      /\ replies' = Replies(client, channels, answer)
      /\ UNCHANGED <<pvs, round, packets, responses, cache>>

\* processOutgoing has collected the PVs of a bin.
BeginRound(due) ==
  /\ ~Sending
  /\ round' = Select(searches, LAMBDA e : e.pvname \in due)
  /\ pvs' = round'
  /\ packets' = <<>>
  /\ UNCHANGED <<searches, nextChan, responses, cache>>
  /\ NobodyServed

\* One turn of its sending loop.
SendPacket ==
  /\ Sending
  /\ packets' = Append(packets, CreateSearchRequest(pvs))
  /\ pvs' = SubSeq(pvs, NPvs(pvs) + 1, Len(pvs))
  /\ UNCHANGED <<searches, nextChan, round, responses, cache>>
  /\ NobodyServed

\* An IOC responds to a packet with all PVs of it that it hosts, in one
\* datagram, and leaves its IP address to the receiver.
IocResponses(packet) ==
  LET of(ioc) == Select(ParseSearchRequest(packet), LAMBDA e : Host[e.pvname] = ioc)
  IN  {[from |-> ioc[1],
        packet |-> <<Version>> \o [i \in DOMAIN of(ioc) |->
                     SearchResponse(of(ioc)[i].chanId, SenderIp, ioc[2])]] :
          ioc \in {Host[e.pvname] : e \in ToSet(ParseSearchRequest(packet))}}

PeerResponds(packet) ==
  /\ Cardinality(responses) < MaxInFlight
  /\ \E d \in IocResponses(packet) :
       responses' = responses \cup {d}
  /\ UNCHANGED <<searches, nextChan, pvs, round, packets, cache>>
  /\ NobodyServed

\* Bug: any response will do.
AnyAnswer(e, r) == TRUE

Answers(e, r) == e.chanId = r.chanId

\* processIncoming of the searcher for one datagram: each response that names
\* a search of its bins ends it and fills the cache, with the guard at the
\* address that goes into the response, too.  The datagram may come again.
Receive(d) ==
  LET addr  == ParseIocAddr(d.from, d.packet)
      for(p) == {r \in ToSet(ParseSearchResponse(d.packet)) :
                   \E e \in ToSet(searches) : e.pvname = p /\ Answers(e, r)}
  IN  /\ ~Sending
      /\ searches' = Select(searches, LAMBDA e : for(e.pvname) = {})
      /\ cache' = [p \in PV |->
           IF for(p) = {} THEN cache[p]
           ELSE [ioc |-> addr,
                 response |-> UpdateReplyAddr((CHOOSE r \in for(p) : TRUE).rsp, addr)]]
      /\ responses' \in {responses, responses \ {d}}
      /\ UNCHANGED <<nextChan, pvs, round, packets>>
      /\ NobodyServed

\* A response is lost on the way.
Drop(d) ==
  /\ responses' = responses \ {d}
  /\ UNCHANGED <<searches, nextChan, pvs, round, packets, cache>>
  /\ NobodyServed

\* The guard of an IOC closes: what it vouches for is as good as not cached.
LoseIoc(ioc) ==
  /\ ~Sending
  /\ \E p \in PV : cache[p].ioc = ioc
  /\ cache' = [p \in PV |-> IF cache[p].ioc = ioc THEN NotCached ELSE cache[p]]
  /\ UNCHANGED <<searches, nextChan, pvs, round, packets, responses>>
  /\ NobodyServed

Next ==
  \/ \E c \in Client, channels \in Datagrams : ClientAsks(c, channels)
  \/ \E due \in SUBSET SearchedPVs : BeginRound(due)
  \/ SendPacket
  \/ \E i \in DOMAIN packets : PeerResponds(packets[i])
  \/ \E d \in responses : Receive(d) \/ Drop(d)
  \/ \E ioc \in {Host[p] : p \in PV} : LoseIoc(ioc)

Spec == Init /\ [][Next]_vars

-----------------------------------------------------------------------------
\* The packets of a round hold its PVs, each once, with its own id and in
\* order, and no packet is without one: the loop that sends them, which goes on
\* until none is left, comes to an end.
RoundIsSent ==
  /\ FlattenSeq([i \in DOMAIN packets |-> ParseSearchRequest(packets[i])]) \o pvs = round
  /\ \A i \in DOMAIN packets : ParseSearchRequest(packets[i]) # <<>>

\* "Limit packet size to about 1000 bytes": no packet goes on past the limit
\* by more than its last search.
PacketSize(packet) == FoldLeft(LAMBDA n, m : n + HeaderSize + m.payload, 0, packet)

PacketsAreSmall ==
  \A i \in DOMAIN packets :
     Len(packets[i]) > 2 => PacketSize(Front(packets[i])) <= PacketLimit

\* The guard watches the IOC that hosts the PV, also if several share a host
\* and their responses come in any order, late or twice.  (proto_ca.hpp:
\* "Extracts the IOC address from a successful Search response".)
GuardedWhereHosted ==
  \A p \in PV : cache[p] # NotCached => cache[p].ioc = Host[p]

\* Every reply answers one of the channels just asked about, by the client's
\* own id, and leads to the IOC of its PV without the sender's address.
RepliesLeadHome ==
  \A i \in DOMAIN replies : \A m \in ToSet(replies[i]) :
     IsResponse(m) =>
       \E a \in asked : \E ch \in ToSet(a.channels) :
         /\ ch.chanId = m.chanId /\ PvName(ch) \in PV
         /\ Host[PvName(ch)] = <<m.ip, m.port>>

\* "First matching rule in the PV or CLIENT group will stop looking for other
\* rules" (sample.cfg).
Denied(rules, x) ==
  \E i \in DOMAIN rules :
    /\ rules[i].action = "DENY" /\ x \in rules[i].matches
    /\ \A j \in 1 .. i - 1 : x \notin rules[j].matches

\* A PV that the first rule denies is never searched for or cached.  A client
\* that is denied is sent nothing, and none of its channels gets as far as the
\* Dispatcher: its datagram neither starts a search nor keeps one alive.
DeniedPVsUnknown ==
  \A p \in PV : Denied(PvRules, p) => p \notin SearchedPVs /\ cache[p] = NotCached

DeniedClientsIgnored ==
  \A a \in asked' : Denied(ClientRules, a.client) =>
     /\ LetThrough(a.client, a.channels) = <<>>
     /\ replies' = <<>>
     /\ UNCHANGED <<searches, nextChan, cache>>

DeniedLeaveNoTrace == []DeniedPVsUnknown /\ [][DeniedClientsIgnored]_vars
=============================================================================
