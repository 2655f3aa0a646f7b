--------------------------- MODULE ChannelAccess ---------------------------
(***************************************************************************)
(* The part of the Channel Access protocol the server uses over UDP.  A    *)
(* datagram is a sequence of messages, each a header of 16 bytes and a     *)
(* payload whose length the header gives; it is modelled as the sequence   *)
(* of what the parsers find in it.  Of the bytes only lengths are kept:    *)
(* they decide how many searches go into a packet.                         *)
(***************************************************************************)
EXTENDS Dealing

CONSTANTS
  PV,           \* the PV names
  NameLength,   \* their lengths
  PacketLimit   \* 1000 in the code

\* A name comes from a datagram of up to 4096 bytes.
LongestName == 4096

ASSUME ChannelAccessAssumption ==
  /\ NameLength \in [PV -> 1 .. LongestName]
  /\ PacketLimit \in Nat

HeaderSize == 16

Version == [command |-> "version", payload |-> 0]

IsSearch(m) == m.command = "search"

\* The name with a zero byte, aligned to 8.
PayloadLen(pv) == 8 * ((NameLength[pv] + 8) \div 8)

SearchRequest(e) ==
  [command |-> "search", payload |-> PayloadLen(e.pvname), dataCount |-> 13,
   chanId |-> e.chanId, pvname |-> e.pvname]

\* The response of an IOC: its TCP port in dataType, and its IP address in
\* param1, which may be one that stands for the sender's.
SearchResponse(id, ip, port) ==
  [command |-> "search", payload |-> 8, dataCount |-> 0,
   chanId |-> id, ip |-> ip, port |-> port]

-----------------------------------------------------------------------------
\* createSearchRequest: the length of the packet with the first n searches,
\* how many of them go into one packet, and the packet.
Offset(pvs, n) ==
  FoldLeft(LAMBDA sum, e : sum + HeaderSize + PayloadLen(e.pvname),
           HeaderSize, SubSeq(pvs, 1, n))

\* Bug: the limit is not looked at.
NPvsAll(pvs) == Len(pvs)

NPvs(pvs) ==
  Min({n \in 1 .. Len(pvs) : Offset(pvs, n) > PacketLimit} \cup {Len(pvs)})

\* Bug: one search fewer than counted is put into the packet.
CreateShortRequest(pvs) ==
  <<Version>> \o [i \in 1 .. Max({1, NPvs(pvs) - 1}) |-> SearchRequest(pvs[i])]

CreateSearchRequest(pvs) ==
  <<Version>> \o [i \in 1 .. NPvs(pvs) |-> SearchRequest(pvs[i])]

\* parseSearchRequest.
ParseSearchRequest(packet) ==
  LET found == Select(packet, IsSearch)
  IN  [i \in DOMAIN found |-> [chanId |-> found[i].chanId, pvname |-> found[i].pvname]]

-----------------------------------------------------------------------------
IsResponse(m) == IsSearch(m) /\ m.payload = 8 /\ m.dataCount = 0

\* parseSearchResponse: every response with the version that came before it,
\* if one did.
ParseSearchResponse(packet) ==
  LET found == {i \in DOMAIN packet : IsResponse(packet[i])}
      at(k) == Nth(found, k)
      version(i) == IF \E j \in 1 .. i : packet[j] = Version THEN <<Version>> ELSE <<>>
  IN  [k \in 1 .. Cardinality(found) |->
         [chanId |-> packet[at(k)].chanId, rsp |-> Append(version(at(k)), packet[at(k)])]]

\* parseIocAddr: the IP address of the sender, the port of the first response.
\* (The result for a packet without a response is not used.)
ParseIocAddr(ip, packet) == <<ip, Select(packet, IsResponse)[1].port>>

\* The two updateSearchReply.
UpdateSearches(rsp, f(_)) ==
  [i \in DOMAIN rsp |-> IF IsSearch(rsp[i]) THEN f(rsp[i]) ELSE rsp[i]]

UpdateReplyId(rsp, id) ==
  UpdateSearches(rsp, LAMBDA m : [m EXCEPT !.chanId = id])

\* Bug: the IP address is left as it came.
UpdateReplyPort(rsp, addr) ==
  UpdateSearches(rsp, LAMBDA m : [m EXCEPT !.port = addr[2]])

UpdateReplyAddr(rsp, addr) ==
  UpdateSearches(rsp, LAMBDA m : [m EXCEPT !.ip = addr[1], !.port = addr[2]])
=============================================================================
