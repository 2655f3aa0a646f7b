------------------------ MODULE SearchExchangeProofs ------------------------
(***************************************************************************)
(* Proofs about SearchExchange, for any PVs and names of any length, hosts *)
(* with any number of IOCs, clients, datagrams, rules and packet limits.   *)
(*                                                                         *)
(* The core of the invariant is that an id names one PV for ever (Known).  *)
(* Packets and responses carry ids of searches that may have ended since,  *)
(* and it is by the id alone that a response is matched to a PV.           *)
(***************************************************************************)
EXTENDS SearchExchange, SequenceLemmas

-----------------------------------------------------------------------------
\* Lists.

\* What a selection lists comes from the list, and the positions chosen are all
\* listed.
Selection(t, s, K) ==
  /\ \A n \in 1 .. Len(t) : \E i \in K : t[n] = s[i]
  /\ \A i \in K : \E n \in 1 .. Len(t) : t[n] = s[i]

LEMMA SelectionIs ==
  ASSUME NEW S, NEW s \in Seq(S), NEW K \in SUBSET (1 .. Len(s))
  PROVE  SubSeqAt(s, K) \in Seq(S) /\ Selection(SubSeqAt(s, K), s, K)
<1> DEFINE t == SubSeqAt(s, K)
<1>1. /\ t \in Seq(S)
      /\ \A n \in 1 .. Len(t) : Nth(K, n) \in K /\ t[n] = s[Nth(K, n)]
      /\ \A i \in K : \E n \in 1 .. Len(t) : Nth(K, n) = i
  BY SubSeqAtProperties
<1> HIDE DEF t
<1>2. \A n \in 1 .. Len(t) : \E i \in K : t[n] = s[i]
  BY <1>1
<1>3. \A i \in K : \E n \in 1 .. Len(t) : t[n] = s[i]
  BY <1>1
<1> QED
  BY <1>1, <1>2, <1>3 DEF Selection, t

\* A message before the others.
Preceded(t, v, m, n) ==
  Len(t) = n + 1 /\ t[1] = v /\ \A i \in 1 .. n : t[i + 1] = m[i]

LEMMA PutBefore ==
  ASSUME NEW S, NEW v \in S, NEW n \in Nat, NEW m, Len(m) = n, m \in Seq(S)
  PROVE  <<v>> \o m \in Seq(S) /\ Preceded(<<v>> \o m, v, m, n)
<1>1. <<v>> \in Seq(S) /\ Len(<<v>>) = 1 /\ <<v>>[1] = v
  OBVIOUS
<1> DEFINE s == <<v>>
<1> HIDE DEF s
<1>2. /\ s \o m \in Seq(S) /\ Len(s \o m) = 1 + n
      /\ \A i \in 1 .. 1 + n : (s \o m)[i] = IF i <= 1 THEN s[i] ELSE m[i - 1]
  BY <1>1, ConcatProperties DEF s
<1>3. (s \o m)[1] = v
  BY <1>1, <1>2 DEF s
<1>4. ASSUME NEW i \in 1 .. n PROVE (s \o m)[i + 1] = m[i]
  <2>1. i + 1 \in 1 .. 1 + n /\ ~(i + 1 <= 1) /\ i + 1 - 1 = i
    OBVIOUS
  <2> QED
    BY <1>2, <2>1
<1> QED
  BY <1>2, <1>3, <1>4 DEF Preceded, s

LEMMA AppendToOne ==
  ASSUME NEW v, NEW w
  PROVE  Append(<<v>>, w) = <<v, w>>
<1>1. <<v>> \in Seq({v, w}) /\ <<v, w>> \in Seq({v, w})
  OBVIOUS
<1>2. /\ Append(<<v>>, w) \in Seq({v, w}) /\ Len(Append(<<v>>, w)) = 2
      /\ Append(<<v>>, w)[1] = v /\ Append(<<v>>, w)[2] = w
  <2>1. Len(<<v>>) = 1 /\ <<v>>[1] = v /\ w \in {v, w}
    OBVIOUS
  <2> DEFINE s == <<v>>
  <2> HIDE DEF s
  <2>2. /\ Append(s, w) \in Seq({v, w}) /\ Len(Append(s, w)) = Len(s) + 1
        /\ \A i \in 1 .. Len(s) : Append(s, w)[i] = s[i]
        /\ Append(s, w)[Len(s) + 1] = w
    BY <1>1, <2>1, AppendProperties DEF s
  <2> QED
    BY <2>1, <2>2 DEF s
<1> DEFINE t == Append(<<v>>, w)
<1> HIDE DEF t
<1>3. t = <<v, w>>
  <2>1. t = [i \in 1 .. 2 |-> t[i]]
    BY <1>2 DEF t
  <2>2. <<v, w>> = [i \in 1 .. 2 |-> <<v, w>>[i]] /\ <<v, w>>[1] = v /\ <<v, w>>[2] = w
    OBVIOUS
  <2>3. \A i \in 1 .. 2 : i = 1 \/ i = 2
    OBVIOUS
  <2>4. \A i \in 1 .. 2 : t[i] = <<v, w>>[i]
    BY <1>2, <2>2, <2>3 DEF t
  <2> QED
    BY <2>1, <2>2, <2>4
<1> QED
  BY <1>3 DEF t

\* The positions of an interval, in order.
LEMMA NthOfInterval ==
  ASSUME NEW a \in Nat, NEW b \in Nat, a <= b + 1, NEW n \in 1 .. b - a + 1
  PROVE  Cardinality(a .. b) = b - a + 1 /\ Nth(a .. b, n) = a + n - 1
<1>1. ASSUME NEW i \in Nat, i >= a - 1 PROVE Cardinality(a .. i) = i - a + 1
  BY <1>1, FS_Interval
<1>2. ASSUME NEW i \in a .. b
      PROVE  {k \in a .. b : k <= i} = a .. i /\ Cardinality(a .. i) = i - a + 1
  <2>1. {k \in a .. b : k <= i} = a .. i
    OBVIOUS
  <2> QED
    BY <1>1, <2>1
<1>3. a + n - 1 \in a .. b /\ (a + n - 1) - a + 1 = n
  OBVIOUS
<1>4. \A i \in a .. b : Cardinality({k \in a .. b : k <= i}) = n <=> i = a + n - 1
  <2> TAKE i \in a .. b
  <2>1. Cardinality({k \in a .. b : k <= i}) = i - a + 1
    BY <1>2
  <2> QED
    BY <2>1
<1>5. Nth(a .. b, n) = a + n - 1
  BY <1>3, <1>4, Zenon DEF Nth
<1> QED
  BY <1>1, <1>5

\* What is behind the first is selected: the rest of the list.
LEMMA SelectBehind ==
  ASSUME NEW t, NEW v, NEW m, NEW n \in Nat, Preceded(t, v, m, n)
  PROVE  /\ Cardinality(2 .. n + 1) = n
         /\ \A k \in 1 .. n : Nth(2 .. n + 1, k) = k + 1
         /\ SubSeqAt(t, 2 .. n + 1) = [k \in 1 .. n |-> m[k]]
<1>1. Cardinality(2 .. n + 1) = n
  <2>1. 2 \in Int /\ n + 1 \in Int /\ (n + 1) - 2 + 1 = n /\ 2 > n + 1 => n = 0
    OBVIOUS
  <2> QED
    BY <2>1, FS_Interval
<1>2. ASSUME NEW k \in 1 .. n PROVE Nth(2 .. n + 1, k) = k + 1
  <2>1. /\ 2 \in Nat /\ n + 1 \in Nat /\ 2 <= n + 1 + 1
        /\ (n + 1) - 2 + 1 = n /\ 2 + k - 1 = k + 1
    OBVIOUS
  <2>2. k \in 1 .. (n + 1) - 2 + 1
    BY <2>1
  <2> QED
    BY <2>1, <2>2, NthOfInterval
<1>3. ASSUME NEW k \in 1 .. n PROVE t[Nth(2 .. n + 1, k)] = m[k]
  BY <1>2 DEF Preceded
<1> QED
  BY <1>1, <1>2, <1>3 DEF SubSeqAt

-----------------------------------------------------------------------------
\* The protocol.

LEMMA Kinds ==
  /\ ~IsSearch(Version) /\ ~IsResponse(Version)
  /\ \A e : /\ IsSearch(SearchRequest(e)) /\ ~IsResponse(SearchRequest(e))
            /\ SearchRequest(e).chanId = e.chanId /\ SearchRequest(e).pvname = e.pvname
  /\ \A id, ip, port : LET m == SearchResponse(id, ip, port)
                       IN  /\ IsSearch(m) /\ IsResponse(m)
                           /\ m.chanId = id /\ m.ip = ip /\ m.port = port
BY DEF Version, SearchRequest, SearchResponse, IsSearch, IsResponse

\* A packet with the searches of a list, and what an IOC responds to some ids.
PacketOf(l) == <<Version>> \o [i \in 1 .. Len(l) |-> SearchRequest(l[i])]

DatagramOf(a, ids) ==
  [from |-> a[1],
   packet |-> <<Version>> \o [i \in 1 .. Len(ids) |-> SearchResponse(ids[i], SenderIp, a[2])]]

LEMMA PacketHolds ==
  ASSUME NEW l \in Seq(Search)
  PROVE  Preceded(PacketOf(l), Version, [i \in 1 .. Len(l) |-> SearchRequest(l[i])], Len(l))
         /\ PacketOf(l) \in Seq({Version} \cup {SearchRequest(e) : e \in Search})
<1> DEFINE m == [i \in 1 .. Len(l) |-> SearchRequest(l[i])]
           S == {Version} \cup {SearchRequest(e) : e \in Search}
<1>1. Len(l) \in Nat /\ \A i \in 1 .. Len(l) : l[i] \in Search
  OBVIOUS
<1>2. \A i \in 1 .. Len(l) : SearchRequest(l[i]) \in S
  BY <1>1
<1> HIDE DEF S
<1>3. m \in [1 .. Len(l) -> S]
  BY <1>2
<1> HIDE DEF m
<1>4. m \in Seq(S) /\ Len(m) = Len(l)
  BY <1>1, <1>3
<1>5. Version \in S
  BY DEF S
<1>6. <<Version>> \o m \in Seq(S) /\ Preceded(<<Version>> \o m, Version, m, Len(l))
  BY <1>1, <1>4, <1>5, PutBefore
<1>7. PacketOf(l) = <<Version>> \o m
  BY DEF PacketOf, m
<1> QED
  BY <1>6, <1>7, Zenon DEF m, S

\* parseSearchRequest reads what createSearchRequest writes.
LEMMA PacketIsParsed ==
  ASSUME NEW l \in Seq(Search)
  PROVE  ParseSearchRequest(PacketOf(l)) = l
<1> DEFINE t == PacketOf(l)
           m == [i \in 1 .. Len(l) |-> SearchRequest(l[i])]
           n == Len(l)
<1>1. Preceded(t, Version, m, n) /\ n \in Nat
  <2>1. n \in Nat
    OBVIOUS
  <2> QED
    BY <2>1, PacketHolds, Zenon
<1>2. \A i \in 1 .. n : m[i] = SearchRequest(l[i])
  OBVIOUS
<1>3. DOMAIN t = 1 .. n + 1
  BY <1>1, PacketHolds DEF Preceded
<1> HIDE DEF t, m
<1>4. {i \in DOMAIN t : IsSearch(t[i])} = 2 .. n + 1
  <2>1. ~IsSearch(t[1])
    BY <1>1, Kinds DEF Preceded
  <2>2. ASSUME NEW i \in 2 .. n + 1 PROVE IsSearch(t[i])
    <3>1. i - 1 \in 1 .. n /\ i - 1 + 1 = i
      BY <1>1
    <3>2. t[i] = SearchRequest(l[i - 1])
      BY <1>1, <1>2, <3>1 DEF Preceded
    <3> QED
      BY <3>2, Kinds
  <2>3. \A i \in 1 .. n + 1 : i = 1 \/ i \in 2 .. n + 1
    BY <1>1
  <2>4. \A i \in 2 .. n + 1 : i \in 1 .. n + 1
    BY <1>1
  <2> QED
    BY <1>3, <2>1, <2>2, <2>3, <2>4
<1>5. Select(t, IsSearch) = [k \in 1 .. n |-> SearchRequest(l[k])]
  <2>1. Select(t, IsSearch) = SubSeqAt(t, 2 .. n + 1)
    BY <1>4, Zenon DEF Select
  <2>2. SubSeqAt(t, 2 .. n + 1) = [k \in 1 .. n |-> m[k]]
    BY <1>1, SelectBehind
  <2> QED
    BY <1>2, <2>1, <2>2
<1>6. ParseSearchRequest(t) = [k \in 1 .. n |-> [chanId |-> l[k].chanId, pvname |-> l[k].pvname]]
  BY <1>5, Kinds DEF ParseSearchRequest
<1>7. \A k \in 1 .. n : [chanId |-> l[k].chanId, pvname |-> l[k].pvname] = l[k]
  <2>1. \A k \in 1 .. n : l[k] \in Search
    OBVIOUS
  <2> QED
    BY <2>1 DEF Search
<1>8. l = [k \in 1 .. n |-> l[k]]
  OBVIOUS
<1> QED
  BY <1>6, <1>7, <1>8 DEF t

\* What an IOC sends is one datagram of responses, and is read as one: the
\* address is the IOC's, and so is the one put into the response.
ResponseFor(id, a) == <<Version, SearchResponse(id, a[1], a[2])>>

LEMMA DatagramIsParsed ==
  ASSUME NEW a \in Addr, NEW ids \in Seq(Nat), ids # <<>>,
         NEW d, d = DatagramOf(a, ids)
  PROVE  /\ ParseIocAddr(d.from, d.packet) = a
         /\ \A r \in ToSet(ParseSearchResponse(d.packet)) :
              /\ \E i \in 1 .. Len(ids) : r.chanId = ids[i]
              /\ UpdateReplyAddr(r.rsp, a) = ResponseFor(r.chanId, a)
<1> DEFINE t == d.packet
           m == [i \in 1 .. Len(ids) |-> SearchResponse(ids[i], SenderIp, a[2])]
           n == Len(ids)
           S == {Version} \cup {m[i] : i \in 1 .. n}
<1>1. n \in Nat \ {0}
  OBVIOUS
<1>2. \A i \in 1 .. n : m[i] = SearchResponse(ids[i], SenderIp, a[2])
  OBVIOUS
<1>3. t \in Seq(S) /\ Preceded(t, Version, m, n)
  <2>1. t = <<Version>> \o m /\ Version \in S
    BY DEF DatagramOf
  <2>2. m \in [1 .. n -> S]
    OBVIOUS
  <2> HIDE DEF m, S, t
  <2>3. m \in Seq(S) /\ Len(m) = n
    BY <1>1, <2>2
  <2> QED
    BY <1>1, <2>1, <2>3, PutBefore
<1>4. d.from = a[1]
  BY DEF DatagramOf
<1>5. DOMAIN t = 1 .. n + 1
  BY <1>3 DEF Preceded
<1> HIDE DEF t, m, S
<1>6. \A i \in 2 .. n + 1 : i - 1 \in 1 .. n /\ t[i] = SearchResponse(ids[i - 1], SenderIp, a[2])
  <2> TAKE i \in 2 .. n + 1
  <2>1. i - 1 \in 1 .. n /\ i - 1 + 1 = i
    BY <1>1
  <2> QED
    BY <1>2, <1>3, <2>1 DEF Preceded
<1>7. {i \in DOMAIN t : IsResponse(t[i])} = 2 .. n + 1
  <2>1. ~IsResponse(t[1])
    BY <1>3, Kinds DEF Preceded
  <2>2. ASSUME NEW i \in 2 .. n + 1 PROVE IsResponse(t[i])
    BY <1>6, Kinds
  <2>3. \A i \in 1 .. n + 1 : i = 1 \/ i \in 2 .. n + 1
    BY <1>1
  <2>4. \A i \in 2 .. n + 1 : i \in 1 .. n + 1
    BY <1>1
  <2> QED
    BY <1>5, <2>1, <2>2, <2>3, <2>4
<1>8. ParseIocAddr(d.from, t) = a
  <2>1. Select(t, IsResponse) = [k \in 1 .. n |-> m[k]]
    <3>1. Select(t, IsResponse) = SubSeqAt(t, 2 .. n + 1)
      BY <1>7, Zenon DEF Select
    <3> QED
      BY <1>1, <1>3, <3>1, SelectBehind
  <2>2. Select(t, IsResponse)[1] = SearchResponse(ids[1], SenderIp, a[2])
    BY <1>1, <1>2, <2>1
  <2>3. Select(t, IsResponse)[1].port = a[2]
    BY <2>2, Kinds
  <2>4. a = <<a[1], a[2]>>
    BY DEF Addr
  <2> QED
    BY <1>4, <2>3, <2>4 DEF ParseIocAddr
<1>9. ASSUME NEW r \in ToSet(ParseSearchResponse(t))
      PROVE  \E i \in 1 .. n :
               /\ r.chanId = ids[i]
               /\ r.rsp = <<Version, SearchResponse(ids[i], SenderIp, a[2])>>
  <2> DEFINE found == 2 .. n + 1
             version(i) == IF \E j \in 1 .. i : t[j] = Version THEN <<Version>> ELSE <<>>
  <2>1. Cardinality(found) = n /\ \A k \in 1 .. n : Nth(found, k) = k + 1
    BY <1>1, <1>3, SelectBehind
  <2> HIDE DEF found
  <2>2. ParseSearchResponse(t) =
          [k \in 1 .. n |-> [chanId |-> t[Nth(found, k)].chanId,
                             rsp |-> Append(version(Nth(found, k)), t[Nth(found, k)])]]
    BY <1>7, <2>1 DEF ParseSearchResponse, found
  <2>3. PICK k \in 1 .. n :
          r = [chanId |-> t[Nth(found, k)].chanId,
               rsp |-> Append(version(Nth(found, k)), t[Nth(found, k)])]
    BY <2>2, ZenonT(60) DEF ToSet
  <2>4. k + 1 \in 2 .. n + 1 /\ (k + 1) - 1 = k /\ 1 \in 1 .. k + 1
    BY <1>1
  <2>5. version(k + 1) = <<Version>>
    BY <1>3, <2>4 DEF Preceded
  <2> HIDE DEF version
  <2>6. t[k + 1] = SearchResponse(ids[k], SenderIp, a[2])
    BY <1>6, <2>4
  <2>7. r = [chanId |-> t[k + 1].chanId, rsp |-> Append(<<Version>>, t[k + 1])]
    BY <2>1, <2>3, <2>5
  <2>8. t[k + 1].chanId = ids[k]
    BY <2>6, Kinds
  <2>9. r.chanId = ids[k] /\ r.rsp = Append(<<Version>>, t[k + 1])
    BY <2>7, <2>8
  <2>10. Append(<<Version>>, t[k + 1]) = <<Version, t[k + 1]>>
    BY AppendToOne
  <2> QED
    BY <2>6, <2>9, <2>10, Zenon
<1>10. ASSUME NEW id, NEW rsp, rsp = <<Version, SearchResponse(id, SenderIp, a[2])>>
       PROVE  UpdateReplyAddr(rsp, a) = ResponseFor(id, a)
  <2> DEFINE x == SearchResponse(id, SenderIp, a[2])
  <2>1. [x EXCEPT !.ip = a[1], !.port = a[2]] = SearchResponse(id, a[1], a[2])
    <3> DEFINE y == [x EXCEPT !.ip = a[1]]
    <3>1. y = SearchResponse(id, a[1], a[2])
      BY DEF SearchResponse
    <3> HIDE DEF x
    <3>2. [x EXCEPT !.ip = a[1], !.port = a[2]] = [y EXCEPT !.port = a[2]]
      OBVIOUS
    <3> HIDE DEF y
    <3>3. [y EXCEPT !.port = a[2]] = SearchResponse(id, a[1], a[2])
      BY <3>1 DEF SearchResponse
    <3> QED
      BY <3>2, <3>3
  <2>2. IsSearch(x) /\ ~IsSearch(Version)
    BY Kinds
  <2>3. DOMAIN rsp = 1 .. 2 /\ rsp[1] = Version /\ rsp[2] = x
    BY <1>10
  <2> HIDE DEF x
  <2>4. UpdateReplyAddr(rsp, a) =
          [i \in 1 .. 2 |-> IF IsSearch(rsp[i]) THEN [rsp[i] EXCEPT !.ip = a[1], !.port = a[2]]
                            ELSE rsp[i]]
    BY <2>3 DEF UpdateReplyAddr, UpdateSearches
  <2> DEFINE f == [i \in 1 .. 2 |-> IF IsSearch(rsp[i])
                                    THEN [rsp[i] EXCEPT !.ip = a[1], !.port = a[2]]
                                    ELSE rsp[i]]
  <2>5. f[1] = Version /\ f[2] = SearchResponse(id, a[1], a[2])
    <3>1. f[1] = Version
      BY <2>2, <2>3
    <3>2. f[2] = [x EXCEPT !.ip = a[1], !.port = a[2]]
      <4>1. 2 \in 1 .. 2 /\ IsSearch(rsp[2])
        BY <2>2, <2>3
      <4>2. f[2] = [rsp[2] EXCEPT !.ip = a[1], !.port = a[2]]
        BY <4>1, Zenon
      <4> HIDE DEF f
      <4> QED
        BY <2>3, <4>2, Zenon
    <3> QED
      BY <2>1, <3>1, <3>2
  <2>6. f = <<f[1], f[2]>>
    OBVIOUS
  <2>7. UpdateReplyAddr(rsp, a) = f
    BY <2>4
  <2> HIDE DEF f
  <2> QED
    BY <2>5, <2>6, <2>7, Zenon DEF ResponseFor
<1> QED
  BY <1>8, <1>9, <1>10 DEF t

\* The other updateSearchReply, for a client.
LEMMA ReplyIsFor ==
  ASSUME NEW a, NEW id, NEW chan
  PROVE  UpdateReplyId(ResponseFor(id, a), chan) = ResponseFor(chan, a)
<1> DEFINE x == SearchResponse(id, a[1], a[2])
           rsp == <<Version, x>>
           f == [i \in 1 .. 2 |-> IF IsSearch(rsp[i]) THEN [rsp[i] EXCEPT !.chanId = chan]
                                  ELSE rsp[i]]
<1>1. [x EXCEPT !.chanId = chan] = SearchResponse(chan, a[1], a[2])
  BY DEF SearchResponse
<1>2. IsSearch(x) /\ ~IsSearch(Version)
  BY Kinds
<1> HIDE DEF x
<1>3. DOMAIN rsp = 1 .. 2 /\ rsp[1] = Version /\ rsp[2] = x
  OBVIOUS
<1> HIDE DEF rsp
<1>4. UpdateReplyId(rsp, chan) = f
  BY <1>3 DEF UpdateReplyId, UpdateSearches
<1>5. f[1] = Version
  BY <1>2, <1>3
<1>6. f[2] = SearchResponse(chan, a[1], a[2])
  <2>1. 2 \in 1 .. 2 /\ IsSearch(rsp[2])
    BY <1>2, <1>3
  <2>2. f[2] = [rsp[2] EXCEPT !.chanId = chan]
    BY <2>1, Zenon
  <2> QED
    BY <1>1, <1>3, <2>2
<1>7. f = <<f[1], f[2]>>
  OBVIOUS
<1> HIDE DEF f
<1> QED
  BY <1>4, <1>5, <1>6, <1>7, Zenon DEF ResponseFor, rsp, x

-----------------------------------------------------------------------------
\* Access rules.

\* What the first rule that matches denies is not permitted.
LEMMA DeniedIsNotPermitted ==
  ASSUME NEW X, NEW rules \in Seq(Rule(X)), NEW x, Denied(rules, x)
  PROVE  ~Permits(rules, x)
<1> DEFINE hits == {i \in DOMAIN rules : x \in rules[i].matches}
<1>1. PICK i \in DOMAIN rules : /\ rules[i].action = "DENY" /\ x \in rules[i].matches
                                /\ \A j \in 1 .. i - 1 : x \notin rules[j].matches
  BY DEF Denied
<1>2. hits \in SUBSET Nat /\ i \in hits
  BY <1>1
<1>3. Min(hits) \in hits /\ Min(hits) <= i
  BY <1>2, MinOfNats
<1>4. Min(hits) = i
  <2>1. Min(hits) \in Nat /\ i \in Nat /\ 1 <= Min(hits) /\ x \in rules[Min(hits)].matches
    BY <1>2, <1>3
  <2>2. Min(hits) \notin 1 .. i - 1
    BY <1>1, <2>1
  <2> HIDE DEF hits
  <2> QED
    BY <1>3, <2>1, <2>2
<1>5. rules[Min(hits)].action # "ALLOW" /\ hits # {}
  BY <1>1, <1>2, <1>4
<1> QED
  BY <1>5 DEF Permits

\* The searches let through are channels of the datagram, with their PVs.
Passed == [chanId: Nat, pvname: PV]

LEMMA ChannelsNamePVs ==
  ASSUME NEW ch \in Channel, PvName(ch) # NoName
  PROVE  PvName(ch) \in PV /\ ch.chanId \in Nat
<1>1. ch.name \in {<<p>> : p \in Before} \cup Before \X {"VAL", "DESC"} /\ ch.chanId \in Nat
  BY DEF Channel
<1>2. CASE ch.name \in {<<p>> : p \in Before}
  BY <1>1, <1>2 DEF PvName, Before
<1>3. CASE ch.name \in Before \X {"VAL", "DESC"}
  BY <1>1, <1>3 DEF PvName, Before
<1> QED
  BY <1>1, <1>2, <1>3

LEMMA LetThroughIs ==
  ASSUME NEW client, NEW channels \in Seq(Channel)
  PROVE  /\ LetThrough(client, channels) \in Seq(Passed)
         /\ \A n \in 1 .. Len(LetThrough(client, channels)) :
              \E ch \in ToSet(channels) :
                /\ PvName(ch) \in PV /\ CheckAccessControl(PvName(ch), client)
                /\ LetThrough(client, channels)[n] =
                     [chanId |-> ch.chanId, pvname |-> PvName(ch)]
<1> DEFINE K == {i \in DOMAIN channels : /\ PvName(channels[i]) # NoName
                                         /\ CheckAccessControl(PvName(channels[i]), client)}
           s == SubSeqAt(channels, K)
           pvOf(ch) == [chanId |-> ch.chanId, pvname |-> PvName(ch)]
<1>1. K \in SUBSET (1 .. Len(channels))
  OBVIOUS
<1>2. s \in Seq(Channel) /\ Selection(s, channels, K)
  BY <1>1, SelectionIs
<1>3. LetThrough(client, channels) = [i \in DOMAIN s |-> pvOf(s[i])]
  BY DEF LetThrough, Select
<1> HIDE DEF s
<1>4. ASSUME NEW n \in 1 .. Len(s)
      PROVE  \E ch \in ToSet(channels) :
               /\ PvName(ch) \in PV /\ CheckAccessControl(PvName(ch), client)
               /\ pvOf(s[n]) = pvOf(ch) /\ pvOf(ch) \in Passed
  <2>1. PICK i \in K : s[n] = channels[i]
    BY <1>2 DEF Selection
  <2>2. channels[i] \in Channel /\ channels[i] \in ToSet(channels)
    BY <1>1 DEF ToSet
  <2>3. PvName(channels[i]) \in PV /\ channels[i].chanId \in Nat
    BY <2>2, ChannelsNamePVs
  <2>4. pvOf(channels[i]) \in Passed
    BY <2>3 DEF Passed
  <2>5. CheckAccessControl(PvName(channels[i]), client)
    OBVIOUS
  <2> HIDE DEF K
  <2> QED
    BY <2>1, <2>2, <2>3, <2>4, <2>5
<1> HIDE DEF K, pvOf
<1>5. Len(s) \in Nat /\ DOMAIN s = 1 .. Len(s)
  BY <1>2
<1>6. [i \in DOMAIN s |-> pvOf(s[i])] \in [1 .. Len(s) -> Passed]
  BY <1>4, <1>5
<1>7. /\ LetThrough(client, channels) \in Seq(Passed)
      /\ Len(LetThrough(client, channels)) = Len(s)
  BY <1>3, <1>5, <1>6
<1>8. \A n \in 1 .. Len(s) : LetThrough(client, channels)[n] = pvOf(s[n])
  BY <1>3, <1>5
<1> QED
  BY <1>4, <1>7, <1>8, ZenonT(60) DEF pvOf

\* A reply is what is known of the PV of a channel, with the channel's id.
LEMMA RepliesAre ==
  ASSUME NEW client, NEW channels \in Seq(Channel), NEW answer
  PROVE  /\ \A i \in DOMAIN Replies(client, channels, answer) :
              \E ch \in ToSet(channels) :
                /\ PvName(ch) \in PV /\ CheckAccessControl(PvName(ch), client)
                /\ answer[PvName(ch)] # <<>>
                /\ Replies(client, channels, answer)[i] =
                     UpdateReplyId(answer[PvName(ch)], ch.chanId)
         /\ ~Permits(ClientRules, client) => Replies(client, channels, answer) = <<>>
<1> DEFINE l == LetThrough(client, channels)
           K == {i \in DOMAIN l : answer[l[i].pvname] # <<>>}
           s == SubSeqAt(l, K)
<1>1. l \in Seq(Passed)
  BY LetThroughIs
<1>2. \A n \in 1 .. Len(l) :
        \E ch \in ToSet(channels) :
          /\ PvName(ch) \in PV /\ CheckAccessControl(PvName(ch), client)
          /\ l[n] = [chanId |-> ch.chanId, pvname |-> PvName(ch)]
  BY LetThroughIs, ZenonT(60)
<1>3. Replies(client, channels, answer) =
        [i \in DOMAIN s |-> UpdateReplyId(answer[s[i].pvname], s[i].chanId)]
  BY DEF Replies, Select
<1> HIDE DEF l
<1>4. K \in SUBSET (1 .. Len(l))
  BY <1>1
<1>5. s \in Seq(Passed) /\ Selection(s, l, K)
  BY <1>1, <1>4, SelectionIs
<1> HIDE DEF s
<1>6. ASSUME NEW i \in DOMAIN s
      PROVE  \E ch \in ToSet(channels) :
               /\ PvName(ch) \in PV /\ CheckAccessControl(PvName(ch), client)
               /\ answer[PvName(ch)] # <<>>
               /\ s[i].pvname = PvName(ch) /\ s[i].chanId = ch.chanId
  <2>1. PICK n \in K : s[i] = l[n]
    BY <1>5 DEF Selection
  <2>2. PICK ch \in ToSet(channels) :
          /\ PvName(ch) \in PV /\ CheckAccessControl(PvName(ch), client)
          /\ l[n] = [chanId |-> ch.chanId, pvname |-> PvName(ch)]
    BY <1>2, <1>4
  <2>3. s[i].pvname = PvName(ch) /\ s[i].chanId = ch.chanId
    BY <2>1, <2>2
  <2>4. answer[l[n].pvname] # <<>>
    OBVIOUS
  <2> HIDE DEF K
  <2> QED
    BY <2>1, <2>2, <2>3, <2>4
<1>7. ASSUME ~Permits(ClientRules, client) PROVE DOMAIN s = {}
  <2> SUFFICES ASSUME NEW i \in DOMAIN s PROVE FALSE
    OBVIOUS
  <2> QED
    BY <1>6, <1>7 DEF CheckAccessControl
<1>8. ASSUME DOMAIN s = {} PROVE Replies(client, channels, answer) = <<>>
  BY <1>3, <1>8
<1> HIDE DEF K
<1>9. ASSUME NEW i \in DOMAIN Replies(client, channels, answer)
      PROVE  i \in DOMAIN s /\ Replies(client, channels, answer)[i] =
                                 UpdateReplyId(answer[s[i].pvname], s[i].chanId)
  BY <1>3
<1> QED
  BY <1>6, <1>7, <1>8, <1>9

-----------------------------------------------------------------------------
\* How long a packet is.

Payloads(l) == [i \in 1 .. Len(l) |-> PayloadLen(l[i].pvname)]

LEMMA PayloadIsNat ==
  ASSUME NEW p \in PV
  PROVE  PayloadLen(p) \in Nat
<1>1. LongestName \in Nat
  BY DEF LongestName
<1>2. NameLength[p] \in 1 .. LongestName
  BY ChannelAccessAssumption
<1>3. NameLength[p] + 8 \in Nat
  BY <1>1, <1>2
<1>4. (NameLength[p] + 8) \div 8 \in Nat
  BY <1>3, DivIsNat
<1>5. 8 * ((NameLength[p] + 8) \div 8) \in Nat
  BY <1>4
<1> QED
  BY <1>5 DEF PayloadLen

LEMMA PayloadsAreNat ==
  ASSUME NEW l \in Seq(Search)
  PROVE  \A i \in 1 .. Len(l) : /\ l[i].pvname \in PV
                                /\ Payloads(l)[i] = PayloadLen(l[i].pvname)
                                /\ Payloads(l)[i] \in Nat
<1> TAKE i \in 1 .. Len(l)
<1>1. l[i].pvname \in PV
  <2>1. l[i] \in Search
    OBVIOUS
  <2> QED
    BY <2>1 DEF Search
<1>2. PayloadLen(l[i].pvname) \in Nat
  BY <1>1, PayloadIsNat
<1> QED
  BY <1>1, <1>2 DEF Payloads

\* A sum of sizes is a function that FoldLeft may be said to take.
SizeSum(h, n, b, w) ==
  h = [r \in SUBSET (1 .. n) |->
         IF r = {} THEN b ELSE h[r \ {Max(r)}] + HeaderSize + w[Max(r)]]

LEMMA SumsOfSizes ==
  ASSUME NEW n \in Nat, NEW b \in Nat, NEW w, \A i \in 1 .. n : w[i] \in Nat
  PROVE  \E h : SizeSum(h, n, b, w)
<1>1. PICK h \in [SUBSET (1 .. n) -> Nat] : SumsUpTo(h, n, b, HeaderSize, w)
  BY SumsExist DEF HeaderSize
<1>2. \A r \in SUBSET (1 .. n) :
        h[r] = IF r = {} THEN b ELSE h[r \ {Max(r)}] + HeaderSize + w[Max(r)]
  BY <1>1 DEF SumsUpTo
<1>3. h = [r \in SUBSET (1 .. n) |-> h[r]]
  BY <1>1
<1>4. h = [r \in SUBSET (1 .. n) |->
             IF r = {} THEN b ELSE h[r \ {Max(r)}] + HeaderSize + w[Max(r)]]
  BY <1>2, <1>3
<1> QED
  BY <1>4 DEF SizeSum

\* createSearchRequest adds up the sizes of what it has put in.
LEMMA OffsetAddsUp ==
  ASSUME NEW l \in Seq(Search), NEW n \in 0 .. Len(l)
  PROVE  \E g : /\ SumsUpTo(g, n, HeaderSize, HeaderSize, Payloads(l))
                /\ Offset(l, n) = g[1 .. n]
<1> DEFINE s == SubSeq(l, 1, n)
           w == [i \in 1 .. n |-> PayloadLen(s[i].pvname)]
           def(g_) == [r \in SUBSET (1 .. n) |->
                         IF r = {} THEN HeaderSize
                         ELSE g_[r \ {Max(r)}] + HeaderSize + PayloadLen(s[Max(r)].pvname)]
<1>1. DOMAIN s = 1 .. n /\ \A i \in 1 .. n : s[i] = l[i] /\ i \in 1 .. Len(l)
  OBVIOUS
<1> HIDE DEF s
<1>2. \A i \in 1 .. n : /\ w[i] = PayloadLen(s[i].pvname) /\ w[i] \in Nat
                        /\ Payloads(l)[i] = PayloadLen(s[i].pvname)
  BY <1>1, PayloadsAreNat
<1> HIDE DEF w
<1>3. n \in Nat /\ HeaderSize \in Nat
  BY DEF HeaderSize
<1>4. PICK h : SizeSum(h, n, HeaderSize, w)
  BY <1>2, <1>3, SumsOfSizes
<1>5. \A r \in SUBSET (1 .. n) : r # {} => Max(r) \in 1 .. n
  BY <1>3, MaxOfSome
<1>6. h = def(h)
  <2>1. ASSUME NEW r \in SUBSET (1 .. n)
        PROVE  (IF r = {} THEN HeaderSize ELSE h[r \ {Max(r)}] + HeaderSize + w[Max(r)])
                 = (IF r = {} THEN HeaderSize
                    ELSE h[r \ {Max(r)}] + HeaderSize + PayloadLen(s[Max(r)].pvname))
    BY <1>2, <1>5
  <2> QED
    BY <1>4, <2>1 DEF SizeSum
<1>7. PICK g : g = def(g) /\ Offset(l, n) = g[1 .. n]
  BY <1>1, <1>6, ZenonT(60) DEF Offset, FoldLeft, MapThenFoldSet, s
<1>8. ASSUME NEW r \in SUBSET (1 .. n)
      PROVE  g[r] = IF r = {} THEN HeaderSize
                    ELSE g[r \ {Max(r)}] + HeaderSize + Payloads(l)[Max(r)]
  <2>1. g[r] = IF r = {} THEN HeaderSize
               ELSE g[r \ {Max(r)}] + HeaderSize + PayloadLen(s[Max(r)].pvname)
    BY <1>7
  <2> QED
    BY <1>2, <1>5, <2>1
<1> HIDE DEF def
<1> QED
  BY <1>7, <1>8 DEF SumsUpTo

\* The size of a packet is the same sum.
LEMMA PacketSizeAddsUp ==
  ASSUME NEW n \in Nat, NEW m, DOMAIN m = 1 .. n,
         NEW w, \A i \in 1 .. n : w[i] \in Nat /\ m[i].payload = w[i]
  PROVE  \E g : SumsUpTo(g, n, 0, HeaderSize, w) /\ PacketSize(m) = g[1 .. n]
<1> DEFINE def(g_) == [r \in SUBSET (1 .. n) |->
                         IF r = {} THEN 0
                         ELSE g_[r \ {Max(r)}] + HeaderSize + m[Max(r)].payload]
<1>1. PICK h : SizeSum(h, n, 0, w)
  BY SumsOfSizes
<1>2. \A r \in SUBSET (1 .. n) : r # {} => Max(r) \in 1 .. n
  BY MaxOfSome
<1>3. h = def(h)
  <2>1. ASSUME NEW r \in SUBSET (1 .. n)
        PROVE  (IF r = {} THEN 0 ELSE h[r \ {Max(r)}] + HeaderSize + w[Max(r)])
                 = (IF r = {} THEN 0
                    ELSE h[r \ {Max(r)}] + HeaderSize + m[Max(r)].payload)
    BY <1>2
  <2> QED
    BY <1>1, <2>1 DEF SizeSum
<1>4. PICK g : g = def(g) /\ PacketSize(m) = g[1 .. n]
  BY <1>3 DEF PacketSize, FoldLeft, MapThenFoldSet
<1>5. ASSUME NEW r \in SUBSET (1 .. n)
      PROVE  g[r] = IF r = {} THEN 0 ELSE g[r \ {Max(r)}] + HeaderSize + w[Max(r)]
  <2>1. g[r] = IF r = {} THEN 0 ELSE g[r \ {Max(r)}] + HeaderSize + m[Max(r)].payload
    BY <1>4
  <2> QED
    BY <1>2, <2>1
<1> HIDE DEF def
<1> QED
  BY <1>4, <1>5 DEF SumsUpTo

\* What comes before the last search of a packet is as long as
\* createSearchRequest takes it to be.
LEMMA SizeIsOffset ==
  ASSUME NEW l \in Seq(Search), NEW n \in Nat, Len(l) = n + 1
  PROVE  Offset(l, n) \in Nat /\ PacketSize(Front(PacketOf(l))) = Offset(l, n)
<1> DEFINE t == PacketOf(l)
           m == Front(t)
           v == [i \in 1 .. n + 1 |-> IF i = 1 THEN 0 ELSE Payloads(l)[i - 1]]
<1>1. n \in 0 .. Len(l) /\ n + 1 \in Nat /\ HeaderSize \in Nat /\ 0 \in Nat
  BY DEF HeaderSize
<1>2. PICK g : SumsUpTo(g, n, HeaderSize, HeaderSize, Payloads(l)) /\ Offset(l, n) = g[1 .. n]
  BY <1>1, OffsetAddsUp
<1>3. Preceded(t, Version, [i \in 1 .. Len(l) |-> SearchRequest(l[i])], Len(l))
      /\ t \in Seq({Version} \cup {SearchRequest(e) : e \in Search})
  BY PacketHolds
<1> HIDE DEF t
<1>4. t[1] = Version /\ \A i \in 1 .. n : t[i + 1] = SearchRequest(l[i])
  BY <1>1, <1>3 DEF Preceded
<1>5. DOMAIN m = 1 .. n + 1 /\ \A i \in 1 .. n + 1 : m[i] = t[i]
  <2>1. Len(t) = n + 2
    BY <1>1, <1>3 DEF Preceded
  <2>2. m = SubSeq(t, 1, n + 1)
    BY <2>1 DEF Front
  <2> HIDE DEF m
  <2> QED
    BY <1>3, <2>1, <2>2
<1> HIDE DEF m
<1>6. \A i \in 1 .. n : Payloads(l)[i] \in Nat /\ v[i + 1] = Payloads(l)[i]
  <2> TAKE i \in 1 .. n
  <2>1. i + 1 \in 1 .. n + 1 /\ i + 1 # 1 /\ i + 1 - 1 = i /\ i \in 1 .. Len(l)
    OBVIOUS
  <2> QED
    BY <2>1, PayloadsAreNat
<1>7. v[1] = 0
  BY <1>1
<1>8. \A i \in 1 .. n + 1 : v[i] \in Nat /\ m[i].payload = v[i]
  <2> TAKE i \in 1 .. n + 1
  <2>1. CASE i = 1
    BY <1>4, <1>5, <1>7, <2>1 DEF Version
  <2>2. CASE i # 1
    <3>1. i - 1 \in 1 .. n /\ i - 1 + 1 = i /\ i - 1 \in 1 .. Len(l)
      BY <2>2
    <3>2. m[i] = SearchRequest(l[i - 1]) /\ v[i] = Payloads(l)[i - 1] /\ v[i] \in Nat
      BY <1>4, <1>5, <1>6, <3>1
    <3>3. Payloads(l)[i - 1] = PayloadLen(l[i - 1].pvname)
      BY <3>1, PayloadsAreNat
    <3> QED
      BY <3>2, <3>3 DEF SearchRequest
  <2> QED
    BY <2>1, <2>2
<1> HIDE DEF v
<1>9. PICK h : SumsUpTo(h, n + 1, 0, HeaderSize, v) /\ PacketSize(m) = h[1 .. n + 1]
  BY <1>1, <1>5, <1>8, PacketSizeAddsUp
<1>10. 0 + HeaderSize + v[1] = HeaderSize
  BY <1>7 DEF HeaderSize
<1> DEFINE w == Payloads(l)
<1>11. g[1 .. n] \in Nat /\ h[1 .. n + 1] = g[1 .. n]
  <2>1. SumsUpTo(g, n, HeaderSize, HeaderSize, w) /\ SumsUpTo(h, n + 1, 0, HeaderSize, v)
    BY <1>2, <1>9
  <2>2. \A i \in 1 .. n : w[i] \in Nat /\ v[i + 1] = w[i]
    BY <1>6
  <2> HIDE DEF w
  <2>3. n \in Nat /\ HeaderSize \in Nat /\ 0 \in Nat
    BY <1>1
  <2>4. Shifted(g, h, n, HeaderSize, 0, HeaderSize, w, v)
    BY <1>10, <2>1, <2>2 DEF Shifted
  <2> QED
    BY <2>3, <2>4, SumShifts
<1> QED
  BY <1>2, <1>9, <1>11 DEF m, t

\* createSearchRequest takes the first searches of its list, at least one, and
\* none after the one that goes over the limit.
LEMMA RequestIs ==
  ASSUME NEW l \in Seq(Search), l # <<>>
  PROVE  LET k == SubSeq(l, 1, NPvs(l)) IN
         /\ NPvs(l) \in 1 .. Len(l)
         /\ k \in Seq(Search) /\ Len(k) = NPvs(l) /\ \A i \in 1 .. Len(k) : k[i] = l[i]
         /\ CreateSearchRequest(l) = PacketOf(k)
         /\ Len(k) > 1 => Offset(k, Len(k) - 1) <= PacketLimit
<1> DEFINE T == {n \in 1 .. Len(l) : Offset(l, n) > PacketLimit} \cup {Len(l)}
           m == NPvs(l)
           k == SubSeq(l, 1, m)
<1>1. Len(l) \in Nat \ {0}
  OBVIOUS
<1>2. T \in SUBSET Nat /\ T # {} /\ T \subseteq 1 .. Len(l)
  BY <1>1
<1>3. m = Min(T)
  BY DEF NPvs
<1>4. \A n \in T : m <= n
  BY <1>2, <1>3, MinOfNats
<1>5. m \in 1 .. Len(l)
  BY <1>2, <1>3, MinOfNats
<1>6. \A n \in 1 .. m - 1 : ~(Offset(l, n) > PacketLimit)
  <2> SUFFICES ASSUME NEW n \in 1 .. m - 1, Offset(l, n) > PacketLimit PROVE FALSE
    OBVIOUS
  <2>1. n \in T
    BY <1>1, <1>5
  <2> QED
    BY <1>4, <1>5, <2>1
<1> HIDE DEF T, m
<1>7. k \in Seq(Search) /\ Len(k) = m /\ \A i \in 1 .. m : k[i] = l[i]
  BY <1>5
<1>8. CreateSearchRequest(l) = PacketOf(k)
  <2>1. \A i \in 1 .. m : k[i] = l[i]
    BY <1>7
  <2>2. [i \in 1 .. m |-> SearchRequest(l[i])] = [i \in 1 .. Len(k) |-> SearchRequest(k[i])]
    BY <1>7
  <2> HIDE DEF k
  <2> QED
    BY <2>2 DEF CreateSearchRequest, PacketOf, m
<1>9. ASSUME Len(k) > 1 PROVE Offset(k, Len(k) - 1) <= PacketLimit
  <2>1. /\ m \in Int /\ m - 1 \in Nat /\ Len(k) = (m - 1) + 1 /\ Len(k) - 1 = m - 1
        /\ m - 1 \in 1 .. m - 1
    BY <1>5, <1>7, <1>9
  <2>2. SubSeq(k, 1, m - 1) = SubSeq(l, 1, m - 1)
    BY <1>5, <1>7
  <2>3. Offset(k, m - 1) = Offset(l, m - 1)
    BY <2>2 DEF Offset
  <2>4. Offset(k, m - 1) \in Nat
    BY <1>7, <2>1, SizeIsOffset
  <2>5. ~(Offset(k, m - 1) > PacketLimit) /\ PacketLimit \in Nat
    BY <1>6, <2>1, <2>3, ChannelAccessAssumption
  <2> QED
    BY <2>1, <2>4, <2>5
<1> QED
  BY <1>5, <1>7, <1>8, <1>9 DEF m

-----------------------------------------------------------------------------
\* The inductive invariant.

\* A search that was made: its id names one PV at most, for as long as the
\* server runs, also in packets and responses that outlive the search.
Known(e) ==
  /\ e \in Search /\ e.chanId < nextChan
  /\ \A s \in ToSet(searches) : s.chanId = e.chanId => s.pvname = e.pvname

AllKnown(l) == l \in Seq(Search) /\ \A i \in 1 .. Len(l) : Known(l[i])

SearchesOK ==
  /\ nextChan \in Nat /\ AllKnown(searches)
  /\ \A i \in 1 .. Len(searches) : Permits(PvRules, searches[i].pvname)

PacketOK(packet) ==
  LET l == ParseSearchRequest(packet)
  IN  /\ packet = PacketOf(l) /\ AllKnown(l)
      /\ Len(l) > 1 => Offset(l, Len(l) - 1) <= PacketLimit

Packet == {PacketOf(l) : l \in Seq(Search)}

SendingOK ==
  /\ AllKnown(pvs) /\ AllKnown(round)
  /\ packets \in Seq(Packet) /\ \A i \in 1 .. Len(packets) : PacketOK(packets[i])
  /\ RoundIsSent

\* An id is that of a PV of the IOC, or of no search any more.
Leads(id, a) ==
  id < nextChan /\ \A s \in ToSet(searches) : s.chanId = id => Host[s.pvname] = a

ResponseOK(d) ==
  \E a \in Addr : \E ids \in Seq(Nat) :
    /\ ids # <<>> /\ d = DatagramOf(a, ids)
    /\ \A i \in 1 .. Len(ids) : Leads(ids[i], a)

ResponsesOK == \A d \in responses : ResponseOK(d)

CachedOK(c, p) ==
  c = NotCached \/ ( /\ Permits(PvRules, p)
                     /\ \E id \in Nat : c = [ioc |-> Host[p], response |-> ResponseFor(id, Host[p])] )

CacheOK == \A p \in PV : CachedOK(cache[p], p)

ServedOK ==
  /\ RepliesLeadHome
  /\ \A a \in asked : ~Permits(ClientRules, a.client) => replies = <<>>

IInv == SearchesOK /\ SendingOK /\ ResponsesOK /\ CacheOK /\ ServedOK

\* Searches end, and new ones have new ids: what is known stays so.
NewIds ==
  /\ nextChan' \in Nat /\ nextChan <= nextChan'
  /\ \A s \in ToSet(searches') : s \in ToSet(searches) \/ (s.chanId \in Nat /\ s.chanId >= nextChan)

LEMMA KnownStays ==
  ASSUME nextChan \in Nat, NewIds
  PROVE  /\ \A l : AllKnown(l) => AllKnown(l)'
         /\ SendingOK /\ UNCHANGED <<pvs, round, packets>> => SendingOK'
         /\ \A d : ResponseOK(d) => ResponseOK(d)'
<1>1. ASSUME NEW e, Known(e) PROVE Known(e)'
  <2>1. e \in Search /\ e.chanId \in Nat /\ e.chanId < nextChan
    BY <1>1 DEF Known, Search
  <2>2. e.chanId < nextChan'
    BY <2>1 DEF NewIds
  <2>3. ASSUME NEW s \in ToSet(searches'), s.chanId = e.chanId PROVE s.pvname = e.pvname
    <3>1. ~(s.chanId >= nextChan)
      BY <2>1, <2>3
    <3> QED
      BY <1>1, <2>3, <3>1 DEF NewIds, Known
  <2> QED
    BY <2>1, <2>2, <2>3 DEF Known
<1>2. ASSUME NEW id \in Nat, NEW a, Leads(id, a) PROVE Leads(id, a)'
  <2>1. id < nextChan /\ id < nextChan'
    BY <1>2 DEF NewIds, Leads
  <2>2. ASSUME NEW s \in ToSet(searches'), s.chanId = id PROVE Host[s.pvname] = a
    <3>1. ~(s.chanId >= nextChan)
      BY <2>1, <2>2
    <3> QED
      BY <1>2, <2>2, <3>1 DEF NewIds, Leads
  <2> QED
    BY <2>1, <2>2 DEF Leads
<1>3. \A l : AllKnown(l) => AllKnown(l)'
  BY <1>1, Zenon DEF AllKnown
<1>4. \A packet : PacketOK(packet) => PacketOK(packet)'
  BY <1>3, Zenon DEF PacketOK
<1>5. ASSUME SendingOK, UNCHANGED <<pvs, round, packets>> PROVE SendingOK'
  <2>1. AllKnown(pvs)' /\ AllKnown(round)'
    <3>1. AllKnown(pvs) /\ AllKnown(round)
      BY <1>5 DEF SendingOK
    <3>2. pvs' = pvs /\ round' = round
      BY <1>5
    <3> QED
      BY <1>3, <3>1, <3>2, ZenonT(60) DEF AllKnown, Known
  <2>2. packets' = packets
    BY <1>5
  <2>3. (\A i \in 1 .. Len(packets) : PacketOK(packets[i]))'
    <3>1. \A i \in 1 .. Len(packets) : PacketOK(packets[i])
      BY <1>5 DEF SendingOK
    <3> DEFINE l(packet) == ParseSearchRequest(packet)
    <3>2. ASSUME NEW i \in 1 .. Len(packets), NEW packet, packet = packets[i]
          PROVE  /\ packet = PacketOf(l(packet)) /\ AllKnown(l(packet))'
                 /\ Len(l(packet)) > 1 => Offset(l(packet), Len(l(packet)) - 1) <= PacketLimit
      <4>1. PacketOK(packet)'
        BY <1>4, <3>1, <3>2
      <4> QED
        BY <4>1 DEF PacketOK
    <3> QED
      BY <2>2, <3>2 DEF PacketOK, AllKnown, Known
  <2>4. RoundIsSent'
    BY <1>5 DEF SendingOK, RoundIsSent
  <2> QED
    BY <1>5, <2>1, <2>2, <2>3, <2>4 DEF SendingOK
<1>6. ASSUME NEW d, ResponseOK(d) PROVE ResponseOK(d)'
  <2>1. PICK a \in Addr : \E ids \in Seq(Nat) :
          /\ ids # <<>> /\ d = DatagramOf(a, ids)
          /\ \A i \in 1 .. Len(ids) : Leads(ids[i], a)
    BY <1>6 DEF ResponseOK
  <2>2. PICK ids \in Seq(Nat) :
          /\ ids # <<>> /\ d = DatagramOf(a, ids)
          /\ \A i \in 1 .. Len(ids) : Leads(ids[i], a)
    BY <2>1
  <2>3. \A i \in 1 .. Len(ids) : Leads(ids[i], a)'
    BY <1>2, <2>2
  <2> QED
    BY <2>2, <2>3 DEF ResponseOK
<1> QED
  BY <1>3, <1>5, <1>6

LEMMA NothingNew ==
  ASSUME nextChan \in Nat, nextChan' = nextChan,
         \A s \in ToSet(searches') : s \in ToSet(searches)
  PROVE  NewIds
BY DEF NewIds

LEMMA ServesNobody ==
  ASSUME NobodyServed
  PROVE  ServedOK'
BY DEF NobodyServed, ServedOK, RepliesLeadHome

LEMMA IInvAtFirst ==
  ASSUME Init
  PROVE  IInv
<1>1. searches = <<>> /\ nextChan = 0 /\ pvs = <<>> /\ round = <<>> /\ packets = <<>>
  BY DEF Init
<1>2. \A l : l = <<>> => AllKnown(l)
  BY DEF AllKnown
<1>3. SearchesOK
  BY <1>1, <1>2 DEF SearchesOK
<1>4. RoundIsSent
  <2>1. [i \in DOMAIN packets |-> ParseSearchRequest(packets[i])] = <<>>
    BY <1>1
  <2>2. FlattenSeq([i \in DOMAIN packets |-> ParseSearchRequest(packets[i])]) = <<>>
    BY <2>1 DEF FlattenSeq
  <2> QED
    BY <1>1, <2>2 DEF RoundIsSent
<1>5. SendingOK
  BY <1>1, <1>2, <1>4 DEF SendingOK
<1>6. ResponsesOK
  BY DEF Init, ResponsesOK
<1>7. CacheOK
  BY DEF Init, CacheOK, CachedOK
<1>8. ServedOK
  BY DEF Init, ServedOK, RepliesLeadHome
<1> QED
  BY <1>3, <1>5, <1>6, <1>7, <1>8 DEF IInv

LEMMA SearchIsPermitted ==
  ASSUME NEW channels \in Seq(Channel), NEW client,
         NEW K \in SUBSET (1 .. Len(LetThrough(client, channels)))
  PROVE  LET l == SubSeqAt(LetThrough(client, channels), K)
         IN  l \in Seq(Passed) /\ \A i \in 1 .. Len(l) : Permits(PvRules, l[i].pvname)
<1> DEFINE t == LetThrough(client, channels)
           l == SubSeqAt(t, K)
<1>1. /\ t \in Seq(Passed)
      /\ \A n \in 1 .. Len(t) :
           \E ch \in ToSet(channels) :
             /\ PvName(ch) \in PV /\ CheckAccessControl(PvName(ch), client)
             /\ t[n] = [chanId |-> ch.chanId, pvname |-> PvName(ch)]
  BY LetThroughIs
<1> HIDE DEF t
<1>2. K \in SUBSET (1 .. Len(t))
  BY DEF t
<1>3. l \in Seq(Passed) /\ Selection(l, t, K)
  BY <1>1, <1>2, SelectionIs
<1>4. ASSUME NEW i \in 1 .. Len(l) PROVE Permits(PvRules, l[i].pvname)
  <2>1. PICK n \in K : l[i] = t[n]
    BY <1>3 DEF Selection
  <2>2. PICK ch \in ToSet(channels) :
          /\ PvName(ch) \in PV /\ CheckAccessControl(PvName(ch), client)
          /\ t[n] = [chanId |-> ch.chanId, pvname |-> PvName(ch)]
    BY <1>1, <1>2
  <2>3. l[i].pvname = PvName(ch)
    BY <2>1, <2>2
  <2> QED
    BY <2>2, <2>3 DEF CheckAccessControl
<1> QED
  BY <1>3, <1>4 DEF t

LEMMA SendPacketKeeps ==
  ASSUME IInv, SendPacket
  PROVE  SendingOK'
<1> DEFINE m == NPvs(pvs)
           k == SubSeq(pvs, 1, m)
           n == Len(packets)
           s == [i \in 1 .. n |-> ParseSearchRequest(packets[i])]
           t == [i \in 1 .. n + 1 |-> ParseSearchRequest(packets'[i])]
<1>1. /\ AllKnown(pvs) /\ AllKnown(round) /\ packets \in Seq(Packet)
      /\ \A i \in 1 .. n : PacketOK(packets[i])
      /\ RoundIsSent /\ nextChan \in Nat
  BY DEF IInv, SearchesOK, SendingOK
<1>2. /\ pvs # <<>> /\ packets' = Append(packets, CreateSearchRequest(pvs))
      /\ pvs' = SubSeq(pvs, m + 1, Len(pvs)) /\ round' = round
      /\ searches' = searches /\ nextChan' = nextChan
  BY DEF SendPacket, Sending
<1>3. pvs \in Seq(Search) /\ \A i \in 1 .. Len(pvs) : Known(pvs[i])
  BY <1>1 DEF AllKnown
<1>4. /\ m \in 1 .. Len(pvs)
      /\ k \in Seq(Search) /\ Len(k) = m /\ \A i \in 1 .. Len(k) : k[i] = pvs[i]
      /\ CreateSearchRequest(pvs) = PacketOf(k)
      /\ Len(k) > 1 => Offset(k, Len(k) - 1) <= PacketLimit
  BY <1>2, <1>3, RequestIs
<1> HIDE DEF m
<1>5. AllKnown(k)
  BY <1>3, <1>4 DEF AllKnown
<1>6. /\ pvs' \in Seq(Search) /\ Len(pvs') = Len(pvs) - m
      /\ \A i \in 1 .. Len(pvs') : pvs'[i] = pvs[m + i]
  <2>1. m \in Nat /\ Len(pvs) \in 0 .. Len(pvs)
    BY <1>3, <1>4
  <2>2. /\ SubSeq(pvs, m + 1, Len(pvs)) \in Seq(Search)
        /\ Len(SubSeq(pvs, m + 1, Len(pvs))) = IF m <= Len(pvs) THEN Len(pvs) - m ELSE 0
        /\ \A i \in 1 .. Len(pvs) - m : SubSeq(pvs, m + 1, Len(pvs))[i] = pvs[m + i]
    BY <1>3, <2>1, Slice
  <2> QED
    BY <1>2, <1>4, <2>2
<1>7. pvs = k \o pvs'
  <2>1. 1 \in 1 .. Len(pvs) + 1 /\ m \in 1 - 1 .. Len(pvs) /\ Len(pvs) \in m .. Len(pvs)
    BY <1>3, <1>4
  <2>2. SubSeq(pvs, 1, m) \o SubSeq(pvs, m + 1, Len(pvs)) = SubSeq(pvs, 1, Len(pvs))
    BY <1>3, <2>1, ConcatAdjacentSubSeq
  <2>3. SubSeq(pvs, 1, Len(pvs)) = pvs
    BY <1>3, SubSeqFull
  <2> QED
    BY <1>2, <2>2, <2>3
<1>8. ParseSearchRequest(PacketOf(k)) = k
  BY <1>4, PacketIsParsed
<1> HIDE DEF k
<1>9. PacketOK(PacketOf(k)) /\ PacketOf(k) \in Packet
  BY <1>4, <1>5, <1>8 DEF PacketOK, Packet
<1>10. /\ packets' \in Seq(Packet) /\ Len(packets') = n + 1 /\ packets'[n + 1] = PacketOf(k)
       /\ \A i \in 1 .. n : packets'[i] = packets[i]
  BY <1>1, <1>2, <1>4, <1>9, AppendProperties
<1>11. n \in Nat /\ DOMAIN packets = 1 .. n /\ DOMAIN packets' = 1 .. n + 1
  BY <1>1, <1>10
<1>12. ASSUME NEW i \in 1 .. n + 1 PROVE PacketOK(packets'[i]) /\ t[i] \in Seq(Search)
  <2>1. CASE i = n + 1
    BY <1>4, <1>8, <1>9, <1>10, <2>1
  <2>2. CASE i # n + 1
    <3>1. i \in 1 .. n
      BY <1>11, <2>2
    <3> QED
      BY <1>1, <1>10, <3>1, SMTT(60) DEF PacketOK, AllKnown
  <2> QED
    BY <2>1, <2>2
<1>13. RoundIsSent'
  <2>1. Lists(s, n, Search)
    BY <1>1, <1>11 DEF Lists, PacketOK, AllKnown
  <2>2. Lists(t, n + 1, Search)
    BY <1>11, <1>12 DEF Lists
  <2>3. \A i \in 1 .. n : t[i] = s[i]
    BY <1>10, <1>11
  <2>4. t[n + 1] = k
    BY <1>8, <1>10, <1>11
  <2>5. n = 0 => s = <<>>
    OBVIOUS
  <2>6. FlattenSeq(s) \o pvs = round
    BY <1>1, <1>11 DEF RoundIsSent
  <2>7. /\ [i \in DOMAIN packets' |-> ParseSearchRequest(packets'[i])] = t
        /\ \A i \in DOMAIN packets' : ParseSearchRequest(packets'[i]) = t[i]
    BY <1>11
  <2>10. ASSUME NEW i \in DOMAIN packets' PROVE ParseSearchRequest(packets'[i]) # <<>>
    <3>1. CASE i = n + 1
      <4>1. k # <<>>
        BY <1>4
      <4> QED
        BY <1>11, <2>4, <2>7, <3>1, <4>1
    <3>2. CASE i # n + 1
      <4>1. i \in 1 .. n
        BY <1>11, <3>2
      <4>2. ParseSearchRequest(packets[i]) # <<>> /\ packets'[i] = packets[i]
        BY <1>1, <1>10, <1>11, <4>1 DEF RoundIsSent
      <4> QED
        BY <4>2
    <3> QED
      BY <3>1, <3>2
  <2> HIDE DEF s, t
  <2>8. FlattenSeq(s) \in Seq(Search) /\ FlattenSeq(t) = FlattenSeq(s) \o k
    <3>1. n \in Nat
      BY <1>11
    <3> HIDE DEF n
    <3>2. FlattenSeq(s) \in Seq(Search) /\ FlattenSeq(t) = FlattenSeq(s) \o t[n + 1]
      <4>1. OneMore(t, s, n, Search)
        BY <2>1, <2>2, <2>3, <2>5 DEF OneMore
      <4> QED
        BY <3>1, <4>1, FlattenAppends
    <3> QED
      BY <2>4, <3>2
  <2>9. (FlattenSeq(s) \o k) \o pvs' = FlattenSeq(s) \o (k \o pvs')
    <3>1. FlattenSeq(s) \in Seq(Search) /\ k \in Seq(Search) /\ pvs' \in Seq(Search)
      BY <1>4, <1>6, <2>8
    <3> DEFINE f == FlattenSeq(s)
               l == pvs'
    <3>2. f \in Seq(Search) /\ k \in Seq(Search) /\ l \in Seq(Search)
      BY <3>1
    <3> HIDE DEF f, l
    <3>3. (f \o k) \o l = f \o (k \o l)
      BY <3>2, ConcatAssociative
    <3> QED
      BY <3>3 DEF f, l
  <2>11. FlattenSeq([i \in DOMAIN packets' |-> ParseSearchRequest(packets'[i])]) \o pvs' = round'
    BY <1>2, <1>7, <2>6, <2>7, <2>8, <2>9
  <2> QED
    BY <2>10, <2>11 DEF RoundIsSent
<1>14. NewIds
  BY <1>1, <1>2, NothingNew
<1>15. AllKnown(pvs)' /\ AllKnown(round)'
  <2>1. AllKnown(pvs')
    <3>1. ASSUME NEW i \in 1 .. Len(pvs') PROVE Known(pvs'[i])
      <4>1. m + i \in 1 .. Len(pvs) /\ pvs'[i] = pvs[m + i]
        BY <1>3, <1>4, <1>6
      <4> QED
        BY <1>3, <4>1
    <3> QED
      BY <1>6, <3>1 DEF AllKnown
  <2> QED
    BY <1>1, <1>2, <2>1 DEF AllKnown, Known
<1>16. (\A i \in 1 .. Len(packets) : PacketOK(packets[i]))'
  <2>1. \A i \in 1 .. Len(packets') : PacketOK(packets'[i])
    BY <1>10, <1>12
  <2> QED
    BY <1>2, <2>1, ZenonT(60) DEF PacketOK, AllKnown, Known
<1> QED
  BY <1>10, <1>13, <1>15, <1>16 DEF SendingOK

\* A list is known if it is taken from one that is.
LEMMA SelectedAreKnown ==
  ASSUME NEW l, AllKnown(l), NEW K \in SUBSET (1 .. Len(l))
  PROVE  /\ AllKnown(SubSeqAt(l, K))
         /\ \A e \in ToSet(SubSeqAt(l, K)) : e \in ToSet(l)
         /\ \A i \in 1 .. Len(SubSeqAt(l, K)) : \E j \in K : SubSeqAt(l, K)[i] = l[j]
<1> DEFINE t == SubSeqAt(l, K)
<1>1. l \in Seq(Search) /\ \A i \in 1 .. Len(l) : Known(l[i])
  BY DEF AllKnown
<1>2. t \in Seq(Search) /\ Selection(t, l, K)
  BY <1>1, SelectionIs
<1> HIDE DEF t
<1>3. \A i \in 1 .. Len(t) : \E j \in K : t[i] = l[j]
  BY <1>2 DEF Selection
<1>4. AllKnown(t)
  BY <1>1, <1>2, <1>3 DEF AllKnown
<1>5. \A e \in ToSet(t) : e \in ToSet(l)
  <2> TAKE e \in ToSet(t)
  <2>1. PICK i \in 1 .. Len(t) : e = t[i]
    BY <1>2 DEF ToSet
  <2>2. PICK j \in K : e = l[j]
    BY <1>3, <2>1
  <2> QED
    BY <1>1, <2>2 DEF ToSet
<1> QED
  BY <1>3, <1>4, <1>5 DEF t

\* The searches a step keeps are permitted ones, as they were.
LEMMA KeptSearches ==
  ASSUME SearchesOK, nextChan' = nextChan, NEW K \in SUBSET (1 .. Len(searches)),
         searches' = SubSeqAt(searches, K)
  PROVE  SearchesOK' /\ NewIds
<1>1. /\ nextChan \in Nat /\ AllKnown(searches)
      /\ \A i \in 1 .. Len(searches) : Permits(PvRules, searches[i].pvname)
  BY DEF SearchesOK
<1>2. /\ AllKnown(searches')
      /\ \A e \in ToSet(searches') : e \in ToSet(searches)
      /\ \A i \in 1 .. Len(searches') : \E j \in K : searches'[i] = searches[j]
  BY <1>1, SelectedAreKnown
<1>3. NewIds
  BY <1>1, <1>2, NothingNew
<1>4. AllKnown(searches)'
  <2>1. \A l : AllKnown(l) => AllKnown(l)'
    BY <1>1, <1>3, KnownStays
  <2>2. searches' \in Seq(Search) /\ \A i \in 1 .. Len(searches') : Known(searches'[i])
    BY <1>2 DEF AllKnown
  <2>3. ASSUME NEW i \in 1 .. Len(searches')
        PROVE  /\ searches'[i] \in Search /\ searches'[i].chanId < nextChan'
               /\ \A s \in ToSet(searches') :
                    s.chanId = searches'[i].chanId => s.pvname = searches'[i].pvname
    BY <1>2, <2>2 DEF Known
  <2> QED
    BY <2>2, <2>3 DEF AllKnown, Known
<1>5. \A i \in 1 .. Len(searches') : Permits(PvRules, searches'[i].pvname)
  BY <1>1, <1>2
<1> QED
  BY <1>1, <1>3, <1>4, <1>5 DEF SearchesOK

LEMMA BeginRoundKeeps ==
  ASSUME IInv, NEW due, BeginRound(due)
  PROVE  SendingOK'
<1> DEFINE K == {i \in DOMAIN searches : searches[i].pvname \in due}
<1>1. nextChan \in Nat /\ AllKnown(searches) /\ searches \in Seq(Search)
  BY DEF IInv, SearchesOK, AllKnown
<1>2. /\ round' = SubSeqAt(searches, K) /\ pvs' = round' /\ packets' = <<>>
      /\ searches' = searches /\ nextChan' = nextChan
  BY DEF BeginRound, Select
<1>3. K \in SUBSET (1 .. Len(searches))
  BY <1>1
<1>4. AllKnown(round')
  BY <1>1, <1>2, <1>3, SelectedAreKnown
<1>5. AllKnown(round)' /\ AllKnown(pvs)'
  BY <1>2, <1>4 DEF AllKnown, Known
<1>6. RoundIsSent'
  <2>1. [i \in DOMAIN packets' |-> ParseSearchRequest(packets'[i])] = <<>>
    BY <1>2
  <2>2. FlattenSeq([i \in DOMAIN packets' |-> ParseSearchRequest(packets'[i])]) = <<>>
    BY <2>1 DEF FlattenSeq
  <2>3. <<>> \o round' = round'
    BY <1>4 DEF AllKnown
  <2>4. \A i \in DOMAIN packets' : ParseSearchRequest(packets'[i]) # <<>>
    BY <1>2
  <2> QED
    BY <1>2, <2>2, <2>3, <2>4 DEF RoundIsSent
<1> QED
  BY <1>2, <1>5, <1>6 DEF SendingOK

LEMMA PeerRespondsKeeps ==
  ASSUME IInv, NEW i \in DOMAIN packets, PeerResponds(packets[i])
  PROVE  ResponsesOK'
<1> DEFINE l == ParseSearchRequest(packets[i])
<1>1. nextChan \in Nat /\ ResponsesOK /\ AllKnown(l)
  BY DEF IInv, SearchesOK, SendingOK, PacketOK
<1>2. searches' = searches /\ nextChan' = nextChan
  BY DEF PeerResponds
<1>3. NewIds
  BY <1>1, <1>2, NothingNew
<1>4. PICK d \in IocResponses(packets[i]) : responses' = responses \cup {d}
  BY DEF PeerResponds
<1>5. PICK ioc \in {Host[e.pvname] : e \in ToSet(l)} :
        d = [from |-> ioc[1],
             packet |-> <<Version>> \o
               [n \in DOMAIN Select(l, LAMBDA e : Host[e.pvname] = ioc) |->
                  SearchResponse(Select(l, LAMBDA e : Host[e.pvname] = ioc)[n].chanId,
                                 SenderIp, ioc[2])]]
  BY <1>4 DEF IocResponses
<1> HIDE DEF l
<1> DEFINE K == {n \in DOMAIN l : Host[l[n].pvname] = ioc}
           o == SubSeqAt(l, K)
           ids == [n \in 1 .. Len(o) |-> o[n].chanId]
<1>6. l \in Seq(Search) /\ \A n \in 1 .. Len(l) : Known(l[n])
  BY <1>1 DEF AllKnown
<1>7. K \in SUBSET (1 .. Len(l))
  BY <1>6
<1>8. o \in Seq(Search) /\ Selection(o, l, K)
  BY <1>6, <1>7, SelectionIs
<1>9. Select(l, LAMBDA e : Host[e.pvname] = ioc) = o
  BY DEF Select
<1> HIDE DEF o
<1>10. DOMAIN o = 1 .. Len(o) /\ Len(o) \in Nat /\ \A n \in 1 .. Len(o) : o[n] \in Search
  BY <1>8
<1>11. ids \in Seq(Nat) /\ Len(ids) = Len(o) /\ \A n \in 1 .. Len(o) : ids[n] = o[n].chanId
  <2>1. \A n \in 1 .. Len(o) : o[n].chanId \in Nat
    BY <1>10 DEF Search
  <2> QED
    BY <1>10, <2>1
<1> HIDE DEF ids
<1>12. d = DatagramOf(ioc, ids)
  BY <1>5, <1>9, <1>10, <1>11 DEF DatagramOf
<1>13. PICK n \in 1 .. Len(l) : Host[l[n].pvname] = ioc
  <2>1. PICK e \in ToSet(l) : Host[e.pvname] = ioc
    OBVIOUS
  <2>2. DOMAIN l = 1 .. Len(l)
    BY <1>6
  <2>3. PICK n \in 1 .. Len(l) : l[n] = e
    BY <2>2 DEF ToSet
  <2> QED
    BY <2>1, <2>3
<1>14. ids # <<>>
  <2>1. n \in K
    BY <1>6, <1>13
  <2>2. \E k \in 1 .. Len(o) : o[k] = l[n]
    BY <1>8, <2>1 DEF Selection
  <2>3. Len(ids) # 0
    BY <1>10, <1>11, <2>2
  <2> QED
    BY <2>3
<1>15. ioc \in Addr
  <2>1. l[n] \in Search
    BY <1>6
  <2>2. l[n].pvname \in PV
    BY <2>1 DEF Search
  <2> QED
    BY <1>13, <2>2, SearchExchangeAssumption DEF Addr
<1>16. ASSUME NEW k \in 1 .. Len(ids) PROVE Leads(ids[k], ioc)
  <2>1. PICK j \in K : o[k] = l[j]
    BY <1>8, <1>11 DEF Selection
  <2>2. Known(l[j]) /\ Host[l[j].pvname] = ioc /\ ids[k] = l[j].chanId
    BY <1>6, <1>7, <1>11, <2>1
  <2> QED
    BY <2>2 DEF Known, Leads
<1>17. ResponseOK(d)
  BY <1>11, <1>12, <1>14, <1>15, <1>16 DEF ResponseOK
<1>18. \A r \in responses \cup {d} : ResponseOK(r)'
  BY <1>1, <1>3, <1>17, KnownStays DEF ResponsesOK
<1> QED
  BY <1>4, <1>18 DEF ResponsesOK

LEMMA ReceiveKeeps ==
  ASSUME IInv, NEW d \in responses, Receive(d)
  PROVE  SearchesOK' /\ NewIds /\ CacheOK'
<1> DEFINE addr == ParseIocAddr(d.from, d.packet)
           R == ToSet(ParseSearchResponse(d.packet))
           for(p) == {r \in R : \E e \in ToSet(searches) : e.pvname = p /\ Answers(e, r)}
           K == {i \in DOMAIN searches : for(searches[i].pvname) = {}}
<1>1. /\ SearchesOK /\ AllKnown(searches) /\ searches \in Seq(Search) /\ CacheOK
      /\ \A i \in 1 .. Len(searches) : Permits(PvRules, searches[i].pvname)
      /\ ResponseOK(d)
  BY DEF IInv, SearchesOK, AllKnown, ResponsesOK
<1>2. /\ searches' = SubSeqAt(searches, K) /\ nextChan' = nextChan
      /\ cache' = [p \in PV |->
           IF for(p) = {} THEN cache[p]
           ELSE [ioc |-> addr,
                 response |-> UpdateReplyAddr((CHOOSE r \in for(p) : TRUE).rsp, addr)]]
  BY DEF Receive, Select
<1>3. PICK a \in Addr : \E ids \in Seq(Nat) :
        /\ ids # <<>> /\ d = DatagramOf(a, ids)
        /\ \A i \in 1 .. Len(ids) : Leads(ids[i], a)
  BY <1>1 DEF ResponseOK
<1>4. PICK ids \in Seq(Nat) :
        /\ ids # <<>> /\ d = DatagramOf(a, ids)
        /\ \A i \in 1 .. Len(ids) : Leads(ids[i], a)
  BY <1>3
<1>5. /\ addr = a
      /\ \A r \in R : /\ \E i \in 1 .. Len(ids) : r.chanId = ids[i]
                      /\ UpdateReplyAddr(r.rsp, a) = ResponseFor(r.chanId, a)
  BY <1>4, DatagramIsParsed
<1> HIDE DEF addr, R
<1>6. K \in SUBSET (1 .. Len(searches))
  BY <1>1
<1>7. SearchesOK' /\ NewIds
  <2> HIDE DEF K
  <2> QED
    BY <1>1, <1>2, <1>6, KeptSearches
<1>8. ASSUME NEW p \in PV PROVE CachedOK(cache[p], p)'
  <2>1. CASE for(p) = {}
    <3>1. cache'[p] = cache[p]
      BY <1>2, <2>1
    <3> QED
      BY <1>1, <3>1 DEF CacheOK, CachedOK
  <2>2. CASE for(p) # {}
    <3> DEFINE r == CHOOSE r \in for(p) : TRUE
    <3>1. r \in for(p)
      BY <2>2
    <3>2. cache'[p] = [ioc |-> a, response |-> UpdateReplyAddr(r.rsp, a)]
      BY <1>2, <1>5, <2>2
    <3> HIDE DEF r
    <3>3. r \in R
      BY <3>1
    <3>4. PICK e \in ToSet(searches) : e.pvname = p /\ e.chanId = r.chanId
      BY <3>1 DEF Answers
    <3>5. PICK i \in 1 .. Len(ids) : r.chanId = ids[i]
      BY <1>5, <3>3
    <3>6. Host[p] = a
      BY <1>4, <3>4, <3>5 DEF Leads
    <3>7. Permits(PvRules, p)
      BY <1>1, <3>4 DEF ToSet
    <3>8. ids[i] \in Nat
      OBVIOUS
    <3>9. UpdateReplyAddr(r.rsp, a) = ResponseFor(ids[i], a)
      BY <1>5, <3>3, <3>5
    <3>10. cache'[p] = [ioc |-> Host[p], response |-> ResponseFor(ids[i], Host[p])]
      BY <3>2, <3>6, <3>9
    <3> QED
      BY <3>7, <3>8, <3>10 DEF CachedOK
  <2> QED
    BY <2>1, <2>2
<1> QED
  BY <1>7, <1>8 DEF CacheOK

LEMMA LoseIocKeeps ==
  ASSUME IInv, NEW ioc, LoseIoc(ioc)
  PROVE  CacheOK'
<1>1. CacheOK
  BY DEF IInv
<1>2. cache' = [p \in PV |-> IF cache[p].ioc = ioc THEN NotCached ELSE cache[p]]
  BY DEF LoseIoc
<1>3. ASSUME NEW p \in PV PROVE CachedOK(cache[p], p)'
  <2>1. cache'[p] = NotCached \/ cache'[p] = cache[p]
    BY <1>2
  <2> QED
    BY <1>1, <2>1 DEF CacheOK, CachedOK
<1> QED
  BY <1>3 DEF CacheOK

\* A client is only told of what is in the cache.
LEMMA ClientIsServed ==
  ASSUME IInv, NEW client \in Client, NEW channels \in Datagrams, ClientAsks(client, channels)
  PROVE  ServedOK'
<1> DEFINE answer == [p \in PV |-> cache[p].response]
           rs == Replies(client, channels, answer)
<1>1. channels \in Seq(Channel)
  BY SearchExchangeAssumption
<1>2. asked' = {[client |-> client, channels |-> channels]} /\ replies' = rs
  BY Zenon DEF ClientAsks
<1>3. /\ \A i \in DOMAIN rs :
           \E ch \in ToSet(channels) :
             /\ PvName(ch) \in PV /\ CheckAccessControl(PvName(ch), client)
             /\ answer[PvName(ch)] # <<>>
             /\ rs[i] = UpdateReplyId(answer[PvName(ch)], ch.chanId)
      /\ ~Permits(ClientRules, client) => rs = <<>>
  BY <1>1, RepliesAre
<1>4. CacheOK
  BY DEF IInv
<1> HIDE DEF rs
<1>5. ASSUME NEW i \in DOMAIN rs, NEW m \in ToSet(rs[i]), IsResponse(m)
      PROVE  \E ch \in ToSet(channels) : /\ ch.chanId = m.chanId /\ PvName(ch) \in PV
                                         /\ Host[PvName(ch)] = <<m.ip, m.port>>
  <2>1. PICK ch \in ToSet(channels) :
          /\ PvName(ch) \in PV /\ answer[PvName(ch)] # <<>>
          /\ rs[i] = UpdateReplyId(answer[PvName(ch)], ch.chanId)
    BY <1>3
  <2> DEFINE p == PvName(ch)
  <2>2. p \in PV /\ cache[p].response # <<>> /\ rs[i] = UpdateReplyId(cache[p].response, ch.chanId)
    BY <2>1
  <2> HIDE DEF p
  <2>3. PICK id \in Nat : cache[p] = [ioc |-> Host[p], response |-> ResponseFor(id, Host[p])]
    <3>1. cache[p] # NotCached
      BY <2>2 DEF NotCached
    <3> QED
      BY <1>4, <2>2, <3>1 DEF CacheOK, CachedOK
  <2>4. rs[i] = ResponseFor(ch.chanId, Host[p])
    <3>1. cache[p].response = ResponseFor(id, Host[p])
      BY <2>3
    <3> QED
      BY <2>2, <3>1, ReplyIsFor
  <2>5. m = Version \/ m = SearchResponse(ch.chanId, Host[p][1], Host[p][2])
    BY <2>4 DEF ResponseFor, ToSet
  <2>6. m = SearchResponse(ch.chanId, Host[p][1], Host[p][2])
    BY <1>5, <2>5, Kinds
  <2>7. Host[p] = <<Host[p][1], Host[p][2]>>
    BY <2>2, SearchExchangeAssumption
  <2>8. ch.chanId = m.chanId /\ Host[p] = <<m.ip, m.port>>
    BY <2>6, <2>7, Kinds
  <2> QED
    BY <2>2, <2>8 DEF p
<1>6. RepliesLeadHome'
  BY <1>2, <1>5 DEF RepliesLeadHome
<1> QED
  BY <1>2, <1>3, <1>6 DEF ServedOK, rs

LEMMA ClientAsksKeeps ==
  ASSUME IInv, NEW client \in Client, NEW channels \in Datagrams, ClientAsks(client, channels)
  PROVE  SearchesOK' /\ NewIds
<1> DEFINE t == LetThrough(client, channels)
           K == {i \in DOMAIN t : [p \in PV |-> cache[p].response][t[i].pvname] = <<>>}
           misses == SubSeqAt(t, K)
           J == {i \in DOMAIN misses :
                   /\ misses[i].pvname \notin SearchedPVs
                   /\ \A j \in 1 .. i - 1 : misses[j].pvname # misses[i].pvname}
           added == SubSeqAt(misses, J)
           new == [i \in 1 .. Len(added) |->
                     [chanId |-> nextChan + i - 1, pvname |-> added[i].pvname]]
<1>1. channels \in Seq(Channel)
  BY SearchExchangeAssumption
<1>2. /\ nextChan \in Nat /\ searches \in Seq(Search)
      /\ \A i \in 1 .. Len(searches) : Known(searches[i]) /\ Permits(PvRules, searches[i].pvname)
  BY DEF IInv, SearchesOK, AllKnown
<1>3. /\ searches' = searches \o
           [i \in DOMAIN added |-> [chanId |-> nextChan + i - 1, pvname |-> added[i].pvname]]
      /\ nextChan' = nextChan + Len(added)
  BY Zenon DEF ClientAsks, Select
<1>4. K \in SUBSET (1 .. Len(t))
  <2>1. t \in Seq(Passed)
    BY <1>1, LetThroughIs
  <2> QED
    BY <2>1
<1>5. misses \in Seq(Passed) /\ \A i \in 1 .. Len(misses) : Permits(PvRules, misses[i].pvname)
  <2> HIDE DEF K
  <2> QED
    BY <1>1, <1>4, SearchIsPermitted
<1> HIDE DEF misses
<1>6. J \in SUBSET (1 .. Len(misses))
  BY <1>5
<1>7. added \in Seq(Passed) /\ Selection(added, misses, J)
  BY <1>5, <1>6, SelectionIs
<1> HIDE DEF added
<1>8. Len(added) \in Nat /\ DOMAIN added = 1 .. Len(added)
  BY <1>7
<1>9. ASSUME NEW i \in 1 .. Len(added)
      PROVE  added[i].pvname \in PV /\ Permits(PvRules, added[i].pvname)
  <2>1. added[i] \in Passed
    BY <1>7
  <2>2. PICK j \in J : added[i] = misses[j]
    BY <1>7 DEF Selection
  <2> QED
    BY <1>5, <1>6, <2>1, <2>2 DEF Passed
<1>10. ASSUME NEW i \in 1 .. Len(added)
       PROVE  /\ new[i] \in Search /\ new[i].pvname = added[i].pvname
              /\ new[i].chanId = nextChan + i - 1
  <2>1. nextChan + i - 1 \in Nat
    BY <1>2
  <2> QED
    BY <1>9, <2>1 DEF Search
<1>11. new \in Seq(Search) /\ Len(new) = Len(added)
  <2>1. new \in [1 .. Len(added) -> Search]
    BY <1>10
  <2> HIDE DEF new
  <2> QED
    BY <1>8, <2>1
<1>12. searches' = searches \o new
  BY <1>3, <1>8
<1> HIDE DEF new
<1>13. /\ searches' \in Seq(Search) /\ Len(searches') = Len(searches) + Len(added)
       /\ \A i \in 1 .. Len(searches) + Len(added) :
            searches'[i] = IF i <= Len(searches) THEN searches[i] ELSE new[i - Len(searches)]
  <2>1. searches \in Seq(Search) /\ new \in Seq(Search)
    BY <1>2, <1>11
  <2>2. /\ searches \o new \in Seq(Search)
        /\ Len(searches \o new) = Len(searches) + Len(new)
        /\ \A i \in 1 .. Len(searches) + Len(new) :
             (searches \o new)[i] = IF i <= Len(searches) THEN searches[i] ELSE new[i - Len(searches)]
    BY <2>1, ConcatProperties
  <2> QED
    BY <1>11, <1>12, <2>2
<1>14. Len(searches) \in Nat
  BY <1>2
\* Every search is an old one, with an id below, or the i-th of the new ones.
<1> DEFINE New(s) == \E i \in 1 .. Len(added) : s = new[i]
<1>15. ASSUME NEW n \in 1 .. Len(searches')
       PROVE  /\ searches'[n] \in ToSet(searches) \/ New(searches'[n])
              /\ Permits(PvRules, searches'[n].pvname)
  <2>1. CASE n <= Len(searches)
    <3>1. n \in 1 .. Len(searches) /\ searches'[n] = searches[n]
      BY <1>13, <1>14, <2>1
    <3>2. searches[n] \in ToSet(searches)
      BY <1>2, <3>1 DEF ToSet
    <3> QED
      BY <1>2, <3>1, <3>2
  <2>2. CASE ~(n <= Len(searches))
    <3>1. n - Len(searches) \in 1 .. Len(added)
      BY <1>8, <1>13, <1>14, <2>2
    <3>2. searches'[n] = new[n - Len(searches)]
      BY <1>13, <2>2
    <3> QED
      BY <1>9, <1>10, <3>1, <3>2
  <2> QED
    BY <2>1, <2>2
<1>16. ASSUME NEW s \in ToSet(searches)
       PROVE  s \in Search /\ s.chanId \in Nat /\ s.chanId < nextChan /\ Known(s)
  <2>1. Known(s)
    BY <1>2 DEF ToSet
  <2> QED
    BY <2>1 DEF Known, Search
<1>17. ASSUME NEW s, New(s)
       PROVE  \E i \in 1 .. Len(added) :
                /\ s = new[i] /\ s.chanId = nextChan + i - 1 /\ s.chanId \in Nat
                /\ s.chanId >= nextChan /\ s.chanId < nextChan'
  <2>1. PICK i \in 1 .. Len(added) : s = new[i]
    BY <1>17
  <2>2. s.chanId = nextChan + i - 1
    BY <1>10, <2>1
  <2> QED
    BY <1>2, <1>3, <1>8, <2>1, <2>2
<1>18. ASSUME NEW s \in ToSet(searches')
       PROVE  s \in ToSet(searches) \/ New(s)
  BY <1>13, <1>15 DEF ToSet
<1> HIDE DEF New
<1>19. nextChan' \in Nat /\ nextChan <= nextChan'
  BY <1>2, <1>3, <1>8
<1>20. NewIds
  BY <1>17, <1>18, <1>19 DEF NewIds
<1>21. ASSUME NEW s \in ToSet(searches'), NEW e \in ToSet(searches'), s.chanId = e.chanId
       PROVE  s.pvname = e.pvname
  <2>1. CASE s \in ToSet(searches) /\ e \in ToSet(searches)
    BY <1>16, <1>21, <2>1 DEF Known
  <2>2. CASE New(s) /\ New(e)
    <3>1. PICK i \in 1 .. Len(added) : s = new[i] /\ s.chanId = nextChan + i - 1
      BY <1>17, <2>2
    <3>2. PICK j \in 1 .. Len(added) : e = new[j] /\ e.chanId = nextChan + j - 1
      BY <1>17, <2>2
    <3>3. i = j
      BY <1>2, <1>21, <3>1, <3>2
    <3> QED
      BY <3>1, <3>2, <3>3
  <2>3. \A x, y : x \in ToSet(searches) /\ New(y) => x.chanId # y.chanId
    <3> SUFFICES ASSUME NEW x \in ToSet(searches), NEW y, New(y) PROVE x.chanId # y.chanId
      OBVIOUS
    <3>1. x.chanId \in Nat /\ x.chanId < nextChan
      BY <1>16
    <3>2. y.chanId \in Nat /\ y.chanId >= nextChan
      BY <1>17
    <3> QED
      BY <1>2, <3>1, <3>2
  <2> QED
    BY <1>18, <1>21, <2>1, <2>2, <2>3
<1>22. ASSUME NEW n \in 1 .. Len(searches') PROVE Known(searches[n])'
  <2>1. searches'[n] \in ToSet(searches') /\ searches'[n] \in Search
    BY <1>13 DEF ToSet
  <2>2. searches'[n].chanId < nextChan'
    BY <1>2, <1>15, <1>16, <1>17, <1>19
  <2> QED
    BY <1>21, <2>1, <2>2 DEF Known
<1> QED
  BY <1>13, <1>15, <1>19, <1>20, <1>22 DEF SearchesOK, AllKnown

\* What a step leaves alone.
LEMMA OthersKeep ==
  ASSUME IInv, NewIds
  PROVE  /\ UNCHANGED <<pvs, round, packets>> => SendingOK'
         /\ (\A d \in responses' : d \in responses) => ResponsesOK'
         /\ UNCHANGED cache => CacheOK'
         /\ UNCHANGED <<searches, nextChan>> => SearchesOK'
<1>1. nextChan \in Nat /\ SearchesOK /\ SendingOK /\ ResponsesOK /\ CacheOK
  BY DEF IInv, SearchesOK
<1>2. UNCHANGED <<pvs, round, packets>> => SendingOK'
  BY <1>1, KnownStays
<1>3. (\A d \in responses' : d \in responses) => ResponsesOK'
  BY <1>1, KnownStays DEF ResponsesOK
<1>4. UNCHANGED cache => CacheOK'
  BY <1>1 DEF CacheOK, CachedOK
<1>5. UNCHANGED <<searches, nextChan>> => SearchesOK'
  BY <1>1 DEF SearchesOK, AllKnown, Known
<1> QED
  BY <1>2, <1>3, <1>4, <1>5

LEMMA UnchangedIds ==
  ASSUME IInv, UNCHANGED <<searches, nextChan>>
  PROVE  NewIds
BY NothingNew DEF IInv, SearchesOK

LEMMA IInvIsInductive ==
  ASSUME IInv, [Next]_vars
  PROVE  IInv'
<1>1. ASSUME NEW c \in Client, NEW channels \in Datagrams, ClientAsks(c, channels)
      PROVE  IInv'
  <2>1. UNCHANGED <<pvs, round, packets>> /\ responses' = responses /\ UNCHANGED cache
    BY <1>1, Zenon DEF ClientAsks
  <2> QED
    BY <1>1, <2>1, ClientAsksKeeps, ClientIsServed, OthersKeep DEF IInv
<1>2. ASSUME NEW due \in SUBSET SearchedPVs, BeginRound(due)
      PROVE  IInv'
  <2>1. UNCHANGED <<searches, nextChan>> /\ responses' = responses /\ UNCHANGED cache
        /\ NobodyServed
    BY <1>2 DEF BeginRound
  <2> QED
    BY <1>2, <2>1, BeginRoundKeeps, ServesNobody, UnchangedIds, OthersKeep DEF IInv
<1>3. ASSUME SendPacket
      PROVE  IInv'
  <2>1. UNCHANGED <<searches, nextChan>> /\ responses' = responses /\ UNCHANGED cache
        /\ NobodyServed
    BY <1>3 DEF SendPacket
  <2> QED
    BY <1>3, <2>1, SendPacketKeeps, ServesNobody, UnchangedIds, OthersKeep DEF IInv
<1>4. ASSUME NEW i \in DOMAIN packets, PeerResponds(packets[i])
      PROVE  IInv'
  <2>1. /\ UNCHANGED <<searches, nextChan>> /\ UNCHANGED <<pvs, round, packets>>
        /\ UNCHANGED cache /\ NobodyServed
    BY <1>4 DEF PeerResponds
  <2> QED
    BY <1>4, <2>1, PeerRespondsKeeps, ServesNobody, UnchangedIds, OthersKeep DEF IInv
<1>5. ASSUME NEW d \in responses, Receive(d)
      PROVE  IInv'
  <2>1. /\ UNCHANGED <<pvs, round, packets>> /\ NobodyServed
        /\ \A r \in responses' : r \in responses
    BY <1>5 DEF Receive
  <2> QED
    BY <1>5, <2>1, ReceiveKeeps, ServesNobody, OthersKeep DEF IInv
<1>6. ASSUME NEW d \in responses, Drop(d)
      PROVE  IInv'
  <2>1. /\ UNCHANGED <<searches, nextChan>> /\ UNCHANGED <<pvs, round, packets>>
        /\ UNCHANGED cache /\ NobodyServed /\ \A r \in responses' : r \in responses
    BY <1>6 DEF Drop
  <2> QED
    BY <2>1, ServesNobody, UnchangedIds, OthersKeep DEF IInv
<1>7. ASSUME NEW ioc, LoseIoc(ioc)
      PROVE  IInv'
  <2>1. /\ UNCHANGED <<searches, nextChan>> /\ UNCHANGED <<pvs, round, packets>>
        /\ responses' = responses /\ NobodyServed
    BY <1>7 DEF LoseIoc
  <2> QED
    BY <1>7, <2>1, LoseIocKeeps, ServesNobody, UnchangedIds, OthersKeep DEF IInv
<1>8. CASE UNCHANGED vars
  <2>1. /\ UNCHANGED <<searches, nextChan>> /\ UNCHANGED <<pvs, round, packets>>
        /\ responses' = responses /\ UNCHANGED cache /\ asked' = asked /\ replies' = replies
    BY <1>8 DEF vars
  <2>2. ServedOK'
    BY <2>1 DEF IInv, ServedOK, RepliesLeadHome
  <2> QED
    BY <2>1, <2>2, UnchangedIds, OthersKeep DEF IInv
<1> QED
  BY <1>1, <1>2, <1>3, <1>4, <1>5, <1>6, <1>7, <1>8 DEF Next

\* The inductive invariant holds in every reachable state.
THEOREM ExchangeInvariant == Spec => []IInv
<1>1. Init => IInv
  BY IInvAtFirst
<1>2. IInv /\ [Next]_vars => IInv'
  BY IInvIsInductive
<1> QED
  BY <1>1, <1>2, PTL DEF Spec

\* The packets of a round, read as an IOC reads them, and what is still to be
\* sent give the round: the loop of processOutgoing sends every PV of its bins
\* once, in order and with its id, wherever createSearchRequest ends a packet.
THEOREM RoundsAreSent == Spec => []RoundIsSent
<1>1. IInv => RoundIsSent
  BY DEF IInv, SendingOK
<1> QED
  BY <1>1, ExchangeInvariant, PTL

\* createSearchRequest stops at the search that takes a packet over the limit.
THEOREM PacketsStaySmall == Spec => []PacketsAreSmall
<1>1. ASSUME IInv PROVE PacketsAreSmall
  <2> SUFFICES ASSUME NEW i \in DOMAIN packets, Len(packets[i]) > 2
               PROVE  PacketSize(Front(packets[i])) <= PacketLimit
    BY DEF PacketsAreSmall
  <2> DEFINE l == ParseSearchRequest(packets[i])
  <2>1. /\ packets[i] = PacketOf(l) /\ l \in Seq(Search)
        /\ Len(l) > 1 => Offset(l, Len(l) - 1) <= PacketLimit
    <3>1. PacketOK(packets[i])
      <4>1. packets \in Seq(Packet) /\ \A k \in 1 .. Len(packets) : PacketOK(packets[k])
        BY <1>1 DEF IInv, SendingOK
      <4> QED
        BY <4>1
    <3> QED
      BY <3>1 DEF PacketOK, AllKnown
  <2> HIDE DEF l
  <2>2. Len(packets[i]) = Len(l) + 1
    BY <2>1, PacketHolds DEF Preceded
  <2>3. Len(l) > 1 /\ Len(l) - 1 \in Nat /\ Len(l) = (Len(l) - 1) + 1
    BY <2>1, <2>2
  <2>4. PacketSize(Front(PacketOf(l))) = Offset(l, Len(l) - 1)
    BY <2>1, <2>3, SizeIsOffset
  <2> QED
    BY <2>1, <2>3, <2>4
<1> QED
  BY <1>1, ExchangeInvariant, PTL

\* A PV is cached with the guard of the IOC that hosts it: processIncoming takes
\* the sender's address for all responses of a datagram, and a search is only
\* ended by a response to its own id.
THEOREM GuardsAreWhereHosted == Spec => []GuardedWhereHosted
<1>1. ASSUME IInv PROVE GuardedWhereHosted
  <2> SUFFICES ASSUME NEW p \in PV, cache[p] # NotCached PROVE cache[p].ioc = Host[p]
    BY DEF GuardedWhereHosted
  <2>1. \E id \in Nat : cache[p] = [ioc |-> Host[p], response |-> ResponseFor(id, Host[p])]
    BY <1>1 DEF IInv, CacheOK, CachedOK
  <2> QED
    BY <2>1
<1> QED
  BY <1>1, ExchangeInvariant, PTL

\* A client is sent its own channel ids with the address of the IOC of the PV it
\* asked for, fields taken off and the IOC's "my address" filled in.
THEOREM RepliesAreForTheClient == Spec => []RepliesLeadHome
<1>1. IInv => RepliesLeadHome
  BY DEF IInv, ServedOK
<1> QED
  BY <1>1, ExchangeInvariant, PTL

\* Nothing of the datagram of a client that is not permitted is let through.
LEMMA NothingLetThrough ==
  ASSUME NEW client, NEW channels \in Seq(Channel), ~Permits(ClientRules, client)
  PROVE  LetThrough(client, channels) = <<>>
<1>1. LetThrough(client, channels) \in Seq(Passed)
  BY LetThroughIs
<1>2. ~(\E n \in 1 .. Len(LetThrough(client, channels)) : TRUE)
  <2> SUFFICES ASSUME NEW n \in 1 .. Len(LetThrough(client, channels)) PROVE FALSE
    OBVIOUS
  <2>1. \E ch \in ToSet(channels) : CheckAccessControl(PvName(ch), client)
    BY LetThroughIs, ZenonT(60)
  <2> QED
    BY <2>1 DEF CheckAccessControl
<1> DEFINE l == LetThrough(client, channels)
<1> HIDE DEF l
<1>3. l \in Seq(Passed) /\ ~(\E n \in 1 .. Len(l) : TRUE)
  BY <1>1, <1>2 DEF l
<1>4. l = <<>>
  BY <1>3
<1> QED
  BY <1>4 DEF l

\* Nothing is selected from nothing.
LEMMA NoneOfNone ==
  ASSUME NEW K, K \subseteq 1 .. 0
  PROVE  SubSeqAt(<<>>, K) = <<>>
<1>1. K \in SUBSET (1 .. Len(<<>>)) /\ <<>> \in Seq({})
  OBVIOUS
<1> DEFINE e == <<>>
<1>2. e \in Seq({}) /\ K \in SUBSET (1 .. Len(e)) /\ Len(e) = 0
  BY <1>1
<1> HIDE DEF e
<1>3. SubSeqAt(e, K) \in Seq({})
  BY <1>2, SelectionIs
<1> DEFINE t == SubSeqAt(e, K)
<1> HIDE DEF t
<1>4. t \in Seq({})
  BY <1>3 DEF t
<1>5. t = <<>>
  BY <1>4
<1> QED
  BY <1>5 DEF t, e

\* What the first rule that matches denies leaves no trace: a PV is never
\* searched for or cached, and a client's datagram goes no further than the
\* Listener.
THEOREM DeniedLeaveNone == Spec => DeniedLeaveNoTrace
<1>1. /\ PvRules \in Seq(Rule(PV)) /\ ClientRules \in Seq(Rule(Client))
  BY ListenerAssumption
<1>2. ASSUME IInv PROVE DeniedPVsUnknown
  <2> SUFFICES ASSUME NEW p \in PV, Denied(PvRules, p)
               PROVE  p \notin SearchedPVs /\ cache[p] = NotCached
    BY DEF DeniedPVsUnknown
  <2>1. ~Permits(PvRules, p)
    BY <1>1, DeniedIsNotPermitted
  <2>2. cache[p] = NotCached
    BY <1>2, <2>1 DEF IInv, CacheOK, CachedOK
  <2>3. \A i \in 1 .. Len(searches) : Permits(PvRules, searches[i].pvname)
    BY <1>2 DEF IInv, SearchesOK
  <2>4. DOMAIN searches = 1 .. Len(searches)
    BY <1>2 DEF IInv, SearchesOK, AllKnown
  <2> QED
    BY <2>1, <2>2, <2>3, <2>4 DEF SearchedPVs, ToSet
<1>3. ASSUME IInv, NEW client \in Client, NEW channels \in Datagrams,
             ClientAsks(client, channels)
      PROVE  DeniedClientsIgnored
  <2>1. asked' = {[client |-> client, channels |-> channels]}
    BY <1>3, Zenon DEF ClientAsks
  <2> SUFFICES ASSUME Denied(ClientRules, client)
               PROVE  /\ LetThrough(client, channels) = <<>>
                      /\ replies' = <<>>
                      /\ UNCHANGED <<searches, nextChan, cache>>
    BY <2>1 DEF DeniedClientsIgnored
  <2>2. ~Permits(ClientRules, client) /\ channels \in Seq(Channel)
    BY <1>1, DeniedIsNotPermitted, SearchExchangeAssumption
  <2>3. LetThrough(client, channels) = <<>>
    BY <2>2, NothingLetThrough
  <2>4. replies' = <<>>
    BY <1>3, <2>2, RepliesAre, Zenon DEF ClientAsks
  <2> DEFINE answer == [p \in PV |-> cache[p].response]
             misses == SubSeqAt(<<>>, {i \in DOMAIN <<>> : answer[<<>>[i].pvname] = <<>>})
             J == {i \in DOMAIN misses :
                     /\ misses[i].pvname \notin SearchedPVs
                     /\ \A j \in 1 .. i - 1 : misses[j].pvname # misses[i].pvname}
             added == SubSeqAt(misses, J)
  <2>5. /\ searches' = searches \o
             [i \in DOMAIN added |-> [chanId |-> nextChan + i - 1, pvname |-> added[i].pvname]]
        /\ nextChan' = nextChan + Len(added)
    BY <1>3, <2>3, Zenon DEF ClientAsks, Select
  <2>6. misses = <<>>
    BY NoneOfNone
  <2> HIDE DEF misses
  <2>7. J \subseteq 1 .. 0
    BY <2>6
  <2>8. added = <<>>
    BY <2>6, <2>7, NoneOfNone
  <2> HIDE DEF added
  <2>9. nextChan \in Nat /\ searches \in Seq(Search)
    BY <1>3 DEF IInv, SearchesOK, AllKnown
  <2>10. searches' = searches \o <<>> /\ nextChan' = nextChan + 0
    BY <2>5, <2>8
  <2>11. UNCHANGED <<searches, nextChan>>
    BY <2>9, <2>10
  <2>12. UNCHANGED cache
    BY <1>3, Zenon DEF ClientAsks
  <2> QED
    BY <2>3, <2>4, <2>11, <2>12
<1>4. ASSUME NobodyServed PROVE DeniedClientsIgnored
  BY <1>4 DEF NobodyServed, DeniedClientsIgnored
<1>5. ASSUME IInv, Next PROVE DeniedClientsIgnored
  BY <1>3, <1>4, <1>5 DEF Next, BeginRound, SendPacket, PeerResponds, Receive, Drop, LoseIoc
<1>6. IInv /\ [Next]_vars => [DeniedClientsIgnored]_vars
  BY <1>5
<1> QED
  BY <1>2, <1>6, ExchangeInvariant, PTL DEF Spec, DeniedLeaveNoTrace
=============================================================================
