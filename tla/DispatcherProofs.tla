-------------------------- MODULE DispatcherProofs --------------------------
(***************************************************************************)
(* Proofs about Dispatcher, for any sets of PVs, IOCs, searchers and       *)
(* guards, and any number of searches and responses.                       *)
(***************************************************************************)
EXTENDS Dispatcher, TLAPS

\* Type correctness: whatever the order of the callbacks, every variable
\* keeps its type.
THEOREM TypeCorrect == Spec => []TypeOK
<1>1. Init => TypeOK
  BY DispatcherAssumption DEF Init, TypeOK, Unborn
<1>2. TypeOK /\ [Next]_vars => TypeOK'
  <2> SUFFICES ASSUME TypeOK, [Next]_vars PROVE TypeOK'
    OBVIOUS
  <2> USE DispatcherAssumption DEF TypeOK
  <2>1. ASSUME NEW p \in PV, AnswerFromCache(p) PROVE TypeOK'
    BY <2>1 DEF AnswerFromCache, Connected, Cached, PvInfo, NotCached
  <2>2. ASSUME NEW p \in PV, StartSearch(p) PROVE TypeOK'
    BY <2>2 DEF StartSearch, Search, Idle, NextId
  <2>3. ASSUME NEW e \in searches, NEW a \in Ioc, IocAnswers(e, a) PROVE TypeOK'
    BY <2>3 DEF IocAnswers, Search, Reply
  <2>4. ASSUME NEW e \in searches, NEW r \in replies, ProcessIncoming(e, r)
        PROVE TypeOK'
    <3> e \in Search /\ r \in Reply
      OBVIOUS
    <3>1. CASE FoundOnKnownIoc(e, r.ioc)
      BY <2>4, <3>1 DEF ProcessIncoming, FoundOnKnownIoc, Resolve, Search, Reply, PvInfo
    <3>2. ASSUME NEW g \in Guard, FoundOnNewIoc(e, r.ioc, g) PROVE TypeOK'
      BY <2>4, <3>2 DEF ProcessIncoming, FoundOnNewIoc, Resolve, Search, Reply, PvInfo
    <3>3. CASE GuardFails(e, r.ioc)
      BY <2>4, <3>3 DEF ProcessIncoming, GuardFails
    <3> QED
      BY <2>4, <3>1, <3>2, <3>3 DEF ProcessIncoming
  <2>5. ASSUME NEW g \in Guard, GuardCloses(g) PROVE TypeOK'
    BY <2>5 DEF GuardCloses
  <2>6. ASSUME NEW g \in Guard, EraseClosed(g) PROVE TypeOK'
    BY <2>6 DEF EraseClosed
  <2>7. ASSUME NEW dropped \in SUBSET searches, Purge(dropped) PROVE TypeOK'
    BY <2>7 DEF Purge
  <2>8. CASE UNCHANGED vars
    BY <2>8 DEF vars
  <2> QED
    BY <2>1, <2>2, <2>3, <2>4, <2>5, <2>6, <2>7, <2>8 DEF Next, CaPvSearched
<1> QED
  BY <1>1, <1>2, PTL DEF Spec

-----------------------------------------------------------------------------
\* The steps that touch neither the guards, m_iocs nor the loop's list.
GuardVars == <<iocs, guards, managed>>

LEMMA GuardSteps ==
  ASSUME TypeOK, Next
  PROVE  \/ UNCHANGED GuardVars
         \/ \E e \in searches, r \in replies, g \in Guard : FoundOnNewIoc(e, r.ioc, g)
         \/ \E g \in Guard : GuardCloses(g) \/ EraseClosed(g)
<1>1. ASSUME NEW p \in PV, CaPvSearched(p) PROVE UNCHANGED GuardVars
  BY <1>1 DEF CaPvSearched, AnswerFromCache, StartSearch, GuardVars
<1>2. ASSUME NEW e \in searches, NEW a \in Ioc, IocAnswers(e, a)
      PROVE UNCHANGED GuardVars
  BY <1>2 DEF IocAnswers, GuardVars
<1>3. ASSUME NEW e \in searches, NEW r \in replies, ProcessIncoming(e, r)
      PROVE \/ UNCHANGED GuardVars
            \/ \E g \in Guard : FoundOnNewIoc(e, r.ioc, g)
  BY <1>3 DEF ProcessIncoming, FoundOnKnownIoc, GuardFails, GuardVars
<1>4. ASSUME NEW dropped \in SUBSET searches, Purge(dropped)
      PROVE UNCHANGED GuardVars
  BY <1>4 DEF Purge, GuardVars
<1> QED
  BY <1>1, <1>2, <1>3, <1>4 DEF Next

\* m_iocs has exactly the open guards, each at its address, and the main loop
\* runs them all: iocDisconnected, which goes by address, always erases the
\* guard that called it.
THEOREM GuardsConsistent == Spec => [](IocsAreOpenGuards /\ OpenGuardsAreRun)
<1> DEFINE Inv == IocsAreOpenGuards /\ OpenGuardsAreRun
<1>1. Init => Inv
  BY DEF Init, IocsAreOpenGuards, OpenGuardsAreRun, Unborn
<1>2. TypeOK /\ Inv /\ [Next]_vars => Inv'
  <2> SUFFICES ASSUME TypeOK, Inv, [Next]_vars PROVE Inv'
    OBVIOUS
  <2> USE DispatcherAssumption DEF TypeOK, IocsAreOpenGuards, OpenGuardsAreRun
  <2>1. CASE UNCHANGED GuardVars
    BY <2>1 DEF GuardVars
  <2>2. ASSUME NEW e \in searches, NEW r \in replies, NEW g \in Guard,
               FoundOnNewIoc(e, r.ioc, g)
        PROVE Inv'
    <3> DEFINE a == r.ioc
    <3>1. a \in Ioc
      BY DEF Reply
    <3>2. /\ guards' = [guards EXCEPT ![g] = [addr |-> a, open |-> TRUE]]
          /\ iocs' = [iocs EXCEPT ![a] = g]
          /\ managed' = managed \cup {g}
          /\ iocs[a] = NoGuard /\ ~guards[g].open
      BY <2>2 DEF FoundOnNewIoc, Unborn
    <3> HIDE DEF a
    <3>3. \A b \in Ioc : iocs'[b] # NoGuard => guards'[iocs'[b]] = [addr |-> b, open |-> TRUE]
      <4> TAKE b \in Ioc
      <4> HAVE iocs'[b] # NoGuard
      <4>1. CASE b = a
        BY <4>1, <3>1, <3>2
      <4>2. CASE b # a
        <5>1. iocs'[b] = iocs[b] /\ iocs[b] \in Guard
          BY <4>2, <3>2
        <5>2. guards[iocs[b]] = [addr |-> b, open |-> TRUE]
          BY <5>1
        <5>3. iocs[b] # g
          BY <5>2, <3>2
        <5> QED
          BY <5>1, <5>2, <5>3, <3>2
      <4> QED
        BY <4>1, <4>2
    <3>4. \A h \in Guard : guards'[h].open =>
             guards'[h].addr \in Ioc /\ iocs'[guards'[h].addr] = h
      <4> TAKE h \in Guard
      <4> HAVE guards'[h].open
      <4>1. CASE h = g
        BY <4>1, <3>1, <3>2
      <4>2. CASE h # g
        <5>1. guards'[h] = guards[h] /\ guards[h].open
              /\ guards[h].addr \in Ioc /\ iocs[guards[h].addr] = h
          BY <4>2, <3>2
        <5>2. guards[h].addr # a
          BY <5>1, <3>2
        <5> QED
          BY <5>1, <5>2, <3>1, <3>2
      <4> QED
        BY <4>1, <4>2
    <3>5. \A h \in Guard : guards'[h].open => h \in managed'
      BY <3>2
    <3> QED
      BY <3>3, <3>4, <3>5
  <2>3. ASSUME NEW g \in Guard, GuardCloses(g) PROVE Inv'
    <3>1. guards' = [guards EXCEPT ![g] = [addr |-> guards[g].addr, open |-> FALSE]]
      BY <2>3 DEF GuardCloses
    <3>2. /\ iocs' = [iocs EXCEPT ![guards[g].addr] = NoGuard]
          /\ guards[g].open /\ iocs[guards[g].addr] = g
          /\ UNCHANGED managed
      BY <2>3 DEF GuardCloses
    <3> QED
      BY <3>1, <3>2
  <2>4. ASSUME NEW g \in Guard, EraseClosed(g) PROVE Inv'
    BY <2>4 DEF EraseClosed
  <2>5. CASE UNCHANGED vars
    BY <2>5 DEF vars
  <2> QED
    BY <2>1, <2>2, <2>3, <2>4, <2>5, GuardSteps
<1> QED
  BY <1>1, <1>2, TypeCorrect, PTL DEF Spec

\* No guard vouches for its IOC unsupervised: one that is open is in the main
\* loop's list, from before caPvFound returns until after it has closed.
THEOREM NoStrayGuard == Spec => []OpenGuardsAreRun
BY GuardsConsistent, PTL

-----------------------------------------------------------------------------
\* Every step that starts no search and adds no response only ends searches.
LEMMA SearchSteps ==
  ASSUME TypeOK, Next
  PROVE  \/ searches' \subseteq searches /\ UNCHANGED <<nextChan, replies>>
         \/ \E p \in PV : StartSearch(p)
         \/ \E e \in searches, a \in Ioc : IocAnswers(e, a)
<1> DEFINE Ends == searches' \subseteq searches /\ UNCHANGED <<nextChan, replies>>
<1>1. ASSUME NEW p \in PV, AnswerFromCache(p) PROVE Ends
  BY <1>1 DEF AnswerFromCache
<1>2. ASSUME NEW e \in searches, NEW r \in replies, ProcessIncoming(e, r) PROVE Ends
  BY <1>2 DEF ProcessIncoming, FoundOnKnownIoc, FoundOnNewIoc, GuardFails, Resolve
<1>3. ASSUME NEW g \in Guard, GuardCloses(g) \/ EraseClosed(g) PROVE Ends
  BY <1>3 DEF GuardCloses, EraseClosed
<1>4. ASSUME NEW dropped \in SUBSET searches, Purge(dropped) PROVE Ends
  BY <1>4 DEF Purge
<1> QED
  BY <1>1, <1>2, <1>3, <1>4 DEF Next, CaPvSearched

\* A searcher searches for a PV once, and the channel id of a search is that
\* of no response about another PV: ids are handed out in order, and both the
\* searches and the responses have older ones (IdsAreFresh).
THEOREM IdsUnique == Spec => [](IdsAreFresh /\ IdsNameOnePV)
<1> DEFINE Inv == IdsAreFresh /\ IdsNameOnePV
<1>1. Init => Inv
  BY DEF Init, IdsAreFresh, IdsNameOnePV
<1>2. TypeOK /\ Inv /\ [Next]_vars => Inv'
  <2> SUFFICES ASSUME TypeOK, Inv, [Next]_vars PROVE Inv'
    OBVIOUS
  <2> USE DispatcherAssumption DEF TypeOK, Search, Reply, IdsAreFresh, IdsNameOnePV
  <2>1. CASE searches' \subseteq searches /\ UNCHANGED <<nextChan, replies>>
    BY <2>1
  <2>2. ASSUME NEW p \in PV, StartSearch(p) PROVE Inv'
    <3> DEFINE idle == Idle(p)
               New == {[searcher |-> s, pvname |-> p, chanId |-> nextChan[s]] : s \in idle}
    <3>1. searches' = searches \cup New /\ UNCHANGED replies
      BY <2>2 DEF StartSearch
    <3>2. nextChan' = [s \in Searcher |->
                        IF s \in idle THEN nextChan[s] + 1 ELSE nextChan[s]]
      BY <2>2 DEF StartSearch, NextId
    <3>3. \A e \in New : /\ e.searcher \in idle /\ e.searcher \in Searcher
                         /\ e.pvname = p
                         /\ e.chanId = nextChan[e.searcher]
                         /\ e = [searcher |-> e.searcher, pvname |-> p,
                                 chanId |-> nextChan[e.searcher]]
      BY DEF Idle
    <3>4. \A s \in Searcher : /\ nextChan[s] \in Nat /\ nextChan'[s] \in Nat
                              /\ nextChan'[s] >= nextChan[s]
                              /\ s \in idle => nextChan'[s] = nextChan[s] + 1
      BY <3>2
    <3>5. \A d \in searches, e \in New : d.searcher = e.searcher =>
             d.chanId < e.chanId /\ d.pvname # p
      BY <3>3 DEF SearchesFor, Idle
    <3> HIDE DEF New
    <3>6. \A e \in searches' : e.chanId < nextChan'[e.searcher]
      <4> TAKE e \in searches'
      <4>1. CASE e \in searches
        <5>1. e.searcher \in Searcher /\ e.chanId \in Nat /\ e.chanId < nextChan[e.searcher]
          BY <4>1
        <5> QED
          BY <5>1, <3>4
      <4>2. CASE e \in New
        BY <4>2, <3>3, <3>4
      <4> QED
        BY <3>1, <4>1, <4>2
    <3>7. \A r \in replies' : r.chanId < nextChan'[r.searcher]
      <4> TAKE r \in replies'
      <4>1. r.searcher \in Searcher /\ r.chanId \in Nat /\ r.chanId < nextChan[r.searcher]
        BY <3>1
      <4> QED
        BY <4>1, <3>4
    <3>8. \A d, e \in searches' :
             d.searcher = e.searcher /\ (d.chanId = e.chanId \/ d.pvname = e.pvname) => d = e
      <4> TAKE d, e \in searches'
      <4>1. CASE d \in searches /\ e \in searches
        BY <4>1
      <4>2. CASE d \in New /\ e \in New
        BY <4>2, <3>3
      <4>3. CASE d \in searches /\ e \in New
        BY <4>3, <3>3, <3>5
      <4>4. CASE d \in New /\ e \in searches
        BY <4>4, <3>3, <3>5
      <4> QED
        BY <3>1, <4>1, <4>2, <4>3, <4>4
    <3>9. \A e \in searches', r \in replies' :
             r.searcher = e.searcher /\ r.chanId = e.chanId => r.pvname = e.pvname
      BY <3>1, <3>3
    <3> QED
      BY <3>6, <3>7, <3>8, <3>9
  <2>3. ASSUME NEW e \in searches, NEW a \in Ioc, IocAnswers(e, a) PROVE Inv'
    BY <2>3 DEF IocAnswers
  <2>4. CASE UNCHANGED vars
    BY <2>4 DEF vars
  <2> QED
    BY <2>1, <2>2, <2>3, <2>4, SearchSteps
<1> QED
  BY <1>1, <1>2, TypeCorrect, PTL DEF Spec

-----------------------------------------------------------------------------
\* The three steps that resolve a PV or give a search up, told apart.
LEMMA FoundSteps ==
  ASSUME NEW e \in searches, NEW r \in replies, TypeOK, IocsAreOpenGuards,
         ProcessIncoming(e, r)
  PROVE  /\ UNCHANGED <<nextChan, replies, answer>>
         /\ \A g \in Guard : guards[g] # Unborn => guards'[g] = guards[g]
         /\ \/ /\ searches' \subseteq searches
               /\ UNCHANGED <<cache, guards>>
            \/ \E g \in Guard :
                 /\ guards'[g] = [addr |-> r.ioc, open |-> TRUE]
                 /\ Resolve(e.pvname, g, r.ioc)
<1> USE DispatcherAssumption DEF TypeOK, Reply
<1>1. CASE FoundOnKnownIoc(e, r.ioc)
  <2>1. iocs[r.ioc] \in Guard /\ guards[iocs[r.ioc]] = [addr |-> r.ioc, open |-> TRUE]
    BY <1>1 DEF FoundOnKnownIoc, IocsAreOpenGuards
  <2> QED
    BY <1>1, <2>1 DEF FoundOnKnownIoc, ProcessIncoming
<1>2. ASSUME NEW g \in Guard, FoundOnNewIoc(e, r.ioc, g)
      PROVE  /\ \A h \in Guard : guards[h] # Unborn => guards'[h] = guards[h]
             /\ guards'[g] = [addr |-> r.ioc, open |-> TRUE]
             /\ Resolve(e.pvname, g, r.ioc)
  BY <1>2 DEF FoundOnNewIoc
<1>3. CASE GuardFails(e, r.ioc)
  BY <1>3 DEF GuardFails, ProcessIncoming
<1> QED
  BY <1>1, <1>2, <1>3 DEF ProcessIncoming

\* A cached PV is not searched for, its guard watches the IOC in the response,
\* and that IOC claimed the PV.
THEOREM CacheConsistent ==
  Spec => [](CachedOrSearched /\ GuardWatchesResponse /\ Genuine)
<1> DEFINE Inv == CachedOrSearched /\ GuardWatchesResponse /\ Genuine
<1>1. Init => Inv
  BY DEF Init, CachedOrSearched, GuardWatchesResponse, Genuine, Cached
<1>2. TypeOK /\ IocsAreOpenGuards /\ IdsNameOnePV /\ Inv /\ [Next]_vars => Inv'
  <2> SUFFICES ASSUME TypeOK, IocsAreOpenGuards, IdsNameOnePV, Inv, [Next]_vars
               PROVE Inv'
    OBVIOUS
  <2> USE DispatcherAssumption DEF TypeOK
  <2>1. ASSUME NEW p \in PV, AnswerFromCache(p) PROVE Inv'
    BY <2>1 DEF AnswerFromCache, CachedOrSearched, GuardWatchesResponse, Genuine,
                Cached, SearchesFor
  <2>2. ASSUME NEW p \in PV, StartSearch(p) PROVE Inv'
    <3>1. /\ cache' = [cache EXCEPT ![p] = NotCached]
          /\ \A e \in searches' : e \in searches \/ e.pvname = p
          /\ UNCHANGED <<guards, replies>>
      BY <2>2 DEF StartSearch
    <3> QED
      BY <3>1 DEF CachedOrSearched, GuardWatchesResponse, Genuine, Cached, SearchesFor
  <2>3. ASSUME NEW e \in searches, NEW a \in Ioc, IocAnswers(e, a) PROVE Inv'
    BY <2>3 DEF IocAnswers, CachedOrSearched, GuardWatchesResponse, Genuine,
                Cached, SearchesFor
  <2>4. ASSUME NEW e \in searches, NEW r \in replies, ProcessIncoming(e, r) PROVE Inv'
    <3>1. \A p \in PV : Cached(p) => /\ cache[p].ioc \in Guard
                                     /\ guards[cache[p].ioc] # Unborn
      BY DEF GuardWatchesResponse, Cached, PvInfo, Unborn
    <3>2. CASE searches' \subseteq searches /\ UNCHANGED <<cache, guards>>
      BY <2>4, <3>2 DEF ProcessIncoming, CachedOrSearched, GuardWatchesResponse,
                        Genuine, Cached, SearchesFor
    <3>3. ASSUME NEW g \in Guard, guards'[g] = [addr |-> r.ioc, open |-> TRUE],
                 Resolve(e.pvname, g, r.ioc)
          PROVE Inv'
      <4>1. /\ cache' = [cache EXCEPT ![e.pvname] = [ioc |-> g, response |-> r.ioc]]
            /\ searches' = {d \in searches : d.pvname # e.pvname}
            /\ UNCHANGED replies
        BY <2>4, <3>3 DEF Resolve, SearchesFor, ProcessIncoming
      <4>2. r.pvname = e.pvname /\ e.pvname \in PV
        BY <2>4 DEF ProcessIncoming, Answers, IdsNameOnePV, Search
      <4>3. CachedOrSearched'
        BY <4>1, <4>2 DEF CachedOrSearched, Cached, SearchesFor
      <4>4. GuardWatchesResponse'
        <5> SUFFICES ASSUME NEW p \in PV, Cached(p)'
                     PROVE  guards'[cache'[p].ioc].addr = cache'[p].response
          BY DEF GuardWatchesResponse
        <5>1. CASE p = e.pvname
          BY <5>1, <4>1, <4>2, <3>3
        <5>2. CASE p # e.pvname
          <6>1. cache'[p] = cache[p] /\ Cached(p)
            BY <5>2, <4>1 DEF Cached
          <6>2. guards'[cache[p].ioc] = guards[cache[p].ioc]
            BY <6>1, <3>1, <2>4, FoundSteps
          <6> QED
            BY <6>1, <6>2 DEF GuardWatchesResponse
        <5> QED
          BY <5>1, <5>2
      <4>5. Genuine'
        BY <4>1, <4>2 DEF Genuine, Cached
      <4> QED
        BY <4>3, <4>4, <4>5
    <3> QED
      BY <3>2, <3>3, <2>4, FoundSteps
  <2>5. ASSUME NEW g \in Guard, GuardCloses(g) PROVE Inv'
    <3>1. /\ \A h \in Guard : guards'[h].addr = guards[h].addr
          /\ UNCHANGED <<cache, searches, replies>>
      BY <2>5 DEF GuardCloses
    <3> QED
      BY <3>1 DEF CachedOrSearched, GuardWatchesResponse, Genuine, Cached, SearchesFor,
                  PvInfo
  <2>6. ASSUME NEW g \in Guard, EraseClosed(g) PROVE Inv'
    BY <2>6 DEF EraseClosed, CachedOrSearched, GuardWatchesResponse, Genuine, Cached,
                SearchesFor
  <2>7. ASSUME NEW dropped \in SUBSET searches, Purge(dropped) PROVE Inv'
    BY <2>7 DEF Purge, CachedOrSearched, GuardWatchesResponse, Genuine, Cached,
                SearchesFor
  <2>8. CASE UNCHANGED vars
    BY <2>8 DEF vars, CachedOrSearched, GuardWatchesResponse, Genuine, Cached,
                SearchesFor
  <2> QED
    BY <2>1, <2>2, <2>3, <2>4, <2>5, <2>6, <2>7, <2>8 DEF Next, CaPvSearched
<1> QED
  BY <1>1, <1>2, TypeCorrect, GuardsConsistent, IdsUnique, PTL DEF Spec

\* The guard that m_connectedPVs names for a PV watches the IOC whose response
\* clients are given.
THEOREM WatchedIocIsTold == Spec => []GuardWatchesResponse
BY CacheConsistent, PTL

\* Clients are given no IOC as the home of a PV that did not claim it, however
\* late, often or out of order its responses come.
THEOREM OnlyClaimedHomes == Spec => []Genuine
BY CacheConsistent, PTL

-----------------------------------------------------------------------------
\* Only the found PV changes its resolution, unless a guard closes.
LEMMA ResolvedUnchanged ==
  ASSUME TypeOK, GuardWatchesResponse,
         \A p \in PV : Connected(p) \/ Connected(p)' => cache'[p] = cache[p],
         \A g \in Guard : guards[g] # Unborn => guards'[g] = guards[g]
  PROVE  Resolved' = Resolved
<1> SUFFICES ASSUME NEW p \in PV
             PROVE  /\ Connected(p)' <=> Connected(p)
                    /\ Connected(p) => cache'[p].response = cache[p].response
  BY DEF Resolved
<1>1. CASE cache'[p] = cache[p] /\ Cached(p)
  <2>1. cache[p].ioc \in Guard /\ guards[cache[p].ioc] # Unborn
    BY <1>1, DispatcherAssumption
       DEF TypeOK, GuardWatchesResponse, Cached, PvInfo, Unborn
  <2> QED
    BY <1>1, <2>1 DEF Connected, Cached
<1> QED
  BY <1>1 DEF Connected, Cached

\* The Dispatcher implements NameService: a PV is resolved while its guard is
\* open, clients are told what their PV is resolved to, a PV is learnt only
\* when unresolved and only from an IOC that claimed it, and a guard that
\* closes unresolves the PVs of its IOC, all of them and no other, at once.
THEOREM Implements == Spec => IsNameService
<1> DEFINE Inv == /\ TypeOK /\ IocsAreOpenGuards /\ IdsNameOnePV
                  /\ CachedOrSearched /\ GuardWatchesResponse
<1>1. Init => NS!Init
  BY DEF Init, NS!Init, Claims, Resolved, Connected, Cached
<1>2. Inv /\ [Next]_vars => [NS!Next]_NS!vars
  <2> SUFFICES ASSUME Inv, [Next]_vars PROVE [NS!Next]_NS!vars
    OBVIOUS
  <2> USE DispatcherAssumption
  <2>1. ASSUME NEW p \in PV, AnswerFromCache(p) PROVE NS!Ask(p)
    BY <2>1 DEF AnswerFromCache, NS!Ask, Claims, Resolved, Connected, Cached
  <2>2. ASSUME NEW p \in PV, StartSearch(p) PROVE NS!Ask(p)
    <3>1. /\ ~Connected(p)
          /\ cache' = [cache EXCEPT ![p] = NotCached]
          /\ UNCHANGED <<guards, replies>>
          /\ answer' = [pvname |-> p, ioc |-> Unresolved]
      BY <2>2 DEF StartSearch
    <3>2. Resolved' = Resolved
      <4>1. \A q \in PV : Connected(q) \/ Connected(q)' => cache'[q] = cache[q]
        BY <3>1 DEF TypeOK, Connected, Cached
      <4> QED
        BY <4>1, <3>1, ResolvedUnchanged
    <3> QED
      BY <3>1, <3>2 DEF NS!Ask, Claims, Resolved
  <2>3. ASSUME NEW e \in searches, NEW a \in Ioc, IocAnswers(e, a)
        PROVE NS!Claim(e.pvname, a)
    <3> DEFINE new == [searcher |-> e.searcher, chanId |-> e.chanId,
                       pvname |-> e.pvname, ioc |-> a]
    <3>1. replies' = replies \cup {new} /\ UNCHANGED <<cache, guards, answer>>
      BY <2>3 DEF IocAnswers
    <3>2. Claims' = Claims \cup {<<e.pvname, a>>}
      <4>1. new.pvname = e.pvname /\ new.ioc = a
        OBVIOUS
      <4> HIDE DEF new
      <4> QED
        BY <3>1, <4>1 DEF Claims
    <3>3. Resolved' = Resolved
      BY <3>1 DEF Resolved, Connected, Cached
    <3> QED
      BY <3>1, <3>2, <3>3 DEF NS!Claim
  <2>4. ASSUME NEW e \in searches, NEW r \in replies, ProcessIncoming(e, r)
        PROVE NS!Learn(e.pvname, r.ioc) \/ UNCHANGED NS!vars
    <3>1. /\ UNCHANGED <<replies, answer>>
          /\ \A g \in Guard : guards[g] # Unborn => guards'[g] = guards[g]
      BY <2>4, FoundSteps
    <3>2. CASE UNCHANGED <<cache, guards>>
      BY <3>1, <3>2 DEF NS!vars, Claims, Resolved, Connected, Cached
    <3>3. ASSUME NEW g \in Guard, guards'[g] = [addr |-> r.ioc, open |-> TRUE],
                 Resolve(e.pvname, g, r.ioc)
          PROVE NS!Learn(e.pvname, r.ioc)
      <4> DEFINE pv == e.pvname
      <4>1. pv \in PV /\ r.ioc \in Ioc /\ r.pvname = pv
        BY <2>4 DEF ProcessIncoming, Answers, IdsNameOnePV, TypeOK, Search, Reply
      <4>2. ~Cached(pv)
        BY <4>1 DEF CachedOrSearched, SearchesFor
      <4>3. <<pv, r.ioc>> \in Claims
        BY <4>1 DEF Claims
      <4>4. cache' = [cache EXCEPT ![pv] = [ioc |-> g, response |-> r.ioc]]
        BY <3>3 DEF Resolve
      <4>5. Resolved[pv] = Unresolved /\ Resolved'[pv] = r.ioc
        BY <4>1, <4>2, <4>4, <3>3 DEF TypeOK, Resolved, Connected, Cached, NotCached
      <4>6. ASSUME NEW q \in PV, q # pv PROVE Resolved'[q] = Resolved[q]
        <5>1. cache'[q] = cache[q]
          BY <4>4, <4>6 DEF TypeOK
        <5>2. CASE Cached(q)
          <6>1. cache[q].ioc \in Guard /\ guards[cache[q].ioc] # Unborn
            BY <5>2 DEF TypeOK, GuardWatchesResponse, Cached, PvInfo, Unborn
          <6> QED
            BY <5>1, <6>1, <3>1 DEF Resolved, Connected, Cached
        <5>3. CASE ~Cached(q)
          BY <5>1, <5>3 DEF Resolved, Connected, Cached
        <5> QED
          BY <5>2, <5>3
      <4>7. Resolved' = [Resolved EXCEPT ![pv] = r.ioc]
        BY <4>1, <4>5, <4>6 DEF Resolved
      <4>8. Claims' = Claims
        BY <3>1 DEF Claims
      <4> QED
        BY <4>3, <4>5, <4>7, <4>8, <3>1 DEF NS!Learn
    <3> QED
      BY <3>2, <3>3, <2>4, FoundSteps
  <2>5. ASSUME NEW g \in Guard, GuardCloses(g) PROVE NS!Lose(guards[g].addr)
    <3> DEFINE a == guards[g].addr
    <3>1. /\ guards[g].open /\ a \in Ioc /\ iocs[a] = g
          /\ guards' = [guards EXCEPT ![g] = [addr |-> a, open |-> FALSE]]
          /\ UNCHANGED <<cache, replies, answer>>
      BY <2>5 DEF GuardCloses, IocsAreOpenGuards, TypeOK
    <3>2. ASSUME NEW p \in PV
          PROVE  Resolved'[p] = IF Resolved[p] = a THEN Unresolved ELSE Resolved[p]
      <4>1. CASE Connected(p) /\ cache[p].ioc = g
        <5>1. Resolved[p] = a
          BY <4>1 DEF Resolved, Connected, GuardWatchesResponse
        <5>2. ~Connected(p)'
          BY <4>1, <3>1 DEF TypeOK, Connected, Cached
        <5> QED
          BY <5>1, <5>2 DEF Resolved
      <4>2. CASE Connected(p) /\ cache[p].ioc # g
        <5>1. cache[p].ioc \in Guard /\ guards[cache[p].ioc].addr = cache[p].response
          BY <4>2 DEF TypeOK, Connected, Cached, GuardWatchesResponse, PvInfo
        <5>2. Resolved[p] # a
          BY <4>2, <5>1, <3>1 DEF IocsAreOpenGuards, Resolved, Connected
        <5>3. Resolved'[p] = Resolved[p]
          BY <4>2, <5>1, <3>1 DEF TypeOK, Resolved, Connected, Cached
        <5> QED
          BY <5>2, <5>3
      <4>3. CASE ~Connected(p)
        <5>1. ~Connected(p)'
          BY <4>3, <3>1 DEF TypeOK, Connected, Cached, PvInfo
        <5> QED
          BY <4>3, <5>1, <3>1 DEF Resolved
      <4> QED
        BY <4>1, <4>2, <4>3
    <3>3. Claims' = Claims
      BY <3>1 DEF Claims
    <3> QED
      BY <3>1, <3>2, <3>3 DEF NS!Lose, Resolved
  <2>6. ASSUME NEW g \in Guard, EraseClosed(g) PROVE UNCHANGED NS!vars
    BY <2>6 DEF EraseClosed, NS!vars, Claims, Resolved, Connected, Cached
  <2>7. ASSUME NEW dropped \in SUBSET searches, Purge(dropped) PROVE UNCHANGED NS!vars
    BY <2>7 DEF Purge, NS!vars, Claims, Resolved, Connected, Cached
  <2>8. CASE UNCHANGED vars
    BY <2>8 DEF vars, NS!vars, Claims, Resolved, Connected, Cached
  <2>9. ASSUME NEW p \in PV, CaPvSearched(p) PROVE NS!Next
    BY <2>1, <2>2, <2>9 DEF CaPvSearched, NS!Next
  <2>10. ASSUME NEW e \in searches, NEW a \in Ioc, IocAnswers(e, a) PROVE NS!Next
    <3>1. e.pvname \in PV
      BY DEF TypeOK, Search
    <3> QED
      BY <2>3, <2>10, <3>1 DEF NS!Next
  <2>11. ASSUME NEW e \in searches, NEW r \in replies, ProcessIncoming(e, r)
         PROVE NS!Next \/ UNCHANGED NS!vars
    <3>1. e.pvname \in PV /\ r.ioc \in Ioc
      BY DEF TypeOK, Search, Reply
    <3> QED
      BY <2>4, <2>11, <3>1 DEF NS!Next
  <2>12. ASSUME NEW g \in Guard, GuardCloses(g) PROVE NS!Next
    <3>1. guards[g].addr \in Ioc
      BY <2>12 DEF GuardCloses, IocsAreOpenGuards
    <3> QED
      BY <2>5, <2>12, <3>1 DEF NS!Next
  <2> QED
    BY <2>6, <2>7, <2>8, <2>9, <2>10, <2>11, <2>12 DEF Next
<1> QED
  BY <1>1, <1>2, TypeCorrect, GuardsConsistent, IdsUnique, CacheConsistent, PTL
     DEF Spec, NS!Spec, IsNameService

-----------------------------------------------------------------------------
\* A client that is told nothing has set every searcher on its PV.
THEOREM AskingSearches == Spec => NoDeadEnd
<1> DEFINE A == \A p \in PV :
                  answer' = [pvname |-> p, ioc |-> Unresolved] /\ CaPvSearched(p) =>
                    \A s \in Searcher :
                      \E e \in searches' : e.searcher = s /\ e.pvname = p
<1>1. TypeOK /\ [Next]_vars => [A]_vars
  <2> SUFFICES ASSUME TypeOK, NEW p \in PV, NEW s \in Searcher, CaPvSearched(p),
                      answer' = [pvname |-> p, ioc |-> Unresolved]
               PROVE  \E e \in searches' : e.searcher = s /\ e.pvname = p
    OBVIOUS
  <2>1. StartSearch(p)
    <3> SUFFICES ASSUME AnswerFromCache(p) PROVE FALSE
      BY DEF CaPvSearched
    <3>1. cache[p] \in PvInfo
      BY DEF AnswerFromCache, Connected, Cached, TypeOK
    <3> QED
      BY <3>1, DispatcherAssumption DEF AnswerFromCache, PvInfo
  <2>2. CASE \A e \in SearchesFor(p) : e.searcher # s
    <3> DEFINE new == [searcher |-> s, pvname |-> p, chanId |-> nextChan[s]]
    <3>1. new \in searches'
      BY <2>1, <2>2 DEF StartSearch, Idle
    <3> QED
      BY <3>1
  <2>3. CASE \E e \in SearchesFor(p) : e.searcher = s
    BY <2>1, <2>3 DEF StartSearch, SearchesFor
  <2> QED
    BY <2>2, <2>3
<1> QED
  BY <1>1, TypeCorrect, PTL DEF Spec, NoDeadEnd
=============================================================================
