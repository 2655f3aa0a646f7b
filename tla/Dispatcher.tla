----------------------------- MODULE Dispatcher -----------------------------
(***************************************************************************)
(* The Dispatcher: the cache of resolved PVs, the guards of the IOCs they  *)
(* live on, and the searches under way, kept consistent by callbacks that  *)
(* arrive in any order: a client asks (caPvSearched), a searcher gets an   *)
(* answer (caPvFound), a guard loses its IOC (iocDisconnected).            *)
(*                                                                         *)
(* All of it runs in one thread, so a callback is one action, together     *)
(* with the part of the handler that makes the call.  What the order of    *)
(* bins and time stamps decides in a Searcher is a choice here: when a     *)
(* search is answered, and which searches a purge drops.                   *)
(***************************************************************************)
EXTENDS Integers, FiniteSets

CONSTANTS
  PV,          \* the PV names
  Ioc,         \* the addresses of IOCs
  Searcher,    \* m_caSearchers
  Guard,       \* the IocGuard objects that may come to be
  Unresolved,  \* no address
  NoGuard,     \* no IocGuard
  MaxSearches, \* bound of the model on the channel ids of a searcher
  MaxReplies   \* bound of the model on the responses ever sent

ASSUME DispatcherAssumption ==
  /\ Unresolved \notin Ioc
  /\ NoGuard \notin Guard
  /\ MaxSearches \in Nat /\ MaxReplies \in Nat

VARIABLES
  cache,      \* m_connectedPVs
  iocs,       \* m_iocs
  guards,     \* the IocGuard objects: their address, and whether m_sock # -1
  managed,    \* the guards in ConnectionsManager's m_connections
  searches,   \* the PVs in the bins of the searchers
  nextChan,   \* m_chanId of every searcher
  replies,    \* the search responses ever sent to a searcher
  answer      \* what caPvSearched returned last

vars == <<cache, iocs, guards, managed, searches, nextChan, replies, answer>>

PvInfo == [ioc: Guard, response: Ioc]
NotCached == [ioc |-> NoGuard, response |-> Unresolved]

Search == [searcher: Searcher, pvname: PV, chanId: Nat]

\* A response names the channel id only; the PV it is about is what the IOC
\* read in the request.
Reply == [searcher: Searcher, chanId: Nat, pvname: PV, ioc: Ioc]

TypeOK ==
  /\ cache \in [PV -> PvInfo \cup {NotCached}]
  /\ iocs \in [Ioc -> Guard \cup {NoGuard}]
  /\ guards \in [Guard -> [addr: Ioc \cup {Unresolved}, open: BOOLEAN]]
  /\ managed \in SUBSET Guard
  /\ searches \in SUBSET Search
  /\ nextChan \in [Searcher -> Nat]
  /\ replies \in SUBSET Reply
  /\ answer \in [pvname: PV, ioc: Ioc \cup {Unresolved}]

Unborn == [addr |-> Unresolved, open |-> FALSE]

Init ==
  /\ cache = [p \in PV |-> NotCached]
  /\ iocs = [a \in Ioc |-> NoGuard]
  /\ guards = [g \in Guard |-> Unborn]
  /\ managed = {}
  /\ searches = {}
  /\ nextChan = [s \in Searcher |-> 0]
  /\ replies = {}
  /\ \E p \in PV : answer = [pvname |-> p, ioc |-> Unresolved]

Cached(pv) == cache[pv] # NotCached

\* PvInfo.ioc->isConnected()
Connected(pv) == Cached(pv) /\ guards[cache[pv].ioc].open

SearchesFor(pv) == {e \in searches : e.pvname = pv}

-----------------------------------------------------------------------------
\* Bug: the guard is not asked whether it is connected.
AnswerFromAnyEntry(pv) ==
  /\ Cached(pv)
  /\ answer' = [pvname |-> pv, ioc |-> cache[pv].response]
  /\ UNCHANGED <<cache, iocs, guards, managed, searches, nextChan, replies>>

\* caPvSearched, called by a Listener, when the PV is in the cache and its
\* guard is connected.
AnswerFromCache(pv) ==
  /\ Connected(pv)
  /\ answer' = [pvname |-> pv, ioc |-> cache[pv].response]
  /\ UNCHANGED <<cache, iocs, guards, managed, searches, nextChan, replies>>

\* Bug: the first searcher that starts is the last that is told.
IdleUntilAdded(pv) ==
  LET idle == {s \in Searcher : \A e \in SearchesFor(pv) : e.searcher # s}
  IN  IF idle = {} THEN {} ELSE {CHOOSE s \in idle : TRUE}

\* The searchers on which addPV adds the PV.
Idle(pv) == {s \in Searcher : \A e \in SearchesFor(pv) : e.searcher # s}

\* Bug: m_chanId is not counted up.
SameId(n) == n

NextId(n) == n + 1

\* caPvSearched when it is not: an entry whose guard is not connected any more
\* is erased, and every searcher gets to search for the PV; one that does
\* already only notes the time.
StartSearch(pv) ==
  /\ ~Connected(pv)
  /\ \A s \in Idle(pv) : nextChan[s] < MaxSearches
  /\ cache' = [cache EXCEPT ![pv] = NotCached]
  /\ searches' = searches \cup
       {[searcher |-> s, pvname |-> pv, chanId |-> nextChan[s]] : s \in Idle(pv)}
  /\ nextChan' = [s \in Searcher |->
                    IF s \in Idle(pv) THEN NextId(nextChan[s]) ELSE nextChan[s]]
  /\ answer' = [pvname |-> pv, ioc |-> Unresolved]
  /\ UNCHANGED <<iocs, guards, managed, replies>>

CaPvSearched(pv) == AnswerFromCache(pv) \/ StartSearch(pv)

\* An IOC answers a search.  The response may be lost, or arrive late, more
\* than once and in any order: it stays in replies, and nothing forces
\* ProcessIncoming to take it.
IocAnswers(e, ioc) ==
  /\ Cardinality(replies) < MaxReplies
  /\ replies' = replies \cup
       {[searcher |-> e.searcher, chanId |-> e.chanId, pvname |-> e.pvname, ioc |-> ioc]}
  /\ UNCHANGED <<cache, iocs, guards, managed, searches, nextChan, answer>>

\* Bug: the searchers are gone through only up to the first that has the PV.
ResolveAfterOne(pv, g, ioc) ==
  /\ \E e \in SearchesFor(pv) : searches' = searches \ {e}
  /\ cache' = [cache EXCEPT ![pv] = [ioc |-> g, response |-> ioc]]

\* The end of caPvFound: no searcher looks for the PV any more, the cache has
\* its guard and its response.
Resolve(pv, g, ioc) ==
  /\ searches' = searches \ SearchesFor(pv)
  /\ cache' = [cache EXCEPT ![pv] = [ioc |-> g, response |-> ioc]]

\* Bugs: m_iocs[...] without a look whether it has the IOC; an IOC looked up by
\* a part of its address that others share.
FoundOnIndexedIoc(e, ioc) ==
  /\ Resolve(e.pvname, iocs[ioc], ioc)
  /\ UNCHANGED <<iocs, guards, managed>>

FoundOnSimilarIoc(e, ioc) ==
  /\ \E a \in Ioc : iocs[a] # NoGuard /\ Resolve(e.pvname, iocs[a], ioc)
  /\ UNCHANGED <<iocs, guards, managed>>

FoundOnKnownIoc(e, ioc) ==
  /\ iocs[ioc] # NoGuard
  /\ Resolve(e.pvname, iocs[ioc], ioc)
  /\ UNCHANGED <<iocs, guards, managed>>

\* Bug: the new guard is not given to the main loop.
FoundButNotRun(e, ioc, g) ==
  /\ iocs[ioc] = NoGuard
  /\ guards[g] = Unborn
  /\ guards' = [guards EXCEPT ![g] = [addr |-> ioc, open |-> TRUE]]
  /\ iocs' = [iocs EXCEPT ![ioc] = g]
  /\ managed' = managed
  /\ Resolve(e.pvname, g, ioc)

FoundOnNewIoc(e, ioc, g) ==
  /\ iocs[ioc] = NoGuard
  /\ guards[g] = Unborn
  /\ guards' = [guards EXCEPT ![g] = [addr |-> ioc, open |-> TRUE]]
  /\ iocs' = [iocs EXCEPT ![ioc] = g]
  /\ managed' = managed \cup {g}
  /\ Resolve(e.pvname, g, ioc)

\* The constructor of IocGuard throws, and caPvFound returns.  The searcher
\* that got the answer has erased the PV already.
GuardFails(e, ioc) ==
  /\ iocs[ioc] = NoGuard
  /\ searches' = searches \ {e}
  /\ UNCHANGED <<cache, iocs, guards, managed>>

\* Bug: any response will do.
AnyAnswer(e, r) == r.searcher = e.searcher

Answers(e, r) == r.searcher = e.searcher /\ r.chanId = e.chanId

\* A searcher receives a response to a search it still has in its bins.
ProcessIncoming(e, r) ==
  /\ Answers(e, r)
  /\ \/ FoundOnKnownIoc(e, r.ioc)
     \/ \E g \in Guard : FoundOnNewIoc(e, r.ioc, g)
     \/ GuardFails(e, r.ioc)
  /\ UNCHANGED <<nextChan, replies, answer>>

\* Bug: the socket is closed and nobody called back.
GuardClosesUntold(g) ==
  /\ g \in managed /\ guards[g].open
  /\ guards' = [guards EXCEPT ![g] = [addr |-> @.addr, open |-> FALSE]]
  /\ UNCHANGED <<cache, iocs, managed, searches, nextChan, replies, answer>>

\* A guard closes its socket, on whatever evidence, and calls back:
\* iocDisconnected erases what m_iocs has at its address.  Only the main loop
\* calls a guard.
GuardCloses(g) ==
  /\ g \in managed /\ guards[g].open
  /\ guards' = [guards EXCEPT ![g] = [addr |-> @.addr, open |-> FALSE]]
  /\ iocs' = [iocs EXCEPT ![guards[g].addr] = NoGuard]
  /\ UNCHANGED <<cache, managed, searches, nextChan, replies, answer>>

\* The end of an iteration of ConnectionsManager::run.
EraseClosed(g) ==
  /\ g \in managed /\ ~guards[g].open
  /\ managed' = managed \ {g}
  /\ UNCHANGED <<cache, iocs, guards, searches, nextChan, replies, answer>>

\* run, when the purge is due: searches no client cares for are dropped.
Purge(dropped) ==
  /\ searches' = searches \ dropped
  /\ UNCHANGED <<cache, iocs, guards, managed, nextChan, replies, answer>>

Next ==
  \/ \E p \in PV : CaPvSearched(p)
  \/ \E e \in searches, a \in Ioc : IocAnswers(e, a)
  \/ \E e \in searches, r \in replies : ProcessIncoming(e, r)
  \/ \E g \in Guard : GuardCloses(g) \/ EraseClosed(g)
  \/ \E dropped \in SUBSET searches : Purge(dropped)

Spec == Init /\ [][Next]_vars

-----------------------------------------------------------------------------
\* iocDisconnected goes by address and not by identity, and still m_iocs has
\* exactly the open guards, each at its address: a closed guard is never
\* handed to a new PV, and no IOC is watched by two guards.
IocsAreOpenGuards ==
  /\ \A a \in Ioc : iocs[a] # NoGuard => guards[iocs[a]] = [addr |-> a, open |-> TRUE]
  /\ \A g \in Guard : guards[g].open =>
       guards[g].addr \in Ioc /\ iocs[guards[g].addr] = g

\* Every open guard is run by the main loop; one that is not would vouch for
\* its IOC for ever.
OpenGuardsAreRun == \A g \in Guard : guards[g].open => g \in managed

\* A PV in the cache is not searched for, so that no second IOC's answer can
\* replace the one clients were given.
CachedOrSearched == \A p \in PV : Cached(p) => SearchesFor(p) = {}

\* The guard that vouches for a PV watches the IOC in the response that
\* clients are given.
GuardWatchesResponse ==
  \A p \in PV : Cached(p) => guards[cache[p].ioc].addr = cache[p].response

\* A searcher searches for a PV once, and the channel id of a search is that
\* of no response about another PV.
IdsAreFresh ==
  /\ \A e \in searches : e.chanId < nextChan[e.searcher]
  /\ \A r \in replies : r.chanId < nextChan[r.searcher]

IdsNameOnePV ==
  /\ \A d, e \in searches :
       d.searcher = e.searcher /\ (d.chanId = e.chanId \/ d.pvname = e.pvname) => d = e
  /\ \A e \in searches, r \in replies :
       r.searcher = e.searcher /\ r.chanId = e.chanId => r.pvname = e.pvname

\* An IOC is given as the home of a PV only if it said so itself, though
\* responses do not name the PV and come late, twice and out of order.
Genuine ==
  \A p \in PV : Cached(p) =>
     \E r \in replies : r.pvname = p /\ r.ioc = cache[p].response

\* Whenever a client is told nothing, every searcher is looking for the PV:
\* a dead guard, a failed one or a purge never leave a PV neither known nor
\* searched for once a client asks again.
NoDeadEnd ==
  [][\A p \in PV : answer' = [pvname |-> p, ioc |-> Unresolved] /\ CaPvSearched(p) =>
       \A s \in Searcher : \E e \in searches' : e.searcher = s /\ e.pvname = p]_vars

\* The Dispatcher is a name service.
Resolved == [p \in PV |-> IF Connected(p) THEN cache[p].response ELSE Unresolved]
Claims == {<<r.pvname, r.ioc>> : r \in replies}

NS == INSTANCE NameService WITH claims <- Claims, resolved <- Resolved

IsNameService == NS!Spec
=============================================================================
