----------------------------- MODULE NameServer -----------------------------
(***************************************************************************)
(* The server at work between a client that keeps asking and IOCs that     *)
(* come, go, and come back elsewhere: the main loop with its purges        *)
(* (Dispatcher::run), the ring of one Searcher, the cache and the guards,  *)
(* each reduced to what the others see of it.                              *)
(*                                                                         *)
(*   - A search is named by its PV in place of its channel id.  Dispatcher *)
(*     shows that an id of a search names one PV (IdsNameOnePV).           *)
(*   - An iteration of the loop is one action: the searches of a slot,     *)
(*     then the purge if it is due.  Handlers run between iterations.      *)
(*   - A response under way is read in any later iteration, or never: the  *)
(*     IOC that sent it may have stopped by then, or be back without the   *)
(*     PV.  The datagram has no more than the IOC's address in it.         *)
(*   - A guard closes only if its IOC has gone, and does so in the end:    *)
(*     IocGuard shows both (NoFalseDisconnect, DetectsInTime).             *)
(***************************************************************************)
EXTENDS SearchTable

CONSTANTS
  Hosted,   \* the PVs that some IOC may host
  Ioc,      \* the addresses of IOCs
  None      \* no address

ASSUME NameServerAssumption ==
  /\ Hosted \subseteq PV
  /\ None \notin Ioc

VARIABLES
  sent,        \* the PVs asked for in the last round
  responses,   \* the responses under way, each of an IOC and to the present
               \* search for a PV
  running,     \* the IOCs that are up
  home,        \* the IOC that hosts the PV now, or None
  link,        \* the guard in m_iocs at the address: "none", "up", or "broken"
               \* if its IOC has gone and it has not noticed
  cache,       \* the IOC in m_connectedPVs with a guard still connected
  late,        \* observer: the PVs cached by a response read after its IOC
               \* had stopped hosting them
  told         \* what a client was told when it last asked for the PV

search  == <<bins, currentBin>>
clock   == <<sincePurge, iterated, lost>>
network == <<sent, responses>>
iocs    == <<running, home>>
known   == <<link, cache, late, told>>
serverVars == <<search, clock, network, iocs, known>>

Response == [pvname: Hosted, ioc: Ioc]

\* The part of the state that a client's answer depends on.
AnswersTypeOK ==
  /\ running \in SUBSET Ioc
  /\ home \in [Hosted -> Ioc \cup {None}]
  /\ link \in [Ioc -> {"none", "up", "broken"}]
  /\ cache \in [PV -> Ioc \cup {None}]
  /\ late \in SUBSET Hosted
  /\ told \in [PV -> Ioc \cup {None}]

ServerTypeOK ==
  /\ bins \in [Bin -> Seq(SearchedPV(PV, 0 .. PurgePeriod))]
  /\ currentBin \in Bin
  /\ sincePurge \in 0 .. PurgeLimit
  /\ iterated \in BOOLEAN
  /\ lost \in 0 .. MaxStall
  /\ sent \in SUBSET PV
  /\ responses \in SUBSET Response
  /\ AnswersTypeOK

ServerInit ==
  /\ bins = EmptyBins
  /\ currentBin = 0
  /\ sincePurge = 0
  /\ iterated = FALSE
  /\ lost = 0
  /\ sent = {}
  /\ responses = {}
  /\ running = {}
  /\ home = [p \in Hosted |-> None]
  /\ link = [i \in Ioc |-> "none"]
  /\ cache = [p \in PV |-> None]
  /\ late = {}
  /\ told = [p \in PV |-> None]

-----------------------------------------------------------------------------
\* A search that ends, or begins with a new channel id: neither requests nor
\* responses of before lead to an entry of the table any more.
EndsSearch(pv) ==
  /\ sent' = sent \ {pv}
  /\ responses' = {r \in responses : r.pvname # pv}

\* caPvSearched: the answer from the cache, or nothing and a search.
ClientAsks(pv) ==
  /\ told' = [told EXCEPT ![pv] = cache[pv]]
  /\ \/ /\ cache[pv] # None
        /\ UNCHANGED <<bins, network>>
     \/ /\ cache[pv] = None
        /\ pv \in Searched(bins)
        /\ bins' = Touch(bins, pv)
        /\ UNCHANGED network
     \/ /\ cache[pv] = None
        /\ pv \notin Searched(bins)
        /\ bins' = Insert(bins, currentBin, pv, pv)
        /\ EndsSearch(pv)
  /\ UNCHANGED <<currentBin, clock, iocs, link, cache, late>>

\* processIncoming reads a response, and its scan finds the search it is for.
ResponseRead(pv, ioc) ==
  /\ [pvname |-> pv, ioc |-> ioc] \in responses
  /\ HitsOf(bins, currentBin, pv) # {}
  /\ EndsSearch(pv)
  /\ UNCHANGED <<currentBin, clock, iocs, told>>

\* caPvFound with the guard m_iocs has, connected as far as it knows, or a new
\* one, which connects to whatever IOC is there now.
Found(pv, ioc) ==
  /\ ResponseRead(pv, ioc)
  /\ bins' = RemovePV(EraseHit(bins, currentBin, pv), pv)
  /\ link' = [link EXCEPT ![ioc] = IF @ # "none" THEN @
                                  ELSE IF ioc \in running THEN "up" ELSE "broken"]
  /\ cache' = [cache EXCEPT ![pv] = ioc]
  /\ late' = IF home[pv] = ioc THEN late \ {pv} ELSE late \cup {pv}

\* caPvFound when the guard cannot be set up.
FoundButUnguarded(pv, ioc) ==
  /\ ResponseRead(pv, ioc)
  /\ link[ioc] = "none"
  /\ bins' = EraseHit(bins, currentBin, pv)
  /\ UNCHANGED <<link, cache, late>>

\* A response is lost, or read when no bin that is scanned has its search.
ResponseLost(r) ==
  /\ responses' = responses \ {r}
  /\ UNCHANGED <<search, clock, sent, iocs, known>>

\* Bug: the PVs of the IOC stay in the cache.
KeepCache(ioc) == cache

\* iocDisconnected: no PV is answered from the cache by this guard any more.
Invalidate(ioc) == [p \in PV |-> IF cache[p] = ioc THEN None ELSE cache[p]]

GuardCloses(ioc) ==
  /\ link[ioc] = "broken"
  /\ link' = [link EXCEPT ![ioc] = "none"]
  /\ cache' = Invalidate(ioc)
  /\ late' = {p \in late : cache[p] # ioc}
  /\ UNCHANGED <<search, clock, network, iocs, told>>

-----------------------------------------------------------------------------
\* ConnectionsManager::run ends with processOutgoing, Dispatcher::run with the
\* purge, if it is due.
Iterate ==
  LET asked == {e.pvname : e \in ToSet(bins[currentBin])}
      after == AfterRound(bins, currentBin)
  IN  /\ sent' = asked
      /\ UNCHANGED responses
      /\ iterated' = TRUE
      /\ IF sincePurge < PurgePeriod
         THEN /\ bins' = after
              /\ currentBin' = NextSlot(currentBin)
              /\ UNCHANGED <<sincePurge, lost>>
         ELSE /\ \E kept \in {Survivors(after)} : bins' = Deal(kept, NBins, SmallPacket)
              /\ currentBin' = 0
              /\ sincePurge' = 0
              /\ lost' = 0
      /\ UNCHANGED <<iocs, known>>

ServerTick ==
  /\ TimePasses
  /\ bins' = MapEntries(bins,
               LAMBDA e : [e EXCEPT !.idle = Min({@ + 1, PurgePeriod})])
  /\ UNCHANGED <<currentBin, network, iocs, known>>

\* An IOC comes up with PVs no other IOC hosts, or with others than Hosted.
IocStarts(ioc, pvs) ==
  /\ ioc \notin running
  /\ \A p \in pvs : home[p] = None
  /\ running' = running \cup {ioc}
  /\ home' = [p \in Hosted |-> IF p \in pvs THEN ioc ELSE home[p]]
  /\ UNCHANGED <<search, clock, network, known>>

\* An IOC goes, and its end of the guard's connection with it.
IocStops(ioc) ==
  /\ ioc \in running
  /\ running' = running \ {ioc}
  /\ home' = [p \in Hosted |-> IF home[p] = ioc THEN None ELSE home[p]]
  /\ link' = [link EXCEPT ![ioc] = IF @ = "up" THEN "broken" ELSE @]
  /\ UNCHANGED <<search, clock, network, cache, late, told>>

\* The IOC that hosts the PV responds to a request of the last round.
IocResponds(pv) ==
  /\ pv \in sent
  /\ home[pv] # None
  /\ responses' = responses \cup {[pvname |-> pv, ioc |-> home[pv]]}
  /\ UNCHANGED <<search, clock, sent, iocs, known>>

ServerNext ==
  \/ \E p \in PV : ClientAsks(p)
  \/ \E p \in Hosted, i \in Ioc : Found(p, i) \/ FoundButUnguarded(p, i)
  \/ Iterate
  \/ ServerTick
  \/ \E i \in Ioc : GuardCloses(i) \/ IocStops(i)
  \/ \E i \in Ioc : \E pvs \in SUBSET Hosted : IocStarts(i, pvs)
  \/ \E p \in Hosted : IocResponds(p)
  \/ \E r \in responses : ResponseLost(r)

ServerSpec == ServerInit /\ [][ServerNext]_serverVars

\* The request is of the last round, and the scan would find its search.
Prompt(pv) == pv \in sent /\ HitsOf(bins, currentBin, pv) # {}

FoundAtHome(pv) == home[pv] # None /\ Found(pv, home[pv])

\* The loop runs for ever and poll() returns after 0.1s at the latest, a guard
\* whose IOC has gone notices, clients ask again, and not every response is late
\* or lost.
FairServerSpec ==
  /\ ServerSpec
  /\ WF_serverVars(Iterate) /\ WF_serverVars(ServerTick)
  /\ \A i \in Ioc : WF_serverVars(GuardCloses(i))
  /\ \A p \in PV : WF_serverVars(ClientAsks(p))
  /\ \A p \in Hosted : /\ SF_serverVars(Prompt(p) /\ IocResponds(p))
                      /\ SF_serverVars(Prompt(p) /\ FoundAtHome(p))

-----------------------------------------------------------------------------
\* The PV is answered with an IOC that has not got it, and no guard will tell.
Misled(pv) ==
  /\ cache[pv] # None
  /\ link[cache[pv]] = "up" /\ home[pv] # cache[pv]

\* A client that keeps asking is told where the PV is, wherever it was before,
\* once the PV stays at one IOC ("recognize new IOCs dynamically", README):
\* through purges, stalls, lost and late responses, guards that fail and guards
\* that still watch the IOC's predecessor.  Only a server misled for ever never
\* gets there, by a response read too late.  Needs fewer PVs than bins: with more, a purge
\* deals one into the last bin, where every prompt response is overlooked.  And
\* needs MaxStall < PurgePeriod - 1: else the iteration that first asks for a PV
\* may purge it too, every time.
FoundInTheEnd ==
  \A p \in Hosted, i \in Ioc :
     <>[](home[p] = i) /\ []<>~Misled(p) => <>[](told[p] = i)

\* A client is led to an IOC that has not the PV only as long as the guard has
\* not noticed that the IOC went, or if the response was read after the IOC
\* had given up the PV; no restart of the IOC, and no other PV found there
\* since, keeps the guard from it.
MisledOnlyUnnoticed ==
  \A p \in Hosted : cache[p] # None =>
     \/ link[cache[p]] = "up" /\ (home[p] = cache[p] \/ p \in late)
     \/ link[cache[p]] = "broken"

\* The scan of processIncoming overlooks a PV only in the last bin, and only
\* while bin 0 is current.
ScanMissesOnlyLastBin ==
  \A e \in Entries(bins) :
     HitsOf(bins, currentBin, e.chanId) = {} =>
       currentBin = 0 /\ e \in ToSet(bins[NBins - 1])
=============================================================================
