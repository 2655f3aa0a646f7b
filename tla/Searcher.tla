------------------------------ MODULE Searcher ------------------------------
(***************************************************************************)
(* One Searcher and the part of the main loop that drives it: the methods  *)
(* of searcher.cpp as actions, the loop that calls processOutgoing once an *)
(* iteration and then checks whether a purge is due, and the clock.        *)
(*                                                                         *)
(* The program is one thread.  In each iteration of main's loop the        *)
(* handlers of the sockets with input run first, in any number and order   *)
(* as far as this searcher can tell (phase "io": AddPV and RemovePV called *)
(* by the Dispatcher, ProcessIncoming), then ProcessOutgoing, then the     *)
(* rest of Dispatcher::run (phase "purge").  poll() sleeps at most 0.1s,   *)
(* so an iteration ends once a tick, more often if input makes poll()      *)
(* return early, and less often if handlers take time: a log message with  *)
(* the name of a host blocks on the DNS for seconds (DnsCache).            *)
(***************************************************************************)
EXTENDS SearchTable

CONSTANTS
  ChanIds,      \* number of values of m_chanId: 2^32 in the code
  MaxSearches   \* bound of the model on the ids handed out; none if >= ChanIds

ASSUME SearcherAssumption == ChanIds \in Nat \ {0} /\ MaxSearches \in Nat

VARIABLES
  chanId,       \* m_chanId
  warm,         \* 99 ms have passed since m_lastSearch, which only the
                \* constructor sets
  phase,        \* where the main loop is: "io" or "purge"
  requests,     \* observer: the requests sent so far; an IOC may answer any
                \* of them, at any time and any number of times
  waited,       \* observer: rounds since the PV was last asked for
  promised,     \* observer: the interval the PV was promised then, 0 if none
  wanted        \* observer: has a client asked for the PV since the last purge?
                \* "no", "then" (in the very tick of that purge), "early"
                \* (within MaxStall ticks after it), or "yes"

table == <<bins, currentBin, chanId>>
loop  == <<warm, phase, sincePurge, iterated, lost>>
seen  == <<requests, waited, promised, wanted>>
vars  == <<table, loop, seen>>

MaxIdle == PurgePeriod + PurgeLimit
MaxWait == 2 * NBins

ChanId == 0 .. ChanIds - 1
Request == [pvname: PV, chanId: ChanId]

TypeOK ==
  /\ bins \in [Bin -> Seq(SearchedPV(ChanId, 0 .. MaxIdle))]
  /\ currentBin \in Bin
  /\ chanId \in ChanId
  /\ warm \in BOOLEAN
  /\ phase \in {"io", "purge"}
  /\ sincePurge \in 0 .. PurgeLimit
  /\ iterated \in BOOLEAN
  /\ lost \in 0 .. MaxStall
  /\ requests \in SUBSET Request
  /\ waited \in [PV -> 0 .. MaxWait]
  /\ promised \in [PV -> Nat]
  /\ wanted \in [PV -> {"no", "then", "early", "yes"}]

Init ==
  /\ bins = EmptyBins
  /\ currentBin = 0
  /\ chanId = 0
  /\ warm = FALSE
  /\ phase = "io"
  /\ sincePurge = 0
  /\ iterated = FALSE
  /\ lost = 0
  /\ requests = {}
  /\ waited = [p \in PV |-> 0]
  /\ promised = [p \in PV |-> 0]
  /\ wanted = [p \in PV |-> "no"]

\* The observers of a PV start afresh when it leaves the table.
Forget(pvs) ==
  /\ waited' = [p \in PV |-> IF p \in pvs THEN 0 ELSE waited[p]]
  /\ promised' = [p \in PV |-> IF p \in pvs THEN 0 ELSE promised[p]]
  /\ wanted' = [p \in PV |-> IF p \in pvs THEN "no" ELSE wanted[p]]

-----------------------------------------------------------------------------
NextChanId(id) == (id + 1) % ChanIds

\* A client asks for a PV that is not in the Dispatcher's cache.
AddPV(pv) ==
  /\ phase = "io"
  /\ \/ /\ pv \in Searched(bins)
        /\ bins' = Touch(bins, pv)
        /\ UNCHANGED chanId
     \/ /\ pv \notin Searched(bins)
        /\ chanId < MaxSearches
        /\ bins' = Insert(bins, currentBin, pv, chanId)
        /\ chanId' = NextChanId(chanId)
  /\ wanted' = [wanted EXCEPT ![pv] = IF sincePurge = 0 THEN "then"
                                      ELSE IF sincePurge <= MaxStall THEN "early"
                                      ELSE "yes"]
  /\ UNCHANGED <<currentBin, loop, requests, waited, promised>>

\* Another searcher found the PV.
DropPV(pv) ==
  /\ phase = "io"
  /\ pv \in Searched(bins)
  /\ bins' = RemovePV(bins, pv)
  /\ Forget({pv})
  /\ UNCHANGED <<currentBin, chanId, loop, requests>>

\* The answer to a request arrives.  The entry with its channel id is erased
\* before the Dispatcher is told, and the Dispatcher then has every searcher
\* remove the PV, unless it failed to set up the guard of the IOC
\* (registered = FALSE).  An answer that no bin scanned matches is dropped.
ProcessIncoming(r) ==
  /\ phase = "io"
  /\ HitsOf(bins, currentBin, r.chanId) # {}
  /\ LET pv   == HitEntry(bins, currentBin, r.chanId).pvname
         rest == EraseHit(bins, currentBin, r.chanId)
     IN  /\ \E registered \in BOOLEAN :
              bins' = IF registered THEN RemovePV(rest, pv) ELSE rest
         /\ Forget({pv})
  /\ UNCHANGED <<currentBin, chanId, loop, requests>>

ProcessOutgoing ==
  /\ phase = "io"
  /\ phase' = "purge"
  /\ IF warm
     THEN LET due == ToSet(bins[currentBin])
              asked == {e.pvname : e \in due}
          IN  /\ bins' = AfterRound(bins, currentBin)
              /\ currentBin' = NextSlot(currentBin)
              /\ requests' = requests \cup
                   {[pvname |-> e.pvname, chanId |-> e.chanId] : e \in due}
              /\ waited' = [p \in PV |->
                   IF p \in Searched(bins) \ asked
                   THEN Min({waited[p] + 1, MaxWait}) ELSE 0]
              /\ promised' = [p \in PV |->
                   IF p \in asked
                   THEN Intervals[(CHOOSE e \in due : e.pvname = p).next]
                   ELSE promised[p]]
     ELSE UNCHANGED <<bins, currentBin, requests, waited, promised>>
  /\ UNCHANGED <<chanId, warm, sincePurge, iterated, lost, wanted>>

\* The end of Dispatcher::run: purgePVs if the delay has passed.  Dealing the
\* PVs to new bins breaks every promise about the next request.
PurgePVs ==
  LET kept == Survivors(bins)
  IN  /\ sincePurge >= PurgePeriod
      /\ bins' = Deal(kept, NBins, SmallPacket)
      /\ currentBin' = 0
      /\ sincePurge' = 0
      /\ lost' = 0
      /\ waited' = [p \in PV |->
           IF \E e \in ToSet(kept) : e.pvname = p THEN waited[p] ELSE 0]
      /\ promised' = [p \in PV |-> 0]
      /\ wanted' = [p \in PV |-> "no"]

FinishRun ==
  /\ phase = "purge"
  /\ phase' = "io"
  /\ iterated' = TRUE
  /\ \/ PurgePVs
     \/ /\ sincePurge < PurgePeriod
        /\ UNCHANGED <<bins, currentBin, sincePurge, lost, waited, promised, wanted>>
  /\ UNCHANGED <<chanId, warm, requests>>

\* 0.1s pass.  Ages stop at their bounds, which no comparison looks beyond.
Tick ==
  /\ TimePasses
  /\ warm' = TRUE
  /\ bins' = MapEntries(bins,
               LAMBDA e : [e EXCEPT !.idle = Min({@ + 1, MaxIdle})])
  /\ UNCHANGED <<currentBin, chanId, phase, seen>>

Next ==
  \/ \E p \in PV : AddPV(p) \/ DropPV(p)
  \/ \E r \in requests : ProcessIncoming(r)
  \/ ProcessOutgoing
  \/ FinishRun
  \/ Tick

Spec == Init /\ [][Next]_vars

-----------------------------------------------------------------------------
\* What the table promises.

\* addPV looks through every bin before it inserts: no PV is ever listed
\* twice, whatever moves, purges and removals happened in between.  A second
\* entry would outlive removePV, which stops at the first.
NoDuplicates ==
  \A b, c \in Bin : \A i \in DOMAIN bins[b], j \in DOMAIN bins[c] :
     bins[b][i].pvname = bins[c][j].pvname => b = c /\ i = j

\* Between purges the backoff is exact: a PV sits in the bin that the ring
\* reaches after the rounds that remain of the interval it was promised.
OnSchedule ==
  \A b \in Bin : \A e \in ToSet(bins[b]) :
     promised[e.pvname] # 0 =>
       (b + NBins - currentBin) % NBins = promised[e.pvname] - waited[e.pvname] - 1

\* Purges deal the PVs anew and start the ring over, and still no PV waits
\* for more than two turns of the ring.  Needs PurgePeriod >= NBins + MaxStall,
\* as the ring does not catch up with what a stall made it miss; with few PVs,
\* the bins that a purge deals them to in place of NBins.
BoundedWait ==
  \A p \in Searched(bins) : waited[p] < MaxWait

\* A search no client cares for ends: its age stays below two purge periods
\* and what the second purge is late by.
NoForgottenSearch ==
  \A e \in Entries(bins) : e.idle < MaxIdle

\* A purge drops the PVs no client has searched for since the last purge, all
\* of them however late it is, and keeps the others: those asked for in the
\* first MaxStall ticks unless it is late, the rest even then.  A request in the
\* very tick of the last purge may count either way.
PurgeMatchesClients ==
  [][sincePurge' < sincePurge =>
       \A p \in Searched(bins) :
         /\ wanted[p] = "no" => p \notin Searched(bins')
         /\ wanted[p] = "yes" => p \in Searched(bins')
         /\ wanted[p] = "early" /\ sincePurge = PurgePeriod => p \in Searched(bins')]_vars

\* The comment on that scan: "The PV must be in one of the bins".
AnswerFindsItsPV ==
  \A e \in Entries(bins) : HitsOf(bins, currentBin, e.chanId) # {}

=============================================================================
