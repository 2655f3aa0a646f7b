# PVmapper in TLA+

PVmapper is a name server for EPICS Channel Access. Clients broadcast the names
of process variables (PVs) they look for; the server tells them which IOC hosts
a PV if it knows, and searches for the PV on behalf of all clients if it does
not. The program is one thread around `poll()`: no locks, but callbacks between
objects with their own clocks, sockets that come and go, and peers that answer
late, twice or never. This directory has TLA+ modules for the parts in which
that is hard to get right, TLC configurations that check them, and TLAPS proofs
of the properties that matter most.

## The system

| component | state | operations | called by |
|---|---|---|---|
| `Dispatcher` | `m_connectedPVs` (PV -> guard, response), `m_iocs` (address -> guard), `m_lastPurge` | `caPvSearched`, `caPvFound`, `iocDisconnected`, `run` | Listener, Searcher, IocGuard, `main` |
| `Searcher` | `m_searchedPvs` (ring of bins, one per 0.1 s of the last interval), `m_currentBin`, `m_chanId`, `m_lastSearch` | `addPV`, `removePV`, `processIncoming`, `processOutgoing`, `purgePVs` | Dispatcher, ConnectionsManager |
| `IocGuard` | `m_sock`, `m_connected`, `m_initialized`, three time stamps | constructor, `processIncoming`, `processOutgoing` | Dispatcher, ConnectionsManager |
| `ConnectionsManager` | `m_connections` | `add`, `run` (`remove` is called by nothing) | Dispatcher |
| `Listener` | socket, access rules | `processIncoming`, `checkAccessControl` | ConnectionsManager |
| `ChannelAccess` | none | packing of search requests, parsing of requests and responses | Searcher, Listener, IocGuard |
| `Config` | the settings | `parseFile` | `main` |
| `DnsCache` | names with their expiry | `resolveIP` (blocks) | log messages everywhere |
| `Log`, `main` | log level | the loop, two signal handlers | |

One iteration of the loop (`Dispatcher::run`) is: `poll()` on the sockets of all
connections for at most 0.1 s; `processIncoming` of those that were readable;
`processOutgoing` of all, dropping those that closed their socket; and a purge of
the searches if `PURGE_DELAY` has passed. A client's request goes Listener ->
`caPvSearched` -> `addPV` of every Searcher. A response goes Searcher ->
`caPvFound` -> a new IocGuard if the IOC has none -> `removePV` of every Searcher.
A lost IOC goes IocGuard -> `iocDisconnected`.

What is hard:

* answers are matched by channel id only, against a table that purges, moves and
  repeated requests rearrange all the time;
* three things end independently of each other (a guard, its entry in `m_iocs`,
  the cache entries that point to it), and are matched by address or by a flag;
* results of `poll()` are given out by index while handlers add connections and
  close descriptors, which the kernel gives out again at once;
* timers of one-second resolution are compared across objects (purge and age of
  a search, heart-beat and answer), and log messages may block the thread on DNS
  for seconds: between reading a socket and judging its silence, and while purges
  and rounds of searches are due;
* a response waits in a socket's buffer while its IOC stops, moves, or comes back
  without the PV;
* index arithmetic in unsigned types, at both ends of the ring;
* IOCs that restart and move while the server still believes the old state, and
  a client that must be told the new one in the end;
* a start that half succeeds, and signal handlers that interrupt each other.

Each is a hazard in `PROJECT.json`, at its line, with the properties that cover it.

## The modules

| module | models | abstracts |
|---|---|---|
| `Dealing` | what the loops over lists take from them (`Select`, `SubSeqAt`: those of `purgePVs`, `processOutgoing`, the parsers and `Listener`), and the balancing of a purge as one expression (`Deal`) | a list with erasures and splices to the sequence that is left |
| `SearchBins` | the ring as a value, and what each method of `Searcher` does to it | names to members of `PV`, time stamps to ages in ticks of 0.1 s, a vector of remaining intervals to the index of its front |
| `SearchTable` | the state `Searcher` and `NameServer` share: the ring, and the clock of its purges, which runs on while an iteration stalls | time to ticks of 0.1 s, the stalls of a purge period to the ticks in which no iteration ended |
| `Searcher` | one Searcher with the loop and the clock around it | the Dispatcher to its calls of `addPV` and `removePV`; the packets of a round to one step |
| `PurgeBalance` | the balancing loop of `purgePVs`, one action per iteration | PVs to their numbers |
| `IocGuard` | one guard, the loop as far as it calls it, its IOC and the network | time to seconds, the two heart-beat time stamps to their order (`answered`) |
| `Dispatcher` | the Dispatcher with all its searchers and guards | a callback with the part of the handler that makes it is one step; ring and ages to a choice of what is answered and what is purged |
| `NameService` | what the server promises, without how | everything but who claimed a PV, where it resolves, and what a client was told |
| `ConnectionsManager` | `ConnectionsManager::run` with the kernel's descriptors, one action per call of a handler | the handlers to what they do to the vector and the descriptors |
| `ChannelAccess` | packing of search requests, parsing and rewriting of requests and responses | a datagram to the sequence of its messages, a name to its length; messages cut off in the middle |
| `Listener` | access rules, field removal and the replies for one datagram | a name to what its dots separate, a rule to the set it matches |
| `SearchExchange` | client, server and IOCs over UDP: ids and addresses translated there and back | one Searcher; timing (which PVs are due is a choice); guards to the address they watch |
| `NameServer` | the server as a whole: a client that asks again, one Searcher's ring with its purges and stalls, responses that are late or lost, cache and guards, IOCs that stop, restart, move, and come back without the PV | a search to its PV (ids are unique: `Dispatcher`), a guard to whether it is there and right (`IocGuard`), an iteration to one step |
| `Config` | what each line of the configuration does to the settings | the text of a line to its keyword and value |
| `DnsCache` | the cache of names and the time its look-ups take | a name to the time its entry has left |
| `Process` | `main`: the file, the log level, the Dispatcher's constructor, the two signal handlers, and the names a log message waits for | the loop's work for clients |
| `DispatcherProofs`, `IocGuardProofs`, `ConnectionsManagerProofs`, `SearcherProofs`, `PurgeBalanceProofs`, `SearchExchangeProofs`, `ProcessProofs` | the theorems about the module of that name, and their proofs; at the end of `SearcherProofs`, those about `NameServer`, which has the same table | |
| `SequenceLemmas` | lemmas about the operators on sequences and numbers that the modules are built from | |
| `MC...` | the instances for TLC | |

`Searcher` extends `SearchTable`, which extends `SearchBins`, which extends `Dealing`; `PurgeBalance` extends
`Dealing` too and compares its loop with the expression `Deal` that `Searcher`'s
purge is built on, so that the big state machine may use the short form. `Dispatcher` instantiates `NameService`
with a refinement mapping: a PV is resolved if it is cached and its guard is
open. `ConnectionsManager` shows what `IocGuard` and `Dispatcher` take from the
loop: a guard made in an iteration is served in it (the initial state of
`IocGuard`), and a closed one leaves the list at the end of it. `SearchExchange`
extends `Listener`, which extends `ChannelAccess`, which extends `Dealing`: none of them
has state, as in the code, and they are the operators the exchange of datagrams is made
of. They select with `Select`, by the positions of what is selected, and not with
`SelectSeq`, which is the same but gives the provers no definition to unfold. `SearchExchange`
takes from `Searcher` that a round is a choice of searches in the ring's order,
and shows what `Searcher` takes for granted, that a round is sent whole.
`NameServer` extends `SearchTable`, so that it has the same ring as `Searcher` and the lemmas
about it serve both, and rests on what the modules of the other parts show. `Process` extends `Config` and
`DnsCache`; the settings it ends with are the constants of the other modules.

Names are those of the source where TLA+ allows. Variables that are not state of
the program are marked "observer". Definitions that begin with "Bug:" in their
comment are not part of a model: each is the form a definition would take with a
plausible mistake, which the property named with it in `PROJECT.json` notices.

### State and actions

* `Searcher`: `AddPV` is `addPV` with both its branches (refresh or insert),
  `DropPV` the call of `removePV` for a PV another searcher found,
  `ProcessIncoming` the scan, the erasure and `caPvFound` with its two ends,
  `ProcessOutgoing` the time test and the round, `FinishRun` the end of
  `Dispatcher::run` with the purge. The scan keeps the wrap-around of
  `m_currentBin+i-1` in 64 bits (`SizeMaxMod`). Answers are drawn from all requests
  ever sent: lost, late, repeated and reordered ones are all there. `Tick` is the
  clock, at any point of an iteration (`TimePasses`): `poll()` takes a tick, and handlers that
  take longer lose some, up to `MaxStall` between two purges, in which neither
  the ring nor the purge gets on. `m_lastPurge` is set when the purge runs, however late.
* `IocGuard`: `Poll`, `ProcessIncoming` and `ProcessOutgoing` are the three calls of
  an iteration; `AwaitConnection` and `Heartbeat` split `processOutgoing` where
  `checkConnection` does. The peer is external: it is `connecting`, `up`, `silent`
  or `closed`, and data may arrive whenever it is up and has cause to send.
* `Dispatcher`: `AnswerFromCache` and `StartSearch` are the two ends of
  `caPvSearched`; `FoundOnKnownIoc`, `FoundOnNewIoc` and `GuardFails` the three of
  `caPvFound`, within the `ProcessIncoming` of a searcher; `GuardCloses` is a guard's
  `close()` with `iocDisconnected`; `EraseClosed` and `Purge` are the loop's.
  A response (`Reply`) names a channel id; the PV it is about is an observer's
  knowledge and is never used by an action.
* `ConnectionsManager`: `Poll` takes the snapshot, `HandleIncoming`, `SkipIncoming`
  and `AddGuard` are the first pass, `HandleOutgoing` with `EraseOrStep` the second.
* `SearchExchange`: `ClientAsks` is `Listener::processIncoming` for one datagram with
  the call of `caPvSearched` for each of its channels; `BeginRound` and `SendPacket`
  are the two loops of `Searcher::processOutgoing`; `Receive` is one turn of
  `Searcher::processIncoming`, with the datagram possibly coming again; `LoseIoc` is
  `iocDisconnected`. IOCs and the network are external:
  `PeerResponds` answers any packet of the last round, `Drop` loses a response.
* `NameServer`: `ClientAsks` is `caPvSearched` in its three ends, `Found` and
  `FoundButUnguarded` are `processIncoming` (`ResponseRead`) with `caPvFound`, `GuardCloses` is
  `iocDisconnected` and the invalidation of cache entries that share the guard,
  `Iterate` is `Dispatcher::run` with the purge, `ServerTick` the clock with its stalls. A guard is
  `none`, `up`, or `broken`: its IOC has gone and it has not noticed. An IOC may come back at the same
  address while the old guard is broken, with or without the PV, and a PV found there
  is given that guard, as in `caPvFound`. Responses are state of the network:
  `IocResponds` sends one from the IOC that hosts the PV then, and it is read at any time
  after (`Found`), or lost (`ResponseLost`). The datagram has only the address in it, so
  a guard made from one that is late connects to what is there now. The observer `late`
  holds the PVs cached in this way. Responses to an earlier search for the PV are left out:
  their channel id is in no entry any more (`Dispatcher`, `Searcher`).
* `Process`: `ParseLine`, `ParseThrows` and `EndOfFile` are `parseFile` and
  `Log::init`; `AddListener`, `AddSearcher`, `SocketException` and `EndOfLoop` the
  constructor of `Dispatcher`, in the code's order; `SignalArrives` and
  `HandlerReturns` the first and the last step of a handler, between which the other
  may run; `Resolve` is `resolveIP` when it misses, `SecondPasses` the clock.
  `KilledBySignal` and `Crash` are the two ends the code does not intend.

## The runs

| run | bounds | shows |
|---|---|---|
| `searcher_schedule` | 2 PVs, 2 slots a second, intervals 1 s and 2 s (ring of 4), purge period 4 ticks of which 2 may be lost, 2 ids | `NoDuplicates`, `OnSchedule`, `BoundedWait`, `NoForgottenSearch`, `PurgeMatchesClients` |
| `purge_loop` | rings of 3 to 30 bins, up to 250 PVs, the code's packet of 10 | `DealsAsStated`, `NothingLost`, `NoBinOverloaded` |
| `guard` | the code's limits (5 s, 10 s), stalls up to 2 s | `ToldOnce`, `DetectsInTime`, `NoFalseDisconnect`, `NeverStuck` |
| `dispatcher` | 2 PVs, 2 IOCs, 2 searchers, 3 guards, 3 ids, 4 responses | the consistency of cache, guards and searches; `NoDeadEnd`; the refinement `IsNameService` |
| `connections` | 1 listener, 2 searchers, 3 guards | `ReportsReachTheirOwners`, `EveryoneServedOnce`, `OnlyOpenPolled` |
| `exchange` | 4 PVs (one denied), 2 IOCs on one host, 2 clients (one denied), 4 datagrams, 3 ids, 2 responses under way, the code's 1000 bytes | `RoundIsSent`, `PacketsAreSmall`, `GuardedWhereHosted`, `RepliesLeadHome`, `DeniedLeaveNoTrace` |
| `name_server` | 1 PV, 2 IOCs, ring of 3, purge period 3 ticks of which 1 may be lost | `MisledOnlyUnnoticed`, `ScanMissesOnlyLastBin`, and `FoundInTheEnd` under `FairServerSpec` |
| `process` | every file of up to 2 of 17 kinds of lines and three longer ones, 2 signals, one address to look up, lifetimes 1 to 4 and stalls of 1 in hundreds of seconds, 1024 for 2^32 | `SettingsUsable`, `ServedOrReported`, `AtLeastConfigured`, `NamesAreRecent`, `StallsOncePerTtl` |
| `lastbin`, `rate`, `uneven` | the code's constants, ring of 10 | the disagreements below |
| `listens` | as `process` | the last disagreement below |

Why the bounds are enough. `searcher_schedule`: the purge period equals one turn
of the ring, so that purges hit every state of the backoff, and half of it may be
lost to stalls. What is left reaches just the two bins that a purge deals two PVs
to, the hardest ratio for which `BoundedWait` holds: with one tick more to lose TLC finds
a PV that is never reached. Ids are not reused in
any run: `ChanIds` is larger than the number of searches, as 2^32 is in practice.
`guard` has no bound but the stall: all clocks stop just past the limits they
are compared with. `dispatcher`: two of everything give every conflict of two;
the third guard is the second life of an IOC whose first guard died. `connections`:
two searchers let a guard be made after another was closed in the same pass, and
take over its descriptor. `exchange`: two names of nearly 500 bytes fill a packet, so
that rounds of three PVs take two; two IOCs on one host differ in the port alone,
which is what a response is read for; a client's ids collide with the server's and with
another client's; and the two rule groups have rules that overlap. `name_server`: two
IOCs let a PV move away and back while either guard is still broken and a response of
either is still under way; and
three bins, which do not divide 2^64, have the overlooked last bin that a ring of four
has not. `process`: two lines are enough for a
bad one to undo a good one, the longer files have a listener that overlaps another, two of
each kind, and an interval of 0; and the longest lifetime is longer than the shortest by more than a stall.

Fairness. `IocGuard` and `NameServer` assume weak fairness of the loop's steps:
`main` calls `Dispatcher::run` for ever, no handler waits for a peer without a limit, and
`poll()` returns after 0.1 s. In `IocGuard` a tick is possible at `poll()` only, and
each iteration disables and enables it again, so that strong fairness is needed
to say that time passes: no number of iterations fits into a second for ever; nothing
is assumed there of an IOC or of the network. `FairServerSpec` of `NameServer` assumes weak
fairness of `Iterate` and of `ServerTick`, which is enabled until taken once an iteration has ended; of
`GuardCloses`, because a guard whose IOC has gone notices (`DetectsInTime`); of
`ClientAsks`, because Channel Access clients repeat a search until it is answered; and strong
fairness of a response that is `Prompt`, sent and read before the next round: an IOC whose PV
is asked for again and again is not too late every time. Without it every response may be lost or
late, and nothing is found. Nothing keeps other responses from being read too late.

What `NameServer` takes for granted beyond the fairness: a late response
can leave the server with a guard on an IOC that has not got the PV and stays up. The code
cannot tell, so that `FoundInTheEnd` speaks of a PV only if the server is
not misled about it for ever, and `MisledOnlyUnnoticed` excepts the PVs in `late`. There
are fewer PVs than bins: with more, a
purge deals PVs into the last bin, where an answer that comes at once is overlooked
(`lastbin`), and `FoundInTheEnd` fails. And stalls leave two ticks of each purge period
(`MaxStall < PurgePeriod - 1`): else the iteration that first asks for a PV may be the one
that purges it, every time.

Deadlock is checked where the loop can always go on. `IocGuard`,
`PurgeBalance` and `Process` end: a guard that is erased, a loop that has run, and
a process that is killed.

## Disagreements with the source's comments

* `lastbin`: the scan for the PV of an answer ("The PV must be in one of the
  bins", searcher.cpp:129) never looks into the last bin while bin 0 is current.
  `ScanMissesOnlyLastBin` shows that this is the only case. It is checked on a
  ring of 3 bins: one of 4, which divides 2^64, does not have even that.
* `rate`: `m_lastSearch` is never updated, so that 10 Hz (searcher.cpp:155) are
  exceeded whenever input wakes the loop.
* `uneven`: with a share of 2 to 8 PVs per bin the bins between packets are too
  many, and the last bin gets the rest (searcher.cpp:224): with the default ring
  of 3000 bins and 15000 PVs, 9000 of them in one bin.
* `listens`: "It listens only on the explicitly configured IP address and port"
  (README.md:80): an address without a port is dropped without a message, and
  if no address is left the program listens on all interfaces (config.cpp:135).

Two more are the exceptions that properties of passing runs make. A purge drops what is older
than `PURGE_DELAY`, which is what "no client has searched for since last purge" (sample.cfg:30)
only if the purge is not late: if a handler that waited for the DNS has put it off, PVs that
a client asked for soon after the last purge are dropped too (searcher.cpp:209), and
`PurgeMatchesClients` shows that no others are. And a guard "ensures that the system doesn't
advertise PVs for an IOC that has gone offline" (iocguard.hpp:21) by watching a connection: if
the response is read after its IOC came back without the PV (searcher.cpp:127), the
connection is good, and the clients are misled until that IOC stops; `MisledOnlyUnnoticed`
shows that this is the only way.

Found while modelling, and documented by no run: with `PURGE_DELAY` shorter than
the last of `SEARCH_INTERVALS`, PVs in bins the ring does not reach before it is
started over, or not in spite of stalls, may never be asked for (`BoundedWait`
needs `PurgePeriod >= NBins + MaxStall`, or few PVs); intervals that are not in ascending order alias modulo
the ring; the second search goes out 0.1 s after the first, not the 1 s of
`README.md`, because two short intervals are put before the configured ones
(`Intervals`); an answer whose guard cannot be set up ends its search on one
searcher until a client asks again (`GuardFails`, `NoDeadEnd`); `parseIocAddr` is said
to extract "the IOC address from a successful Search response" (proto_ca.hpp:63), but takes
the sender's IP address in any case (proto_ca.cpp:188), which is the wrong one if another
name server answers in an IOC's place; `parseFile` "throws exceptions on parsing
errors" (config.hpp:86) only for a bad regular expression, which nobody catches, and
writes to stderr or says nothing about the rest, and a file that cannot be read is
an empty one; a listener that fails leaves a server that runs without any searcher
(`ServedOrReported` is what is left of it); a last interval of 0 is accepted and crashes the
first round (`Crash`); and a signal to change the log level ends a process
that is still starting (`KilledBySignal`).

## What is proved

For every value of the constants, by TLAPS:

* `DispatcherProofs`, from `DispatcherAssumption` (the special values are not
  members): `TypeCorrect`; `GuardsConsistent` and `NoStrayGuard`; `IdsUnique`;
  `CacheConsistent`, `WatchedIocIsTold` and `OnlyClaimedHomes`; `Implements`;
  `AskingSearches`. The argument is a chain: types; then
  `IocsAreOpenGuards` with `OpenGuardsAreRun`, which is inductive only as a pair,
  because `iocDisconnected` erases by address and must be known to hit the
  guard that called it; then `IdsAreFresh`, the strengthening that makes
  `IdsNameOnePV` inductive (an id not yet handed out is in no search and no
  response); then `CachedOrSearched`, `GuardWatchesResponse` and `Genuine`, which
  need the two before; and with them every step is mapped to one of `NameService`
  or to a stutter: closing a guard to `Lose`, because the guards of an IOC's PVs are
  the guard, and an answer to `Learn`, because a PV that is searched for is not resolved.
* `SearcherProofs`, from `SearchBinsAssumption`, `SearchTableAssumption` and `SearcherAssumption`
  (a tick, a packet and a purge delay are not 0; there is an interval; the ring has more than two
  bins, as a last interval of a second or more gives it; the ticks lost between two purges have
  a limit, `MaxStall`, which may be any): `TypeCorrect`, `EachPVOnce`, `SearchesEnd` and `PurgeDropsTheUnwanted`, from one
  invariant, `TableInv`. Its core are `Unique` (no PV in two places), `PurgeInTime` (a purge that is
  due is late by no more than the ticks lost) and `AgeInv`, which
  ties the age of an entry to the time since the last purge: an entry is younger than that
  exactly if it was asked for after the purge, by more than `MaxStall` ticks if it was asked for
  later than that many ticks after it, and is at most one purge period older.
  So the comparison `purgePVs` makes drops all that no client asked for, and of the others only
  those a late purge finds too old, which were asked for in the first `MaxStall` ticks. For
  each method a lemma says what it does to the whole table (`RemovePVOne`,
  `EraseHitOne`, `RoundTable`, `RedealTable`, `TouchTable`, `InsertTable`): a round is a
  bijection, because every entry of it has one origin and every place in the old table
  one `Route`; a purge is one because the bins dealt, one behind the other, are the
  list collected (`DealFlattens`).
* Two more in `SearcherProofs` say under which hypothesis on the configuration they
  hold, which the code does not check. `BackoffIsExact`: if no interval is longer than
  the last, every PV is as many bins ahead of the ring as rounds are left of its
  interval (`ScheduleInv`); a longer interval is reduced modulo the ring, and the PV
  is asked for too early. `NoneWaitsForLong`: if a purge period is no shorter than a
  turn of the ring and the ticks that stalls may take from it, no PV waits for two turns. Its invariant, `WaitInv`, splits the
  entries into those that will be reached within a turn of the last request, and those
  dealt at a purge to a bin the ring has not come to since; the latter are gone before
  the next purge because the ring is behind the ticks by no more than those lost (`Lead`).
* `PurgeBalanceProofs`, from `PurgeBalanceAssumption` (rings of more than two bins, a
  packet of at least one PV): `NoneLost`, `LoopIsDeal` and `BinsAreBounded`, by an
  invariant that says which bins are filled and which PVs are in hand after each
  iteration (`InTurn`): the k-th portion is the k-th of `Deal`, in the bin with k
  strides before it. So the loop implements the expression that `Searcher` and
  `NameServer` use, for any number of PVs and bins.
* `ConnectionsManagerProofs`, from `ConnectionsManagerAssumption` (finitely many
  connections, descriptors for all of them): `TypeCorrect`; `ReportsDelivered`;
  `AllServed`; `VectorIsOpen`. `VectorOK`, `NoneClosed`, `ReportsOK` and `ServiceOK` say for
  each point of the iteration which prefix of the snapshot has been handled and
  which of the vector served, that a guard is only ever added at the end, and that the
  connections erased are the ones that closed.
* `IocGuardProofs`, from `IocGuardAssumption` and `LimitsAssumption` (the limits are
  naturals, and the connect timeout, 5 s in the code, is no longer than the
  heart-beat interval, 10 s): `TypeCorrectAndToldOnce`, one invariant because the
  number of callbacks is bounded only by it, and `TypeCorrect`; `NoFalseAlarm`;
  `GoneIsNoticed`. `NoFalseAlarm` rests on the invariant `UnreadIsRecent`:
  between the poll and the heart-beat, unread data
  that `poll()` did not report came within the stall of this iteration, so that
  its latency and the stall bound the age of the request. `GoneIsNoticed` rests on
  `DetectionInv`: while the connection is awaited, the time unheard is the time since
  the connect, up to a stall; and once it is up, the time since the last sign
  of life is bounded by the age of the heart-beat under way and the turn before it.
* At the end of `SearcherProofs`, from `NameServerAssumption` and `SearchBinsAssumption`:
  `Trustworthy` and `ScanOverlooksLastBinOnly`. `MisledOnlyUnnoticed`
  is inductive with the types alone: each action that changes a PV's home, a guard
  or a cache entry changes the others so that they still agree; a response read too late is
  noted in `late` for as long as its PV is cached by it, and one read in time, by a guard that
  is still broken, leads to an IOC that will be given up. The other is a fact
  about the index: unless `m_currentBin` is 0, i = 0 .. size - 1 reaches every bin.
* `SearchExchangeProofs`, from `ChannelAccessAssumption` (every name has a length of 1 to
  `LongestName`, and the packet limit is a natural), `ListenerAssumption` and
  `SearchExchangeAssumption` (`NoName` is no PV, rules are lists of rules, each PV has a host,
  datagrams are sequences of channels): `RoundsAreSent`, `PacketsStaySmall`, `GuardsAreWhereHosted`,
  `RepliesAreForTheClient` and `DeniedLeaveNone`, from one invariant, `ExchangeInvariant`. Its
  core is `Known`: an id below `m_chanId` names one PV for ever, however long the packet or
  response that carries it is under way (`KnownStays`: a step hands out ids no one has
  seen). With it `SendingOK` says that every packet is what `createSearchRequest` makes of
  known searches, and is parsed back to them (`PacketIsParsed`); `ResponsesOK`, that every
  datagram under way comes from an IOC and carries only ids whose PV it hosts (`Leads`,
  `DatagramIsParsed`); `CacheOK`, that an entry of the cache watches the PV's own IOC and
  keeps a response of it, and that the PV is not denied (a denied client is the other half of
  `DeniedLeaveNone`, a fact about one step: its datagram starts no search, refreshes none and is
  not answered); `ServedOK`, that what a client was sent is that response under the client's
  own id (`ReplyIsFor`). `PacketsStaySmall` adds that the size of a packet without its last
  search is the offset `createSearchRequest` compares with the limit (`SizeIsOffset`).
* `ProcessProofs`, from `ConfigAssumption`, `DnsCacheAssumption` and `ProcessAssumption`
  (files are sequences of lines, a word has more than 600 values, lifetimes lie below
  `MaxTtl`): `AlwaysAnInterval`, `NothingSilentlyMissing`,
  `NeverLessVerbose`, `NamesRecent` and `StallsSeldom`. Each rests on an invariant
  of its own: `SettingsInv` (every line keeps the types of the settings); `SetupInv` (what
  is set up is the beginning of what was configured, searchers after listeners);
  `LevelInv` (no handler runs before the level is set, and none read a level above
  the configured one, however many there were); `NamesInv` (while an address is looked
  up, the time since is the time the process waits; else what is left of its
  entry and its age add up to at least `MinTtl` and at most `MaxTtl`).

`SequenceLemmas` has what these need of the operators on data: `RemoveAt`, `SetToSeq`,
`FlattenSeq` (unfolded along its own recursive function, with the offsets at which each
part begins, and one part at a time, `FlattenAppends`), `SubSeqAt` (lists the chosen
positions in order, each once), sums by `FoldLeft` (`SumsExist`, `SumGrows`, `SumShifts`),
`CeilDiv` and `Deal`. `FlattenSeq`, `FoldLeft` and `SetToSeq` are defined by recursion or choice, so
the lemmas about them are inductions over an interval of numbers (`UpTo`).

Each inductive invariant was first checked by TLC on the instance of the run, with
the properties it is to prove.

Only model-checked: liveness (`FoundInTheEnd`, `NeverStuck`), which needs
fairness and `ENABLED`, both beyond these provers; and the four disagreements with the
comments, which are counterexamples.

## What is not modelled, and the plan

* Of `ChannelAccess`, messages cut off in the middle of a datagram, and
  `createEchoRequest`, whose message `IocGuard` only counts as sent. Of `Listener`, the
  loop that takes the next datagram.
* The matching of configuration lines by regular expressions, and where the log goes.
  `Config` starts from what an expression captures.
* The queries of `DnsCache`, and the format and the output of log messages.
* What a signal handler does to a message it interrupts: it allocates and calls
  stdio, which is undefined in a handler and has no outcome to model.
* Several searchers in `NameServer`: one ring is what liveness can be checked for; that
  searchers do not disturb each other is checked and proved in `Dispatcher`.
* The unit tests: `catch.hpp` is a third-party framework and the longest file by
  far, and `test_searcher.cpp` tests a function that `Searcher` no longer has.

What is left to model is I/O and text. Every safety property that a run checks is the
statement of a theorem; left to prove are the two liveness properties, for a prover
that knows fairness.
