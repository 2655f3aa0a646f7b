------------------------------ MODULE IocGuard ------------------------------
(***************************************************************************)
(* One IocGuard: the TCP connection by which the server tells whether an   *)
(* IOC is alive, the main loop as far as it calls the guard, and the IOC   *)
(* with the network in between.                                            *)
(*                                                                         *)
(* An iteration of the loop polls (Poll), runs the handlers of the sockets *)
(* that were readable (ProcessIncoming) and then every processOutgoing     *)
(* (ProcessOutgoing); the IOC may act between any two of these.  Time      *)
(* passes while poll() sleeps, 0.1s at most, so that every second sees an  *)
(* iteration; and in between the calls when another handler of the same    *)
(* thread is slow (Stall): the reverse DNS lookups in the arguments of the *)
(* log macros block.                                                       *)
(*                                                                         *)
(* Times are in seconds, as the code truncates them.  m_lastRequest and    *)
(* m_lastResponse are only compared with each other, which tells whether   *)
(* anything was received since the last request (answered).                *)
(***************************************************************************)
EXTENDS Integers, FiniteSetsExt

CONSTANTS
  ConnectTimeout,     \* 5 in the code
  HeartbeatInterval,  \* m_heartbeatInterval, 10 in the code
  MaxStall            \* bound of the model: seconds an iteration may take

ASSUME IocGuardAssumption ==
  /\ ConnectTimeout \in Nat
  /\ HeartbeatInterval \in Nat
  /\ MaxStall \in Nat

\* An IOC that never accepts is given up before one that falls silent.
ASSUME LimitsAssumption == ConnectTimeout <= HeartbeatInterval

VARIABLES
  sock,          \* "open", or "closed" when m_sock = -1
  connected,     \* m_connected
  initialized,   \* m_initialized
  answered,      \* m_lastRequest < m_lastResponse
  sinceStart,    \* seconds since m_started
  sinceRequest,  \* seconds since m_lastRequest
  pc,            \* the next call of the loop: "poll", "in", "out", or "erased"
  readable,      \* POLLIN as poll() reported it
  stalled,       \* seconds the iteration has taken so far
  iterated,      \* has an iteration ended since the last tick?
  link,          \* the connection as the network sees it
  inbox,         \* data received that the guard has not read
  pending,       \* a heart-beat the IOC has not answered
  disconnects,   \* observer: calls of m_disconnectCb
  unheard,       \* observer: seconds since the IOC fell silent
  latency        \* observer: seconds the answer in inbox took

guard == <<sock, connected, initialized, answered, sinceStart, sinceRequest>>
loop  == <<pc, readable, stalled, iterated>>
peer  == <<link, inbox, pending>>
seen  == <<disconnects, unheard, latency>>
vars  == <<guard, loop, peer, seen>>

\* "connecting": no answer to the SYN yet.  "up": established, the IOC runs.
\* "silent": established, but nothing comes through any more: the host is
\* down, or the network is.  "closed": the IOC closed, reset or refused.
Link == {"connecting", "up", "silent", "closed"}

\* The times the code compares with stop counting past their limits.
MaxStart == ConnectTimeout + 1
MaxRequest == HeartbeatInterval + 1

\* The longest a guard may go on trusting an IOC that does not answer: data
\* sent before the silence, read after the first heart-beat and so taken for
\* its answer, then a second heart-beat, and the stalls.
DetectionBound == 2 * (HeartbeatInterval + 1 + MaxStall) + MaxStall
MaxUnheard == DetectionBound + 1

TypeOK ==
  /\ sock \in {"open", "closed"}
  /\ connected \in BOOLEAN /\ initialized \in BOOLEAN /\ answered \in BOOLEAN
  /\ sinceStart \in 0 .. MaxStart
  /\ sinceRequest \in 0 .. MaxRequest
  /\ pc \in {"poll", "in", "out", "erased"}
  /\ readable \in BOOLEAN
  /\ stalled \in 0 .. MaxStall
  /\ iterated \in BOOLEAN
  /\ link \in Link
  /\ inbox \in BOOLEAN /\ pending \in BOOLEAN
  /\ disconnects \in {0, 1}
  /\ unheard \in 0 .. MaxUnheard
  /\ latency \in 0 .. MaxRequest

\* The constructor, called from within processIncoming of a searcher, so that
\* the guard joins the loop at its processOutgoing.  m_lastRequest is the
\* clock's epoch, the boot of the host.  connect() may succeed at once.
Init ==
  /\ sock = "open"
  /\ connected = FALSE /\ initialized = FALSE /\ answered = FALSE
  /\ sinceStart = 0
  /\ sinceRequest \in 0 .. MaxRequest
  /\ pc = "out"
  /\ readable = FALSE
  /\ stalled = 0
  /\ iterated = FALSE
  /\ link \in {"connecting", "up"}
  /\ inbox = FALSE /\ pending = FALSE
  /\ disconnects = 0 /\ unheard = 0 /\ latency = 0

-----------------------------------------------------------------------------
\* The IOC and the network.

Establish ==
  /\ link = "connecting"
  /\ link' = "up"
  /\ unheard' = 0
  /\ UNCHANGED <<guard, loop, inbox, pending, disconnects, latency>>

IocCloses ==
  /\ link # "closed"
  /\ link' = "closed"
  /\ pending' = FALSE
  /\ UNCHANGED <<guard, loop, inbox, seen>>

FallSilent ==
  /\ link = "up"
  /\ link' = "silent"
  /\ UNCHANGED <<guard, loop, inbox, pending, seen>>

\* Once the network is back TCP delivers what was sent meanwhile.
Recover ==
  /\ link = "silent"
  /\ link' = "up"
  /\ unheard' = 0
  /\ UNCHANGED <<guard, loop, inbox, pending, disconnects, latency>>

\* Any data counts as an answer: that to a heart-beat, or whatever else the
\* IOC has to say on a new connection.
IocSends ==
  /\ link = "up"
  /\ inbox' = TRUE
  /\ \/ pending /\ latency' = sinceRequest /\ pending' = FALSE
     \/ ~connected /\ UNCHANGED <<latency, pending>>
  /\ UNCHANGED <<guard, loop, link, disconnects, unheard>>

-----------------------------------------------------------------------------
\* The guard.

\* Bugs: m_sock keeps its value after close(), or nobody is told.
DisconnectStaysOpen ==
  /\ sock' = sock
  /\ disconnects' = disconnects + 1

DisconnectUntold ==
  /\ sock' = "closed"
  /\ disconnects' = disconnects

\* close(), m_sock = -1 and the callback, the end of every failed path.
Disconnect ==
  /\ sock' = "closed"
  /\ disconnects' = disconnects + 1

\* Bug: only an end of the connection is waited for.
HungUp == link = "closed"

Readable == inbox \/ link = "closed"

Poll ==
  /\ pc = "poll"
  /\ pc' = "in"
  /\ readable' = Readable
  /\ UNCHANGED <<guard, stalled, iterated, peer, seen>>

ProcessIncoming ==
  /\ pc = "in"
  /\ pc' = "out"
  /\ \/ /\ ~readable \/ sock = "closed"
        /\ UNCHANGED <<guard, inbox, disconnects>>
     \/ /\ readable /\ sock = "open" /\ inbox      \* recv() > 0
        /\ inbox' = FALSE
        /\ answered' = TRUE
        /\ initialized' = TRUE
        /\ UNCHANGED <<sock, connected, sinceStart, sinceRequest, disconnects>>
     \/ /\ readable /\ sock = "open" /\ ~inbox     \* recv() <= 0
        /\ Disconnect
        /\ UNCHANGED <<connected, initialized, answered, sinceStart, sinceRequest, inbox>>
  /\ UNCHANGED <<readable, stalled, iterated, link, pending, unheard, latency>>

\* Bug: milliseconds taken for seconds.
OverdueInMilliseconds == sinceStart > 1000 * ConnectTimeout

Overdue == sinceStart > ConnectTimeout

\* checkConnection while poll(POLLOUT) reports nothing.
AwaitConnection ==
  /\ ~connected /\ link = "connecting"
  /\ \/ Overdue /\ Disconnect
     \/ ~Overdue /\ UNCHANGED <<sock, disconnects>>
  /\ UNCHANGED <<connected, answered, sinceRequest, pending>>

\* Bug: the response is not asked about.
HeardAnyway == TRUE

\* Was anything received since the last heart-beat?  The new connection counts
\* as an answer, so that the first heart-beat is sent without one.
Heard == answered \/ ~connected

\* The rest of processOutgoing.  send() is sure to succeed only while the
\* connection is established.
Heartbeat ==
  /\ connected \/ link # "connecting"
  /\ connected' = TRUE
  /\ \/ /\ sinceRequest <= HeartbeatInterval
        /\ answered' = Heard
        /\ UNCHANGED <<sock, sinceRequest, pending, disconnects>>
     \/ /\ sinceRequest > HeartbeatInterval
        /\ Heard
        /\ sinceRequest' = 0
        /\ answered' = FALSE
        /\ pending' = (link # "closed")
        /\ UNCHANGED <<sock, disconnects>>
     \/ /\ sinceRequest > HeartbeatInterval
        /\ ~Heard \/ link = "closed"
        /\ Disconnect
        /\ answered' = Heard
        /\ UNCHANGED <<sinceRequest, pending>>

\* The loop erases a guard that is not open after its processOutgoing.
ProcessOutgoing ==
  /\ pc = "out"
  /\ IF sock = "open" THEN AwaitConnection \/ Heartbeat
     ELSE UNCHANGED <<sock, connected, answered, sinceRequest, pending, disconnects>>
  /\ pc' = IF sock' = "open" THEN "poll" ELSE "erased"
  /\ stalled' = 0
  /\ iterated' = TRUE
  /\ UNCHANGED <<initialized, sinceStart, readable, link, inbox, unheard, latency>>

-----------------------------------------------------------------------------
\* A second passes.
Clock ==
  /\ sinceStart' = Min({sinceStart + 1, MaxStart})
  /\ sinceRequest' = Min({sinceRequest + 1, MaxRequest})
  /\ unheard' = IF link = "up" \/ sock = "closed" THEN 0
                ELSE Min({unheard + 1, MaxUnheard})
  /\ UNCHANGED <<sock, connected, initialized, answered, pc, readable, peer,
                 disconnects, latency>>

Tick == pc = "poll" /\ iterated /\ iterated' = FALSE /\ stalled' = 0 /\ Clock

Stall ==
  /\ pc \in {"in", "out"}
  /\ stalled < MaxStall
  /\ stalled' = stalled + 1
  /\ UNCHANGED iterated
  /\ Clock

Next ==
  \/ Establish \/ IocCloses \/ FallSilent \/ Recover \/ IocSends
  \/ Poll \/ ProcessIncoming \/ ProcessOutgoing
  \/ Tick \/ Stall

Spec == Init /\ [][Next]_vars

\* The loop never waits for an IOC, and time passes: no number of iterations
\* fits in a second for ever.
FairSpec ==
  Spec /\ WF_vars(Poll) /\ WF_vars(ProcessIncoming) /\ WF_vars(ProcessOutgoing)
       /\ SF_vars(Tick)

-----------------------------------------------------------------------------
\* Whatever path closes the socket tells the Dispatcher, once: it drops the
\* guard from m_iocs only then, and a second call could drop the guard that
\* replaced this one, which has the same address.
ToldOnce == disconnects = IF sock = "closed" THEN 1 ELSE 0

\* "This ensures that the system doesn't advertise PVs for an IOC that has
\* gone offline" (iocguard.hpp): an IOC that is gone without a word is found
\* out within two heart-beat intervals, one that never accepts the connection
\* by the connect timeout.
DetectsInTime ==
  sock = "open" =>
    /\ unheard <= DetectionBound
    /\ link = "connecting" => unheard <= ConnectTimeout + 1 + MaxStall

\* No live IOC is given up for a missed heart-beat when its answer came in
\* time, by the margin the stalls need, and only waits to be read.
NoFalseDisconnect ==
  [][pc = "out" /\ sock = "open" /\ sock' = "closed" /\ link = "up" =>
       ~(inbox /\ latency + MaxStall <= HeartbeatInterval)]_vars

\* A guard does not stay open on a connection on which nothing comes back.
NeverStuck == link # "up" ~> link = "up" \/ sock = "closed"
=============================================================================
