--------------------------- MODULE IocGuardProofs ---------------------------
(***************************************************************************)
(* Proofs about IocGuard, for any limits and any length of stall.          *)
(***************************************************************************)
EXTENDS IocGuard, SequenceLemmas

LEMMA BoundsAreNat ==
  MaxStart \in Nat /\ MaxRequest \in Nat /\ MaxUnheard \in Nat /\ MaxUnheard > 0
BY IocGuardAssumption DEF MaxStart, MaxRequest, MaxUnheard, DetectionBound

\* A second that passes changes the clocks only.
LEMMA ClockKeepsInv ==
  ASSUME TypeOK, ToldOnce, Clock, stalled' \in 0 .. MaxStall, iterated' \in BOOLEAN
  PROVE  TypeOK' /\ ToldOnce'
<1> USE BoundsAreNat DEF TypeOK
<1>1. \A m \in Nat, n \in Nat : Min({m + 1, n}) \in 0 .. n
  <2> TAKE m \in Nat, n \in Nat
  <2>1. Min({m + 1, n}) = IF m + 1 <= n THEN m + 1 ELSE n
    BY MinOfTwo
  <2> QED
    BY <2>1
<1>2. /\ sinceStart' \in 0 .. MaxStart
      /\ sinceRequest' \in 0 .. MaxRequest
      /\ unheard' \in 0 .. MaxUnheard
  BY <1>1 DEF Clock
<1>3. UNCHANGED <<sock, connected, initialized, answered, pc, readable, link,
                  inbox, pending, disconnects, latency>>
  BY DEF Clock, peer
<1> QED
  BY <1>2, <1>3 DEF ToldOnce

\* Type correctness, and with it (the number of callbacks has a type only
\* because of it) that every way of closing the socket tells the Dispatcher
\* exactly once.
THEOREM TypeCorrectAndToldOnce == Spec => [](TypeOK /\ ToldOnce)
<1> DEFINE Inv == TypeOK /\ ToldOnce
<1>1. Init => Inv
  <2> SUFFICES ASSUME Init PROVE TypeOK /\ ToldOnce
    OBVIOUS
  <2>1. /\ sinceStart \in 0 .. MaxStart /\ sinceRequest \in 0 .. MaxRequest
        /\ stalled \in 0 .. MaxStall /\ disconnects \in {0, 1}
        /\ unheard \in 0 .. MaxUnheard /\ latency \in 0 .. MaxRequest
    BY BoundsAreNat, IocGuardAssumption DEF Init
  <2> QED
    BY <2>1 DEF Init, TypeOK, ToldOnce, Link
<1>2. Inv /\ [Next]_vars => Inv'
  <2> SUFFICES ASSUME Inv, [Next]_vars PROVE Inv'
    OBVIOUS
  <2> USE BoundsAreNat, IocGuardAssumption DEF TypeOK, ToldOnce, Link
  <2>1. CASE Establish
    BY <2>1 DEF Establish, guard, loop
  <2>2. CASE IocCloses
    BY <2>2, ZenonT(60) DEF IocCloses, guard, loop, seen
  <2>3. CASE FallSilent
    BY <2>3 DEF FallSilent, guard, loop, seen
  <2>4. CASE Recover
    BY <2>4 DEF Recover, guard, loop
  <2>5. CASE IocSends
    BY <2>5, ZenonT(60) DEF IocSends, guard, loop
  <2>6. CASE Poll
    BY <2>6 DEF Poll, Readable, guard, peer, seen
  <2>7. CASE ProcessIncoming
    <3>1. ToldOnce'
      BY <2>7 DEF ProcessIncoming, Disconnect, guard
    <3>2. disconnects' \in {0, 1}
      BY <3>1
    <3>3. sock' \in {"open", "closed"}
      BY <2>7 DEF ProcessIncoming, Disconnect, guard
    <3> QED
      BY <2>7, <3>1, <3>2, <3>3, ZenonT(60) DEF ProcessIncoming, guard
  <2>8. CASE ProcessOutgoing
    <3>1. CASE sock = "open" /\ AwaitConnection
      BY <2>8, <3>1 DEF ProcessOutgoing, AwaitConnection, Disconnect
    <3>2. CASE sock = "open" /\ Heartbeat
      <4>1. ToldOnce' /\ sock' \in {"open", "closed"}
        BY <2>8, <3>2 DEF ProcessOutgoing, Heartbeat, Heard, Disconnect
      <4>2. disconnects' \in {0, 1}
        BY <4>1
      <4>3. sinceRequest' \in 0 .. MaxRequest /\ stalled' \in 0 .. MaxStall
        BY <2>8, <3>2 DEF ProcessOutgoing, Heartbeat, Heard
      <4> QED
        BY <2>8, <3>2, <4>1, <4>2, <4>3 DEF ProcessOutgoing, Heartbeat, Heard
    <3>3. CASE sock # "open"
      BY <2>8, <3>3 DEF ProcessOutgoing
    <3> QED
      BY <2>8, <3>1, <3>2, <3>3 DEF ProcessOutgoing
  <2>9. CASE Tick
    <3>1. Clock /\ stalled' = 0 /\ iterated' \in BOOLEAN
      BY <2>9, Zenon DEF Tick
    <3>2. stalled' \in 0 .. MaxStall
      BY <3>1
    <3> QED
      BY <3>1, <3>2, ClockKeepsInv
  <2>10. CASE Stall
    <3>1. Clock /\ stalled' \in 0 .. MaxStall /\ iterated' \in BOOLEAN
      BY <2>10 DEF Stall
    <3> QED
      BY <3>1, ClockKeepsInv
  <2>11. CASE UNCHANGED vars
    BY <2>11 DEF vars, guard, loop, peer, seen
  <2> QED
    BY <2>1, <2>2, <2>3, <2>4, <2>5, <2>6, <2>7, <2>8, <2>9, <2>10, <2>11 DEF Next
<1> QED
  BY <1>1, <1>2, PTL DEF Spec

\* Every variable keeps its type: the clocks stop at their limits, and the
\* callback is never made a second time.
THEOREM TypeCorrect == Spec => []TypeOK
BY TypeCorrectAndToldOnce, PTL

-----------------------------------------------------------------------------
\* Why an answer in the inbox is no reason for a false alarm: what was there
\* when poll() looked is read before the guard judges, so that what is still
\* there arrived since, no longer ago than the iteration has been stalled.
UnreadIsRecent ==
  /\ pc \in {"in", "out"} /\ sock = "open" /\ connected /\ inbox /\ ~answered
  /\ pc = "in" => ~readable
  => sinceRequest <= latency + stalled

LEMMA ClockAdvances ==
  ASSUME TypeOK, Clock
  PROVE  sinceRequest' <= sinceRequest + 1
<1>1. Min({sinceRequest + 1, MaxRequest}) <= sinceRequest + 1
  BY MinOfTwo, BoundsAreNat DEF TypeOK
<1> QED
  BY <1>1 DEF Clock

LEMMA UnreadIsRecentInductive ==
  ASSUME TypeOK, UnreadIsRecent, [Next]_vars
  PROVE  UnreadIsRecent'
<1> SUFFICES ASSUME pc' \in {"in", "out"}, sock' = "open", connected', inbox',
                    ~answered', pc' = "in" => ~readable'
             PROVE  sinceRequest' <= latency' + stalled'
  BY DEF UnreadIsRecent
<1> USE BoundsAreNat, IocGuardAssumption DEF TypeOK, UnreadIsRecent
<1>1. CASE Establish \/ IocCloses \/ FallSilent \/ Recover
  BY <1>1 DEF Establish, IocCloses, FallSilent, Recover, guard, loop, seen
<1>2. CASE IocSends
  <2>1. UNCHANGED <<sinceRequest, stalled>> /\ latency' = sinceRequest
    BY <1>2, Zenon DEF IocSends, guard, loop
  <2> QED
    BY <2>1
<1>3. CASE Poll
  BY <1>3 DEF Poll, Readable, guard, peer, seen
<1>4. CASE ProcessIncoming
  <2>1. sock' # "closed"
    OBVIOUS
  <2>2. /\ ~readable /\ pc = "in"
        /\ UNCHANGED <<guard, inbox, stalled, latency>>
    BY <1>4, <2>1, Zenon DEF ProcessIncoming, Disconnect, guard
  <2> QED
    BY <2>2 DEF guard
<1>5. CASE ProcessOutgoing
  BY <1>5 DEF ProcessOutgoing
<1>6. CASE Tick
  BY <1>6 DEF Tick, Clock
<1>7. CASE Stall
  <2>1. /\ UNCHANGED <<pc, sock, readable, connected, answered, inbox, latency>>
        /\ pc \in {"in", "out"}
    BY <1>7, Zenon DEF Stall, Clock, peer
  <2>2. stalled' = stalled + 1 /\ sinceRequest' <= sinceRequest + 1
    BY <1>7, ClockAdvances DEF Stall
  <2>3. sinceRequest <= latency + stalled
    BY <2>1
  <2>4. sinceRequest' \in Int
    BY <1>7, MinOfTwo DEF Stall, Clock
  <2> QED
    BY <2>1, <2>2, <2>3, <2>4
<1>8. CASE UNCHANGED vars
  BY <1>8 DEF vars, guard, loop, peer, seen
<1> QED
  BY <1>1, <1>2, <1>3, <1>4, <1>5, <1>6, <1>7, <1>8 DEF Next

\* No live IOC is given up for a missed heart-beat whose answer arrived
\* MaxStall seconds before the interval ran out, for any limits.
THEOREM NoFalseAlarm == Spec => NoFalseDisconnect
<1> DEFINE Inv == TypeOK /\ UnreadIsRecent
           Safe == pc = "out" /\ sock = "open" /\ sock' = "closed" /\ link = "up" =>
                     ~(inbox /\ latency + MaxStall <= HeartbeatInterval)
<1>1. Spec => []Inv
  <2>1. Init => UnreadIsRecent
    BY DEF Init, UnreadIsRecent
  <2> QED
    BY <2>1, TypeCorrectAndToldOnce, UnreadIsRecentInductive, PTL DEF Spec
<1>2. Inv /\ [Next]_vars => [Safe]_vars
  <2> SUFFICES ASSUME Inv, Next, pc = "out", sock = "open", sock' = "closed",
                      link = "up", inbox, latency + MaxStall <= HeartbeatInterval
               PROVE  FALSE
    OBVIOUS
  <2>1. Heartbeat
    BY DEF Next, Establish, IocCloses, FallSilent, Recover, IocSends, Poll,
           ProcessIncoming, ProcessOutgoing, AwaitConnection, Tick, Stall, Clock, guard
  <2>2. connected /\ ~answered /\ sinceRequest > HeartbeatInterval
    BY <2>1 DEF Heartbeat, Heard
  <2>3. sinceRequest <= latency + stalled
    BY <2>2 DEF UnreadIsRecent
  <2>4. stalled <= MaxStall /\ {sinceRequest, latency, stalled} \subseteq Int
    BY BoundsAreNat, IocGuardAssumption DEF TypeOK
  <2> QED
    BY <2>2, <2>3, <2>4, IocGuardAssumption
<1> QED
  BY <1>1, <1>2, PTL DEF Spec, NoFalseDisconnect

-----------------------------------------------------------------------------
\* Why an IOC that is gone is found out in time.
\*
\* While the guard has not got a connection, m_started limits how long it waits
\* for one, and the last heart-beat, which there was none of, was no later.  An
\* iteration always leaves these limits kept; the next exceeds them by a second
\* and its stalls at most.
ConnectsInTime ==
  ~connected =>
    /\ sinceStart <= ConnectTimeout => unheard <= sinceStart
    /\ unheard <= ConnectTimeout + 1 + stalled
    /\ sinceRequest <= HeartbeatInterval => unheard <= sinceRequest
    /\ pc = "poll" /\ iterated => sinceStart <= ConnectTimeout

\* The IOC was silent for `before' seconds at most when the last heart-beat
\* was sent, and the clock of the heart-beats has run since.
SilentSince(before) ==
  /\ sinceRequest <= HeartbeatInterval => unheard <= before + sinceRequest
  /\ unheard <= before + HeartbeatInterval + 1 + stalled

\* The longest from one heart-beat to the next.
Turn == HeartbeatInterval + 1 + MaxStall

\* Then either the silence had lasted no longer than a stall when the last
\* heart-beat was sent, or that was a turn later and nothing came since.
HeartbeatsInTime ==
  connected /\ link # "up" =>
    \/ SilentSince(MaxStall)
    \/ SilentSince(MaxStall + Turn) /\ ~inbox /\ ~answered

\* Data still unread in an iteration that did not see it came in the same
\* iteration, and the silence after the data.
UnreadIsOfThisIteration ==
  pc \in {"in", "out"} /\ inbox /\ link # "up" /\ (pc = "in" => ~readable) =>
    unheard <= stalled

DetectionInv ==
  sock = "open" =>
    /\ link = "up" => unheard = 0
    /\ link = "connecting" => ~connected /\ ~inbox
    /\ pc = "poll" => stalled = 0
    /\ connected /\ pc = "poll" /\ iterated => sinceRequest <= HeartbeatInterval
    /\ ConnectsInTime
    /\ HeartbeatsInTime
    /\ UnreadIsOfThisIteration

LEMMA ClocksRun ==
  ASSUME TypeOK, Clock
  PROVE  /\ sinceStart' \in Nat /\ sinceRequest' \in Nat /\ unheard' \in Nat
         /\ sinceStart' <= ConnectTimeout => sinceStart' = sinceStart + 1
         /\ sinceRequest' <= HeartbeatInterval => sinceRequest' = sinceRequest + 1
         /\ unheard' <= unheard + 1
         /\ link = "up" => unheard' = 0
<1> USE BoundsAreNat, IocGuardAssumption DEF TypeOK
<1>1. \A m \in Nat, n \in Nat :
         Min({m + 1, n}) = IF m + 1 <= n THEN m + 1 ELSE n
  <2> TAKE m \in Nat, n \in Nat
  <2>1. m + 1 \in Nat
    OBVIOUS
  <2> QED
    BY <2>1, MinOfTwo
<1>2. sinceStart' = IF sinceStart + 1 <= MaxStart THEN sinceStart + 1 ELSE MaxStart
  BY <1>1 DEF Clock
<1>3. sinceRequest' = IF sinceRequest + 1 <= MaxRequest
                      THEN sinceRequest + 1 ELSE MaxRequest
  BY <1>1 DEF Clock
<1>4. unheard' = 0 \/ unheard' = IF unheard + 1 <= MaxUnheard
                                 THEN unheard + 1 ELSE MaxUnheard
  BY <1>1 DEF Clock
<1>5. link = "up" => unheard' = 0
  BY DEF Clock
<1> QED
  BY <1>2, <1>3, <1>4, <1>5 DEF MaxStart, MaxRequest

\* A second that passes, at a poll that no iteration has ended since, or as a
\* stall in an iteration.
LEMMA ClockKeepsDetectionInv ==
  ASSUME TypeOK, DetectionInv, sock = "open", Clock,
         \/ pc = "poll" /\ iterated /\ ~iterated' /\ stalled' = 0
         \/ pc # "poll" /\ stalled' = stalled + 1
  PROVE  DetectionInv'
<1> USE IocGuardAssumption DEF DetectionInv
<1>1. UNCHANGED <<sock, connected, answered, pc, readable, link, inbox>>
  BY DEF Clock, peer
<1>2. /\ sinceStart \in Nat /\ sinceRequest \in Nat /\ unheard \in Nat
      /\ stalled \in Nat /\ stalled' \in Nat
  BY DEF TypeOK
<1>3. pc' = "poll" => stalled' = 0 /\ ~iterated'
  BY <1>1
<1>4. ConnectsInTime'
  BY <1>1, <1>2, ClocksRun DEF ConnectsInTime
<1>5. HeartbeatsInTime'
  <2>1. ASSUME NEW n \in Nat, SilentSince(n), connected, link # "up"
        PROVE  SilentSince(n)'
    BY <2>1, <1>1, <1>2, ClocksRun DEF SilentSince
  <2>2. MaxStall \in Nat /\ MaxStall + Turn \in Nat
    BY DEF Turn
  <2> HIDE DEF DetectionInv
  <2>3. HeartbeatsInTime
    BY DEF DetectionInv
  <2> QED
    BY <2>1, <2>2, <2>3, <1>1 DEF HeartbeatsInTime, SilentSince, Turn
<1>6. UnreadIsOfThisIteration'
  BY <1>1, <1>2, ClocksRun DEF UnreadIsOfThisIteration
<1> QED
  BY <1>1, <1>3, <1>4, <1>5, <1>6, ClocksRun

\* processOutgoing on an open guard that stays open.
LEMMA OutgoingKeepsDetectionInv ==
  ASSUME TypeOK, DetectionInv, ProcessOutgoing, sock' = "open"
  PROVE  DetectionInv'
<1> USE IocGuardAssumption, LimitsAssumption
<1>1. /\ sock = "open" /\ pc = "out" /\ pc' = "poll"
      /\ stalled' = 0 /\ iterated'
      /\ UNCHANGED <<sinceStart, link, inbox, unheard>>
      /\ AwaitConnection \/ Heartbeat
  BY DEF ProcessOutgoing, TypeOK
<1>2. /\ sinceStart \in Nat /\ sinceRequest \in Nat /\ unheard \in Nat
      /\ stalled \in 0 .. MaxStall
  BY DEF TypeOK
<1>3. /\ link = "up" => unheard = 0
      /\ link = "connecting" => ~connected /\ ~inbox
      /\ ConnectsInTime /\ HeartbeatsInTime /\ UnreadIsOfThisIteration
  BY <1>1 DEF DetectionInv
<1>4. CASE AwaitConnection
  <2>1. /\ ~connected /\ ~connected' /\ link = "connecting"
        /\ sinceStart <= ConnectTimeout
        /\ sinceRequest' = sinceRequest
    BY <1>1, <1>2, <1>4 DEF AwaitConnection, Overdue, Disconnect
  <2>2. ConnectsInTime'
    BY <1>1, <1>2, <1>3, <2>1 DEF ConnectsInTime
  <2> QED
    BY <1>1, <1>3, <2>1, <2>2
       DEF DetectionInv, HeartbeatsInTime, UnreadIsOfThisIteration
<1>5. CASE Heartbeat
  <2>1. connected' /\ link # "connecting"
    BY <1>3, <1>5 DEF Heartbeat
  <2>2. CASE sinceRequest <= HeartbeatInterval
    <3>1. sinceRequest' = sinceRequest /\ answered' = Heard
      BY <1>2, <1>5, <2>2 DEF Heartbeat
    <3>2. HeartbeatsInTime'
      <4>1. ASSUME NEW n \in Nat, SilentSince(n) PROVE SilentSince(n)'
        BY <1>1, <1>2, <2>2, <3>1, <4>1 DEF SilentSince
      <4>2. CASE connected
        <5>1. answered' <=> answered
          BY <3>1, <4>2 DEF Heard, TypeOK
        <5> QED
          BY <1>1, <1>3, <4>1, <4>2, <5>1 DEF HeartbeatsInTime, Turn
      <4>3. CASE ~connected
        BY <1>1, <1>2, <1>3, <2>2, <3>1, <4>3
           DEF HeartbeatsInTime, ConnectsInTime, SilentSince
      <4> QED
        BY <4>2, <4>3
    <3> QED
      BY <1>1, <1>3, <2>1, <2>2, <3>1, <3>2
         DEF DetectionInv, ConnectsInTime, UnreadIsOfThisIteration
  <2>3. CASE sinceRequest > HeartbeatInterval
    <3>1. sinceRequest' = 0 /\ ~answered' /\ Heard
      BY <1>1, <1>2, <1>5, <2>3 DEF Heartbeat, Disconnect
    <3>2. link # "up" /\ inbox => unheard <= MaxStall
      BY <1>1, <1>2, <1>3 DEF UnreadIsOfThisIteration
    <3>3. link # "up" => unheard <= MaxStall + Turn
      <4>1. CASE connected
        BY <1>2, <1>3, <3>1, <4>1 DEF HeartbeatsInTime, SilentSince, Heard, Turn
      <4>2. CASE ~connected
        BY <1>2, <1>3, <4>2 DEF ConnectsInTime, Turn
      <4> QED
        BY <4>1, <4>2
    <3>4. HeartbeatsInTime'
      BY <1>1, <1>2, <3>1, <3>2, <3>3 DEF HeartbeatsInTime, SilentSince, Turn
    <3> QED
      BY <1>1, <1>3, <2>1, <3>1, <3>4
         DEF DetectionInv, ConnectsInTime, UnreadIsOfThisIteration
  <2> QED
    BY <1>2, <2>2, <2>3
<1> QED
  BY <1>1, <1>4, <1>5

LEMMA DetectionInvInductive ==
  ASSUME TypeOK, DetectionInv, [Next]_vars
  PROVE  DetectionInv'
<1> SUFFICES ASSUME sock' = "open" PROVE DetectionInv'
  BY DEF DetectionInv
<1>0. sock = "open"
  BY DEF TypeOK, Next, vars, Establish, IocCloses, FallSilent, Recover, IocSends, Poll,
         ProcessIncoming, ProcessOutgoing, Disconnect, Tick, Stall, Clock, guard
<1> USE IocGuardAssumption
<1>1. CASE Establish \/ Recover
  BY <1>0, <1>1 DEF Establish, Recover, guard, loop, DetectionInv, ConnectsInTime,
     HeartbeatsInTime, UnreadIsOfThisIteration, TypeOK
<1>2. CASE IocCloses
  BY <1>0, <1>2 DEF IocCloses, guard, loop, seen, DetectionInv, ConnectsInTime,
     HeartbeatsInTime, UnreadIsOfThisIteration, SilentSince, TypeOK
<1>3. CASE FallSilent
  BY <1>0, <1>3 DEF FallSilent, guard, loop, seen, DetectionInv, ConnectsInTime,
     HeartbeatsInTime, UnreadIsOfThisIteration, SilentSince, TypeOK
<1>4. CASE IocSends
  BY <1>0, <1>4 DEF IocSends, guard, loop, DetectionInv, ConnectsInTime,
     HeartbeatsInTime, UnreadIsOfThisIteration
<1>5. CASE Poll
  BY <1>0, <1>5 DEF Poll, Readable, guard, peer, seen, DetectionInv, ConnectsInTime,
     HeartbeatsInTime, UnreadIsOfThisIteration, SilentSince
<1>6. CASE ProcessIncoming
  BY <1>0, <1>6 DEF ProcessIncoming, Disconnect, guard, DetectionInv, ConnectsInTime,
     HeartbeatsInTime, UnreadIsOfThisIteration, SilentSince
<1>7. CASE ProcessOutgoing
  BY <1>7, OutgoingKeepsDetectionInv
<1>8. CASE Tick
  BY <1>0, <1>8, ClockKeepsDetectionInv DEF Tick
<1>9. CASE Stall
  BY <1>0, <1>9, ClockKeepsDetectionInv DEF Stall
<1>10. CASE UNCHANGED vars
  BY <1>10 DEF vars, guard, loop, peer, seen, DetectionInv, ConnectsInTime,
     HeartbeatsInTime, UnreadIsOfThisIteration, SilentSince
<1> QED
  BY <1>1, <1>2, <1>3, <1>4, <1>5, <1>6, <1>7, <1>8, <1>9, <1>10 DEF Next

\* An IOC that goes without a word is found out within two turns of the
\* heart-beat and a stall, and one that never accepts by the connect timeout,
\* for any limits of which the second is the shorter, and stalls of any length.
THEOREM GoneIsNoticed == Spec => []DetectsInTime
<1>1. Init => DetectionInv
  BY IocGuardAssumption DEF Init, DetectionInv, ConnectsInTime, HeartbeatsInTime,
     UnreadIsOfThisIteration
<1>2. TypeOK /\ DetectionInv => DetectsInTime
  <2> SUFFICES ASSUME TypeOK, DetectionInv, sock = "open"
               PROVE  /\ unheard <= DetectionBound
                      /\ link = "connecting" => unheard <= ConnectTimeout + 1 + MaxStall
    BY DEF DetectsInTime
  <2> USE IocGuardAssumption, LimitsAssumption DEF DetectionInv
  <2>1. unheard \in Nat /\ stalled \in 0 .. MaxStall
    BY DEF TypeOK
  <2>2. ~connected => unheard <= ConnectTimeout + 1 + MaxStall
    BY <2>1 DEF ConnectsInTime
  <2>3. connected /\ link # "up" =>
          unheard <= MaxStall + Turn + HeartbeatInterval + 1 + MaxStall
    BY <2>1 DEF HeartbeatsInTime, SilentSince, Turn
  <2> QED
    BY <2>1, <2>2, <2>3 DEF DetectionBound, Turn
<1> QED
  BY <1>1, <1>2, DetectionInvInductive, TypeCorrectAndToldOnce, PTL DEF Spec
=============================================================================
