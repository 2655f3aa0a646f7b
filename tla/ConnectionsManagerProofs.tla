---------------------- MODULE ConnectionsManagerProofs ----------------------
(***************************************************************************)
(* Proofs about ConnectionsManager, for any finite sets of listeners,      *)
(* searchers and guards.                                                   *)
(***************************************************************************)
EXTENDS ConnectionsManager, SequenceLemmas

-----------------------------------------------------------------------------
\* The descriptors and the vector.

\* There are as many descriptors as connections, so that one is free for a
\* connection that is closed.
LEMMA FreeFDIsFree ==
  ASSUME sock \in [Conn -> FD \cup {Closed}],
         NEW g \in Conn, sock[g] = Closed
  PROVE  FreeFD \in FD \ {sock[c] : c \in Conn}
<1> DEFINE N == Cardinality(Conn)
           used == {sock[c] : c \in Conn}
<1>1. IsFiniteSet(Conn) /\ N \in Nat
  BY ConnectionsManagerAssumption, FS_CardinalityType
<1>2. FD = 1 .. N
  BY DEF FD
<1> HIDE DEF N
<1>3. FD \ used # {}
  <2> SUFFICES ASSUME \A x \in FD : \E c \in Conn : sock[c] = x PROVE FALSE
    OBVIOUS
  <2> DEFINE owner == [x \in FD |-> CHOOSE c \in Conn : sock[c] = x]
             others == Conn \ {g}
  <2>1. \A x \in FD : owner[x] \in Conn /\ sock[owner[x]] = x
    OBVIOUS
  <2>2. \A x \in FD : x # Closed
    BY <1>1, <1>2 DEF Closed
  <2> HIDE DEF owner
  <2>3. owner \in [FD -> others]
    <3>1. owner = [x \in FD |-> owner[x]]
      BY DEF owner
    <3>2. \A x \in FD : owner[x] \in others
      BY <2>1, <2>2
    <3> QED
      BY <3>1, <3>2
  <2>4. \A x, y \in FD : owner[x] = owner[y] => x = y
    BY <2>1
  <2>5. IsFiniteSet(others) /\ Cardinality(others) = N - 1
    BY <1>1, FS_RemoveElement DEF N
  <2>6. IsFiniteSet(FD) /\ Cardinality(FD) = N
    <3>1. 0 \in Int /\ 1 \in Int /\ N \in Int
      BY <1>1
    <3> QED
      BY <1>1, <1>2, <3>1, FS_Interval
  <2>7. \E x, y \in FD : x # y /\ owner[x] = owner[y]
    BY <1>1, <2>3, <2>5, <2>6, FS_PigeonHole
  <2> QED
    BY <2>4, <2>7
<1>4. FD \ used \in SUBSET Nat
  BY <1>1, <1>2
<1> QED
  BY <1>3, <1>4, MinOfNats DEF FreeFD

\* Every connection is in the vector once, so that it is no longer than there
\* are connections.
LEMMA InjectiveIsShort ==
  ASSUME NEW s \in Seq(Conn), IsInjective(s)
  PROVE  Len(s) <= Cardinality(Conn)
<1> DEFINE n == Len(s)
<1>1. n \in Nat /\ s \in [1 .. n -> Conn] /\ DOMAIN s = 1 .. n
  BY LenProperties
<1>2. s \in Injection(1 .. n, Conn)
  BY <1>1 DEF Injection, IsInjective
<1>3. Cardinality(1 .. n) = n
  BY <1>1, FS_Interval, SMTT(60)
<1> QED
  BY <1>2, <1>3, ConnectionsManagerAssumption, FS_Injection

-----------------------------------------------------------------------------
\* The inductive invariant.

\* Every open connection is in the vector, every connection at most once, and
\* no two have the same socket; listeners and searchers never close.
VectorOK ==
  /\ IsInjective(conns)
  /\ \A c \in Conn : Open(c) => c \in ToSet(conns)
  /\ \A c, d \in Conn : Open(c) /\ sock[c] = sock[d] => c = d
  /\ \A c \in Permanent : Open(c)

\* Only the pass over processOutgoing drops connections: the vector is clean
\* when it has ended, and clean up to the position it has reached.
NoneClosed ==
  /\ pc = "poll" => \A i \in 1 .. Len(conns) : Open(conns[i])
  /\ pc = "out" => \A i \in 1 .. it - 1 : Open(conns[i])

\* The pass over processIncoming: the array of pollfd still belongs to the
\* front of the vector, and what it reports up to the position was handled.
ReportsOK ==
  pc = "in" =>
    /\ Len(fds) = Len(polled) /\ it <= Len(fds) + 1
    /\ Len(polled) <= Len(conns)
    /\ \A i \in 1 .. Len(polled) : polled[i] = conns[i]
    /\ ToSet(handled) = {polled[i] : i \in {k \in 1 .. it - 1 : fds[k].revents}}
    /\ IsInjective(handled)
    /\ served = <<>>

\* The pass over processOutgoing: those served, then those from the position
\* on, are those there were when it began.
ServiceOK ==
  pc = "out" =>
    /\ it <= Len(conns) + 1
    /\ Len(due) = Len(served) + (Len(conns) + 1 - it)
    /\ \A k \in 1 .. Len(served) : served[k] = due[k]
    /\ \A k \in it .. Len(conns) : conns[k] = due[Len(served) + (k + 1 - it)]

Inv ==
  /\ TypeOK /\ VectorOK /\ NoneClosed /\ ReportsOK /\ ServiceOK
  /\ ReportsReachTheirOwners /\ EveryoneServedOnce

\* The constructor lists every listener and every searcher once.
LEMMA InitialVector ==
  ASSUME Init
  PROVE  /\ conns \in Seq(Permanent)
         /\ IsInjective(conns)
         /\ \A c \in Permanent : \E i \in 1 .. Len(conns) : conns[i] = c
<1> DEFINE front == SetToSeq(Listener)
           back == SetToSeq(Searcher)
           n == Cardinality(Listener)
           m == Cardinality(Searcher)
<1>1. IsFiniteSet(Listener) /\ IsFiniteSet(Searcher)
  BY ConnectionsManagerAssumption, FS_Subset DEF Conn, Permanent
<1>2. n \in Nat /\ m \in Nat
  BY <1>1, FS_CardinalityType
<1>3. /\ front \in Seq(Listener) /\ Len(front) = n
      /\ \A i, j \in 1 .. n : front[i] = front[j] => i = j
      /\ \A x \in Listener : \E i \in 1 .. n : front[i] = x
  BY <1>1, SetToSeqLists
<1>4. /\ back \in Seq(Searcher) /\ Len(back) = m
      /\ \A i, j \in 1 .. m : back[i] = back[j] => i = j
      /\ \A x \in Searcher : \E i \in 1 .. m : back[i] = x
  BY <1>1, SetToSeqLists
<1>5. conns = front \o back
  BY DEF Init
<1> HIDE DEF front, back, n, m
<1>6. front \in Seq(Permanent) /\ back \in Seq(Permanent)
  BY <1>3, <1>4, SeqMonotonic DEF Permanent
<1>7. /\ conns \in Seq(Permanent)
      /\ Len(conns) = n + m
      /\ \A i \in 1 .. n + m : conns[i] = IF i <= n THEN front[i] ELSE back[i - n]
  BY <1>3, <1>4, <1>5, <1>6, ConcatProperties
<1>8. \A i \in 1 .. n : front[i] \in Listener
  BY <1>2, <1>3
<1>9. \A i \in 1 .. m : back[i] \in Searcher
  BY <1>2, <1>4
<1>10. ASSUME NEW i \in 1 .. n + m, NEW j \in 1 .. n + m, conns[i] = conns[j]
       PROVE  i = j
  <2>1. CASE i <= n /\ j <= n
    BY <1>2, <1>3, <1>7, <1>10, <2>1
  <2>2. CASE i > n /\ j > n
    <3>1. i - n \in 1 .. m /\ j - n \in 1 .. m /\ back[i - n] = back[j - n]
      BY <1>2, <1>7, <1>10, <2>2
    <3>2. i - n = j - n
      BY <1>4, <3>1
    <3> QED
      BY <1>2, <3>2
  <2>3. CASE i <= n /\ j > n
    <3>1. i \in 1 .. n /\ j - n \in 1 .. m /\ front[i] = back[j - n]
      BY <1>2, <1>7, <1>10, <2>3
    <3> QED
      BY <3>1, <1>8, <1>9, ConnectionsManagerAssumption
  <2>4. CASE i > n /\ j <= n
    <3>1. j \in 1 .. n /\ i - n \in 1 .. m /\ front[j] = back[i - n]
      BY <1>2, <1>7, <1>10, <2>4
    <3> QED
      BY <3>1, <1>8, <1>9, ConnectionsManagerAssumption
  <2> QED
    BY <1>2, <2>1, <2>2, <2>3, <2>4
<1>11. ASSUME NEW c \in Permanent PROVE \E i \in 1 .. n + m : conns[i] = c
  <2>1. CASE c \in Listener
    <3>1. PICK i \in 1 .. n : front[i] = c
      BY <1>3, <2>1
    <3>2. i \in 1 .. n + m /\ i <= n
      BY <1>2
    <3> QED
      BY <1>7, <3>1, <3>2
  <2>2. CASE c \in Searcher
    <3>1. PICK i \in 1 .. m : back[i] = c
      BY <1>4, <2>2
    <3>2. n + i \in 1 .. n + m /\ ~(n + i <= n) /\ (n + i) - n = i
      BY <1>2
    <3>3. conns[n + i] = c
      BY <1>7, <3>1, <3>2
    <3> QED
      BY <3>2, <3>3
  <2> QED
    BY <2>1, <2>2 DEF Permanent
<1>12. DOMAIN conns = 1 .. n + m
  BY <1>7, LenProperties
<1> QED
  BY <1>7, <1>10, <1>11, <1>12 DEF IsInjective

LEMMA InitInv == Init => Inv
<1> SUFFICES ASSUME Init PROVE Inv
  OBVIOUS
<1>1. /\ conns \in Seq(Permanent) /\ conns \in Seq(Conn) /\ IsInjective(conns)
      /\ \A c \in Permanent : \E i \in 1 .. Len(conns) : conns[i] = c
      /\ Len(conns) \in Nat /\ DOMAIN conns = 1 .. Len(conns)
  <2>1. conns \in Seq(Conn)
    BY InitialVector, SeqMonotonic DEF Conn
  <2> QED
    BY <2>1, InitialVector, LenProperties
<1>2. Cardinality(Conn) \in Nat /\ Len(conns) <= Cardinality(Conn)
  BY <1>1, InjectiveIsShort, ConnectionsManagerAssumption, FS_CardinalityType
<1>3. \A c \in Permanent : sock[c] \in DOMAIN conns /\ conns[sock[c]] = c
  BY <1>1 DEF Init, Conn
<1>4. \A c \in Conn : c \notin Permanent => sock[c] = Closed
  BY DEF Init
<1>5. \A c \in Permanent : sock[c] \in FD /\ sock[c] # Closed
  BY <1>1, <1>2, <1>3 DEF FD, Closed
<1>6. sock \in [Conn -> FD \cup {Closed}]
  <2> DEFINE fd(c) == IF c \in Permanent
                      THEN CHOOSE i \in DOMAIN conns : conns[i] = c ELSE Closed
  <2>1. sock = [c \in Conn |-> fd(c)]
    BY DEF Init
  <2>2. \A c \in Conn : sock[c] \in FD \cup {Closed}
    BY <1>4, <1>5
  <2> HIDE DEF fd
  <2> QED
    BY <2>1, <2>2
<1>7. TypeOK
  <2>1. 1 \in 1 .. Cardinality(Conn) + 1
    BY <1>2
  <2>2. \A S : <<>> \in Seq(S)
    BY EmptySeq
  <2>3. /\ ready = {} /\ fds = <<>> /\ pc = "poll" /\ it = 1
        /\ polled = <<>> /\ handled = <<>> /\ due = <<>> /\ served = <<>>
    BY DEF Init
  <2> QED
    BY <1>1, <1>6, <2>1, <2>2, <2>3 DEF TypeOK
<1>8. VectorOK
  <2>1. \A c \in Conn : Open(c) <=> c \in Permanent
    BY <1>4, <1>5 DEF Open
  <2>2. \A c \in Permanent : c \in ToSet(conns)
    BY <1>1 DEF ToSet
  <2>3. \A c, d \in Conn : Open(c) /\ sock[c] = sock[d] => c = d
    BY <1>3, <1>4, <1>5, <2>1
  <2>4. \A c \in Permanent : Open(c)
    BY <1>5 DEF Open
  <2> QED
    BY <1>1, <2>1, <2>2, <2>3, <2>4 DEF VectorOK
<1>9. \A i \in 1 .. Len(conns) : Open(conns[i])
  <2>1. \A i \in 1 .. Len(conns) : conns[i] \in Permanent
    BY <1>1
  <2> QED
    BY <2>1, <1>5 DEF Open
<1> QED
  BY <1>7, <1>8, <1>9 DEF Init, Inv, NoneClosed, ReportsOK, ServiceOK,
     ReportsReachTheirOwners, EveryoneServedOnce

-----------------------------------------------------------------------------
\* What the types say of the sequences, in the form the steps below need.
LEMMA Lengths ==
  ASSUME TypeOK, VectorOK
  PROVE  /\ Len(conns) \in Nat /\ DOMAIN conns = 1 .. Len(conns)
         /\ Len(polled) \in Nat /\ DOMAIN polled = 1 .. Len(polled)
         /\ Len(handled) \in Nat /\ DOMAIN handled = 1 .. Len(handled)
         /\ Len(due) \in Nat /\ Len(served) \in Nat
         /\ Len(fds) \in Nat /\ DOMAIN fds = 1 .. Len(fds)
         /\ \A i \in 1 .. Len(conns) : conns[i] \in Conn
         /\ Cardinality(Conn) \in Nat /\ Len(conns) <= Cardinality(Conn)
         /\ it \in Nat /\ it >= 1
<1>1. Cardinality(Conn) \in Nat
  BY ConnectionsManagerAssumption, FS_CardinalityType
<1>2. Len(conns) <= Cardinality(Conn)
  BY InjectiveIsShort DEF TypeOK, VectorOK
<1>3. /\ Len(conns) \in Nat /\ DOMAIN conns = 1 .. Len(conns)
      /\ Len(polled) \in Nat /\ DOMAIN polled = 1 .. Len(polled)
      /\ Len(handled) \in Nat /\ DOMAIN handled = 1 .. Len(handled)
      /\ Len(due) \in Nat /\ Len(served) \in Nat
      /\ Len(fds) \in Nat /\ DOMAIN fds = 1 .. Len(fds)
  BY LenProperties DEF TypeOK
<1>4. \A i \in 1 .. Len(conns) : conns[i] \in Conn
  BY ElementOfSeq DEF TypeOK
<1>5. it \in Nat /\ it >= 1
  BY <1>1 DEF TypeOK
<1> QED
  BY <1>1, <1>2, <1>3, <1>4, <1>5

\* The kernel alone changes.
LEMMA ArriveKeepsInv ==
  ASSUME Inv, NEW c \in Conn, Arrive(c)
  PROVE  Inv'
<1>1. UNCHANGED <<conns, sock, fds, pc, it, polled, handled, due, served>>
  BY DEF Arrive, loop, seen
<1>2. ready' \in SUBSET FD
  <2>1. sock[c] \in FD
    BY DEF Arrive, Open, Inv, TypeOK
  <2> QED
    BY <2>1 DEF Arrive, Inv, TypeOK
<1>3. TypeOK'
  BY <1>1, <1>2 DEF Inv, TypeOK
<1>4. /\ VectorOK' /\ NoneClosed' /\ ReportsOK' /\ ServiceOK'
      /\ ReportsReachTheirOwners' /\ EveryoneServedOnce'
  BY <1>1 DEF Inv, VectorOK, NoneClosed, ReportsOK, ServiceOK,
     ReportsReachTheirOwners, EveryoneServedOnce, Open
<1> QED
  BY <1>3, <1>4 DEF Inv

\* poll() is asked about the connections there are, all of them open.
LEMMA PollKeepsInv ==
  ASSUME Inv, Poll
  PROVE  Inv'
<1> DEFINE Pollfd == [fd: FD \cup {Closed}, revents: BOOLEAN]
<1>1. /\ pc = "poll" /\ UNCHANGED <<conns, sock, ready>>
      /\ polled' = conns /\ due' = conns /\ handled' = <<>> /\ served' = <<>>
      /\ it' = 1
      /\ fds' = [i \in DOMAIN conns |->
                   [fd |-> sock[conns[i]], revents |-> sock[conns[i]] \in ready]]
      /\ pc' \in {"in", "out"}
      /\ pc' = "out" => \A i \in DOMAIN conns : sock[conns[i]] \notin ready
  BY DEF Poll, kernel
<1>2. /\ Len(conns) \in Nat /\ DOMAIN conns = 1 .. Len(conns)
      /\ \A i \in 1 .. Len(conns) : conns[i] \in Conn
      /\ Cardinality(Conn) \in Nat
  BY Lengths DEF Inv
<1>3. fds' \in Seq(Pollfd) /\ Len(fds') = Len(conns)
  <2>1. \A i \in 1 .. Len(conns) :
           [fd |-> sock[conns[i]], revents |-> sock[conns[i]] \in ready] \in Pollfd
    BY <1>2 DEF Inv, TypeOK
  <2> HIDE DEF Pollfd
  <2>2. fds' \in [1 .. Len(conns) -> Pollfd]
    BY <1>1, <1>2, <2>1
  <2> QED
    BY <1>2, <2>2
<1>4. <<>> \in Seq(Conn) /\ Len(<<>>) = 0 /\ DOMAIN <<>> = {}
  BY EmptySeq
<1>5. TypeOK'
  <2>1. it' \in 1 .. Cardinality(Conn) + 1
    BY <1>1, <1>2
  <2> QED
    BY <1>1, <1>3, <1>4, <2>1 DEF Inv, TypeOK
<1>6. VectorOK'
  BY <1>1 DEF Inv, VectorOK, Open
<1>7. NoneClosed' /\ EveryoneServedOnce'
  BY <1>1 DEF NoneClosed, EveryoneServedOnce
<1>8. ToSet(handled') = {} /\ IsInjective(handled')
  BY <1>1, <1>4 DEF ToSet, IsInjective
<1>9. ReportsOK'
  BY <1>1, <1>2, <1>3, <1>8 DEF ReportsOK
<1>10. ServiceOK'
  BY <1>1, <1>2, <1>4 DEF ServiceOK
<1>11. ReportsReachTheirOwners'
  <2>1. pc' = "out" => \A i \in DOMAIN conns : ~fds'[i].revents
    BY <1>1
  <2> QED
    BY <1>1, <1>8, <2>1 DEF ReportsReachTheirOwners
<1> QED
  BY <1>5, <1>6, <1>7, <1>9, <1>10, <1>11 DEF Inv

\* A position without a report, and the ends of the two passes.
LEMMA SkipIncomingKeepsInv ==
  ASSUME Inv, SkipIncoming
  PROVE  Inv'
<1>1. /\ pc = "in" /\ it <= Len(fds) /\ ~fds[it].revents /\ it' = it + 1
      /\ UNCHANGED <<conns, sock, ready, fds, pc, polled, handled, due, served>>
  BY DEF SkipIncoming, kernel, seen
<1>2. /\ Len(conns) \in Nat /\ Cardinality(Conn) \in Nat
      /\ Len(conns) <= Cardinality(Conn) /\ Len(fds) \in Nat /\ it \in Nat /\ it >= 1
  BY Lengths DEF Inv
<1>3. TypeOK'
  <2>1. it' \in 1 .. Cardinality(Conn) + 1
    BY <1>1, <1>2 DEF Inv, ReportsOK
  <2> QED
    BY <1>1, <2>1 DEF Inv, TypeOK
<1>4. ReportsOK'
  <2>1. {k \in 1 .. it' - 1 : fds[k].revents} = {k \in 1 .. it - 1 : fds[k].revents}
    BY <1>1, <1>2
  <2> QED
    BY <1>1, <1>2, <2>1 DEF Inv, ReportsOK
<1> QED
  BY <1>1, <1>3, <1>4 DEF Inv, VectorOK, NoneClosed, ServiceOK,
     ReportsReachTheirOwners, EveryoneServedOnce, Open

LEMMA EndIncomingKeepsInv ==
  ASSUME Inv, EndIncoming
  PROVE  Inv'
<1>1. /\ pc = "in" /\ it > Len(fds) /\ pc' = "out" /\ it' = 1 /\ due' = conns
      /\ UNCHANGED <<conns, sock, ready, fds, polled, handled, served>>
  BY DEF EndIncoming, kernel
<1>2. /\ Len(conns) \in Nat /\ Cardinality(Conn) \in Nat /\ Len(fds) \in Nat
      /\ it \in Nat /\ DOMAIN polled = 1 .. Len(polled)
  BY Lengths DEF Inv
<1>3. TypeOK'
  <2>1. it' \in 1 .. Cardinality(Conn) + 1
    BY <1>1, <1>2
  <2> QED
    BY <1>1, <2>1 DEF Inv, TypeOK
<1>4. ReportsReachTheirOwners'
  <2>1. 1 .. it - 1 = DOMAIN polled
    BY <1>1, <1>2 DEF Inv, ReportsOK
  <2> QED
    BY <1>1, <2>1 DEF Inv, ReportsOK, ReportsReachTheirOwners
<1>5. ServiceOK'
  <2>1. served = <<>> /\ Len(<<>>) = 0
    BY <1>1, EmptySeq DEF Inv, ReportsOK
  <2> QED
    BY <1>1, <1>2, <2>1 DEF ServiceOK
<1> QED
  BY <1>1, <1>3, <1>4, <1>5 DEF Inv, VectorOK, NoneClosed, ReportsOK,
     EveryoneServedOnce, Open

LEMMA EndRunKeepsInv ==
  ASSUME Inv, EndRun
  PROVE  Inv'
<1>1. /\ pc = "out" /\ it > Len(conns) /\ pc' = "poll"
      /\ UNCHANGED <<conns, sock, ready, fds, it, polled, handled, due, served>>
  BY DEF EndRun, kernel, seen
<1>2. /\ Len(conns) \in Nat /\ it \in Nat
      /\ Len(served) \in Nat /\ Len(due) \in Nat
  BY Lengths DEF Inv
<1>3. it = Len(conns) + 1
  BY <1>1, <1>2 DEF Inv, ServiceOK
<1>4. served = due
  <2>1. served \in Seq(Conn) /\ due \in Seq(Conn)
    BY DEF Inv, TypeOK
  <2>2. Len(served) = Len(due) /\ \A k \in 1 .. Len(served) : served[k] = due[k]
    BY <1>1, <1>2, <1>3 DEF Inv, ServiceOK
  <2> QED
    BY <2>1, <2>2, SeqEqual
<1>5. NoneClosed'
  BY <1>1, <1>2, <1>3 DEF Inv, NoneClosed, Open
<1> QED
  BY <1>1, <1>4, <1>5 DEF Inv, TypeOK, VectorOK, ReportsOK, ServiceOK,
     ReportsReachTheirOwners, EveryoneServedOnce, Open

-----------------------------------------------------------------------------
\* A guard is added: behind the part of the vector that poll() was asked about,
\* with a descriptor that is no other's.
LEMMA AddGuardKeepsInv ==
  ASSUME Inv, NEW g \in Guard, AddGuard(g)
  PROVE  Inv'
<1> DEFINE n == Len(conns)
<1>1. /\ pc = "in" /\ sock[g] = Closed /\ g \notin ToSet(conns)
      /\ sock' = [sock EXCEPT ![g] = FreeFD]
      /\ conns' = Append(conns, g)
      /\ UNCHANGED <<ready, fds, pc, it, polled, handled, due, served>>
  BY DEF AddGuard, Handling, Open, loop, seen
<1>2. g \in Conn /\ sock \in [Conn -> FD \cup {Closed}]
  BY DEF Conn, Inv, TypeOK
<1>3. FreeFD \in FD /\ \A c \in Conn : sock[c] # FreeFD
  BY <1>1, <1>2, FreeFDIsFree
<1>4. FreeFD # Closed
  BY <1>3, Lengths DEF Inv, FD, Closed
<1>5. /\ n \in Nat /\ DOMAIN conns = 1 .. n
      /\ \A i \in 1 .. n : conns[i] \in Conn /\ conns[i] # g
  BY <1>1, Lengths DEF Inv, ToSet
<1>6. /\ conns' \in Seq(Conn) /\ Len(conns') = n + 1
      /\ \A i \in 1 .. n : conns'[i] = conns[i]
      /\ conns'[n + 1] = g
  BY <1>1, <1>2, AppendProperties DEF Inv, TypeOK
<1>7. DOMAIN conns' = 1 .. n + 1
  BY <1>6, LenProperties
<1> HIDE DEF n
<1>8. TypeOK'
  BY <1>1, <1>2, <1>3, <1>6 DEF Inv, TypeOK
<1>9. VectorOK'
  <2>1. IsInjective(conns')
    <3> SUFFICES ASSUME NEW i \in 1 .. n + 1, NEW j \in 1 .. n + 1, conns'[i] = conns'[j]
                 PROVE  i = j
      BY <1>7 DEF IsInjective
    <3>1. CASE i \in 1 .. n /\ j \in 1 .. n
      BY <1>5, <1>6, <3>1 DEF Inv, VectorOK, IsInjective
    <3>2. CASE i = n + 1 \/ j = n + 1
      BY <1>5, <1>6, <3>2
    <3> QED
      BY <1>5, <3>1, <3>2
  <2>2. \A c \in Conn : Open(c)' => c \in ToSet(conns')
    <3> SUFFICES ASSUME NEW c \in Conn, Open(c)'
                 PROVE  \E i \in 1 .. n + 1 : conns'[i] = c
      BY <1>7 DEF ToSet
    <3>1. CASE c = g
      BY <1>5, <1>6, <3>1
    <3>2. CASE c # g
      <4>1. Open(c)
        BY <1>1, <1>2, <3>2 DEF Open
      <4>2. PICK i \in 1 .. n : conns[i] = c
        BY <1>5, <4>1 DEF Inv, VectorOK, ToSet
      <4> QED
        BY <1>5, <1>6, <4>2
    <3> QED
      BY <3>1, <3>2
  <2>3. \A c, d \in Conn : Open(c)' /\ sock'[c] = sock'[d] => c = d
    <3>1. \A c \in Conn : sock'[c] = IF c = g THEN FreeFD ELSE sock[c]
      BY <1>1, <1>2
    <3> QED
      BY <1>1, <1>3, <3>1 DEF Inv, VectorOK, Open
  <2>4. \A c \in Permanent : Open(c)'
    BY <1>1, <1>2, <1>4 DEF Inv, VectorOK, Open, Conn
  <2> QED
    BY <2>1, <2>2, <2>3, <2>4 DEF VectorOK
<1>10. ReportsOK'
  <2>1. Len(polled) \in Nat /\ Len(polled) <= n
    BY <1>1, Lengths DEF Inv, ReportsOK, n
  <2>2. Len(polled) <= n + 1 /\ \A i \in 1 .. Len(polled) : polled[i] = conns'[i]
    BY <1>1, <1>5, <1>6, <2>1 DEF Inv, ReportsOK
  <2> QED
    BY <1>1, <1>6, <2>2 DEF Inv, ReportsOK
<1> QED
  BY <1>1, <1>8, <1>9, <1>10 DEF Inv, NoneClosed, ServiceOK, ReportsReachTheirOwners,
     EveryoneServedOnce

\* A connection that closes its socket: every other stays as it is.
LEMMA CloseCloses ==
  ASSUME Inv, NEW c \in Conn, Close(c)
  PROVE  /\ c \notin Permanent
         /\ sock' \in [Conn -> FD \cup {Closed}] /\ ready' \in SUBSET FD
         /\ sock'[c] = Closed
         /\ \A d \in Conn : d # c => sock'[d] = sock[d]
<1>1. sock \in [Conn -> FD \cup {Closed}] /\ ready \in SUBSET FD
  BY DEF Inv, TypeOK
<1> QED
  BY <1>1, ConnectionsManagerAssumption DEF Close

\* A handler returns, with its connection closed or not: the call is the one
\* that the report at this position was for.
LEMMA HandleIncomingKeepsInv ==
  ASSUME Inv, HandleIncoming
  PROVE  Inv'
<1>1. /\ pc = "in" /\ it <= Len(fds) /\ fds[it].revents /\ it' = it + 1
      /\ Close(Current) \/ (ready' \subseteq ready /\ UNCHANGED sock)
      /\ handled' = Append(handled, Current)
      /\ UNCHANGED <<conns, fds, pc, polled, due, served>>
  BY DEF HandleIncoming, Handling
<1>2. /\ Len(conns) \in Nat /\ DOMAIN conns = 1 .. Len(conns)
      /\ Cardinality(Conn) \in Nat /\ Len(conns) <= Cardinality(Conn)
      /\ Len(fds) \in Nat /\ it \in Nat /\ it >= 1
      /\ Len(polled) \in Nat /\ DOMAIN polled = 1 .. Len(polled)
      /\ Len(handled) \in Nat /\ DOMAIN handled = 1 .. Len(handled)
      /\ \A i \in 1 .. Len(conns) : conns[i] \in Conn
  BY Lengths DEF Inv
<1>3. /\ Len(fds) = Len(polled) /\ Len(polled) <= Len(conns)
      /\ \A i \in 1 .. Len(polled) : polled[i] = conns[i]
      /\ ToSet(handled) = {polled[i] : i \in {k \in 1 .. it - 1 : fds[k].revents}}
      /\ IsInjective(handled) /\ IsInjective(conns)
  BY <1>1 DEF Inv, ReportsOK, VectorOK
<1>4. it \in 1 .. Len(polled) /\ it \in 1 .. Len(conns)
      /\ Current \in Conn /\ Current = polled[it] /\ Current = conns[it]
  BY <1>1, <1>2, <1>3 DEF Current
<1>5. /\ sock' \in [Conn -> FD \cup {Closed}] /\ ready' \in SUBSET FD
      /\ \A c \in Conn : sock'[c] = sock[c] \/ (sock'[c] = Closed /\ c \notin Permanent)
  <2>1. CASE Close(Current)
    BY <1>4, <2>1, CloseCloses
  <2>2. CASE ready' \subseteq ready /\ UNCHANGED sock
    BY <2>2 DEF Inv, TypeOK
  <2> QED
    BY <1>1, <2>1, <2>2
<1>6. /\ handled' \in Seq(Conn) /\ Len(handled') = Len(handled) + 1
      /\ \A i \in 1 .. Len(handled) : handled'[i] = handled[i]
      /\ handled'[Len(handled) + 1] = Current
  BY <1>1, <1>4, AppendProperties DEF Inv, TypeOK
<1>7. DOMAIN handled' = 1 .. Len(handled) + 1
  BY <1>6, LenProperties
<1>8. TypeOK'
  <2>1. it' \in 1 .. Cardinality(Conn) + 1
    BY <1>1, <1>2, <1>3
  <2> QED
    BY <1>1, <1>5, <1>6, <2>1 DEF Inv, TypeOK
<1>9. VectorOK'
  BY <1>1, <1>5 DEF Inv, VectorOK, Open, Conn
<1>10. Current \notin ToSet(handled)
  <2> SUFFICES ASSUME NEW k \in 1 .. it - 1, polled[k] = Current PROVE FALSE
    BY <1>3
  <2>1. k \in 1 .. Len(polled) /\ k \in 1 .. Len(conns) /\ k # it
    BY <1>2, <1>3, <1>4
  <2>2. conns[k] = conns[it]
    BY <1>3, <1>4, <2>1
  <2> QED
    BY <1>2, <1>3, <1>4, <2>1, <2>2 DEF IsInjective
<1>11. ToSet(handled') = ToSet(handled) \cup {Current}
  <2>1. ToSet(handled') = {handled'[i] : i \in 1 .. Len(handled) + 1}
    BY <1>7 DEF ToSet
  <2>2. ToSet(handled) = {handled[i] : i \in 1 .. Len(handled)}
    BY <1>2 DEF ToSet
  <2>3. \A i \in 1 .. Len(handled) + 1 : i \in 1 .. Len(handled) \/ i = Len(handled) + 1
    BY <1>2
  <2>4. \A i \in 1 .. Len(handled) : i \in 1 .. Len(handled) + 1
    BY <1>2
  <2>5. Len(handled) + 1 \in 1 .. Len(handled) + 1
    BY <1>2
  <2> QED
    BY <1>6, <2>1, <2>2, <2>3, <2>4, <2>5
<1>12. IsInjective(handled')
  <2> SUFFICES ASSUME NEW i \in 1 .. Len(handled) + 1, NEW j \in 1 .. Len(handled) + 1,
                      handled'[i] = handled'[j]
               PROVE  i = j
    BY <1>7 DEF IsInjective
  <2>1. CASE i \in 1 .. Len(handled) /\ j \in 1 .. Len(handled)
    BY <1>2, <1>3, <1>6, <2>1 DEF IsInjective
  <2>2. \A k \in 1 .. Len(handled) : handled'[k] # Current
    BY <1>2, <1>6, <1>10 DEF ToSet
  <2> QED
    BY <1>2, <1>6, <2>1, <2>2
<1>13. ReportsOK'
  <2>1. {k \in 1 .. it' - 1 : fds[k].revents} =
          {k \in 1 .. it - 1 : fds[k].revents} \cup {it}
    BY <1>1, <1>2
  <2>2. ToSet(handled') = {polled[i] : i \in {k \in 1 .. it' - 1 : fds[k].revents}}
    BY <1>3, <1>4, <1>11, <2>1
  <2> QED
    BY <1>1, <1>2, <1>3, <1>12, <2>2 DEF Inv, ReportsOK
<1> QED
  BY <1>1, <1>8, <1>9, <1>13 DEF Inv, NoneClosed, ServiceOK, ReportsReachTheirOwners,
     EveryoneServedOnce

\* One more is served, and stays in the vector or leaves it.
LEMMA HandleOutgoingKeepsInv ==
  ASSUME Inv, HandleOutgoing
  PROVE  Inv'
<1> DEFINE n == Len(conns)
           m == Len(served)
<1>1. /\ pc = "out" /\ it <= n
      /\ Close(Current) \/ UNCHANGED <<sock, ready>>
      /\ served' = Append(served, Current)
      /\ conns' = IF sock'[Current] # Closed THEN conns ELSE RemoveAt(conns, it)
      /\ it' = IF sock'[Current] # Closed THEN it + 1 ELSE it
      /\ UNCHANGED <<fds, pc, polled, handled, due>>
  BY DEF HandleOutgoing, EraseOrStep, kernel
<1>2. /\ n \in Nat /\ DOMAIN conns = 1 .. n /\ m \in Nat /\ Len(due) \in Nat
      /\ Cardinality(Conn) \in Nat /\ n <= Cardinality(Conn)
      /\ it \in Nat /\ it >= 1
      /\ \A i \in 1 .. n : conns[i] \in Conn
  BY Lengths DEF Inv
<1>3. /\ it \in 1 .. n /\ Current \in Conn /\ Current = conns[it]
  BY <1>1, <1>2 DEF Current
<1>4. /\ sock' \in [Conn -> FD \cup {Closed}] /\ ready' \in SUBSET FD
      /\ \A c \in Conn : c # Current => sock'[c] = sock[c]
      /\ sock'[Current] = sock[Current]
           \/ (sock'[Current] = Closed /\ Current \notin Permanent)
  <2>1. CASE Close(Current)
    BY <1>3, <2>1, CloseCloses
  <2>2. CASE UNCHANGED <<sock, ready>>
    BY <2>2 DEF Inv, TypeOK
  <2> QED
    BY <1>1, <2>1, <2>2
<1>5. /\ conns \in Seq(Conn) /\ IsInjective(conns)
      /\ \A i \in 1 .. it - 1 : Open(conns[i])
      /\ Len(due) = m + (n + 1 - it)
      /\ \A k \in 1 .. m : served[k] = due[k]
      /\ \A k \in it .. n : conns[k] = due[m + (k + 1 - it)]
  BY <1>1 DEF Inv, TypeOK, VectorOK, NoneClosed, ServiceOK
<1>6. /\ served' \in Seq(Conn) /\ Len(served') = m + 1
      /\ \A i \in 1 .. m : served'[i] = served[i]
      /\ served'[m + 1] = Current
  BY <1>1, <1>3, AppendProperties DEF Inv, TypeOK
<1>7. \A k \in 1 .. m + 1 : served'[k] = due[k]
  <2>1. it \in it .. n /\ m + (it + 1 - it) = m + 1
    BY <1>2, <1>3
  <2>2. conns[it] = due[m + 1]
    BY <1>5, <2>1
  <2>3. \A k \in 1 .. m + 1 : k \in 1 .. m \/ k = m + 1
    BY <1>2
  <2> QED
    BY <1>3, <1>5, <1>6, <2>2, <2>3
<1>8. \A i \in 1 .. it - 1 : i \in 1 .. n /\ conns[i] # Current
  <2> TAKE i \in 1 .. it - 1
  <2>1. i \in 1 .. n /\ i # it
    BY <1>2, <1>3
  <2> QED
    BY <1>2, <1>3, <1>5, <2>1 DEF IsInjective
<1>9. \A c, d \in Conn : Open(c)' /\ sock'[c] = sock'[d] => c = d
  BY <1>3, <1>4 DEF Inv, VectorOK, Open
<1>10. \A c \in Permanent : Open(c)'
  BY <1>3, <1>4 DEF Inv, VectorOK, Open, Conn
<1> HIDE DEF n, m
\* It stays.
<1>11. CASE sock'[Current] # Closed
  <2>1. conns' = conns /\ it' = it + 1 /\ sock'[Current] = sock[Current]
    BY <1>1, <1>4, <1>11
  <2>2. \A c \in Conn : Open(c)' <=> Open(c)
    BY <1>4, <2>1 DEF Open
  <2>3. TypeOK'
    <3>1. it' \in 1 .. Cardinality(Conn) + 1
      BY <1>2, <1>3, <2>1
    <3> QED
      BY <1>1, <1>4, <1>6, <2>1, <3>1 DEF Inv, TypeOK
  <2>4. VectorOK'
    BY <1>9, <1>10, <2>1, <2>2 DEF Inv, VectorOK
  <2>5. NoneClosed'
    <3>1. \A i \in 1 .. it : i \in 1 .. it - 1 \/ i = it
      BY <1>2
    <3>2. sock'[conns[it]] # Closed
      BY <1>3, <1>11
    <3>3. \A i \in 1 .. it - 1 : sock'[conns[i]] # Closed
      BY <1>2, <1>4, <1>5, <1>8 DEF Open
    <3>4. \A i \in 1 .. it : sock'[conns[i]] # Closed
      BY <3>1, <3>2, <3>3
    <3>5. it' - 1 = it
      BY <1>2, <2>1
    <3> QED
      BY <1>1, <2>1, <3>4, <3>5 DEF NoneClosed, Open
  <2>6. ServiceOK'
    <3>1. \A k \in it + 1 .. n : conns[k] = due[m + 1 + (k + 1 - (it + 1))]
      <4> TAKE k \in it + 1 .. n
      <4>1. k \in it .. n /\ m + 1 + (k + 1 - (it + 1)) = m + (k + 1 - it)
        BY <1>2
      <4> QED
        BY <1>5, <4>1
    <3>2. it + 1 <= n + 1 /\ Len(due) = m + 1 + (n + 1 - (it + 1))
      BY <1>2, <1>3, <1>5
    <3> QED
      BY <1>1, <1>6, <1>7, <2>1, <3>1, <3>2 DEF ServiceOK, n
  <2> QED
    BY <1>1, <2>3, <2>4, <2>5, <2>6
       DEF Inv, ReportsOK, ReportsReachTheirOwners, EveryoneServedOnce
\* It leaves.
<1>12. CASE sock'[Current] = Closed
  <2>1. conns' = RemoveAt(conns, it) /\ it' = it
    BY <1>1, <1>12
  <2>2. /\ conns' \in Seq(Conn) /\ Len(conns') = n - 1
        /\ \A j \in 1 .. n - 1 : conns'[j] = IF j < it THEN conns[j] ELSE conns[j + 1]
    BY <1>3, <1>5, <2>1, RemoveAtProperties DEF n
  <2>3. DOMAIN conns' = 1 .. n - 1
    BY <2>2, LenProperties
  <2>4. TypeOK'
    BY <1>1, <1>4, <1>6, <2>1, <2>2 DEF Inv, TypeOK
  <2>5. VectorOK'
    <3>1. IsInjective(conns')
      <4> SUFFICES ASSUME NEW i \in 1 .. n - 1, NEW j \in 1 .. n - 1,
                          conns'[i] = conns'[j]
                   PROVE  i = j
        BY <2>3 DEF IsInjective
      <4> DEFINE old(x) == IF x < it THEN x ELSE x + 1
      <4>1. old(i) \in 1 .. n /\ old(j) \in 1 .. n
        BY <1>2
      <4>2. conns'[i] = conns[old(i)] /\ conns'[j] = conns[old(j)]
        BY <2>2
      <4>3. old(i) = old(j)
        BY <1>2, <1>5, <4>1, <4>2, ZenonT(60) DEF IsInjective
      <4> QED
        BY <1>2, <4>3
    <3>2. \A c \in Conn : Open(c)' => c \in ToSet(conns')
      <4> SUFFICES ASSUME NEW c \in Conn, Open(c)'
                   PROVE  \E i \in 1 .. n - 1 : conns'[i] = c
        BY <2>3 DEF ToSet
      <4>1. c # Current /\ Open(c)
        BY <1>4, <1>12 DEF Open
      <4>2. PICK k \in 1 .. n : conns[k] = c
        BY <1>2, <4>1 DEF Inv, VectorOK, ToSet
      <4>3. k # it
        BY <1>3, <4>1, <4>2
      <4>4. CASE k < it
        <5>1. k \in 1 .. n - 1
          BY <1>2, <1>3, <4>4
        <5> QED
          BY <2>2, <4>2, <4>4, <5>1
      <4>5. CASE k > it
        <5>1. k - 1 \in 1 .. n - 1 /\ ~(k - 1 < it) /\ k - 1 + 1 = k
          BY <1>2, <1>3, <4>5
        <5> QED
          BY <2>2, <4>2, <5>1
      <4> QED
        BY <1>2, <4>3, <4>4, <4>5
    <3> QED
      BY <1>9, <1>10, <3>1, <3>2 DEF VectorOK
  <2>6. NoneClosed'
    <3>1. ASSUME NEW i \in 1 .. it - 1 PROVE Open(conns[i])'
      <4>1. i \in 1 .. n - 1 /\ i < it
        BY <1>2, <1>3
      <4>2. conns'[i] = conns[i]
        BY <2>2, <4>1
      <4>3. conns[i] \in Conn /\ conns[i] # Current /\ Open(conns[i])
        BY <1>2, <1>5, <1>8
      <4> QED
        BY <1>4, <4>2, <4>3 DEF Open
    <3> QED
      BY <1>1, <2>1, <3>1 DEF NoneClosed
  <2>7. ServiceOK'
    <3>1. ASSUME NEW k \in it .. n - 1 PROVE conns'[k] = due[m + 1 + (k + 1 - it)]
      <4>1. /\ k \in 1 .. n - 1 /\ ~(k < it) /\ k + 1 \in it .. n
            /\ m + (k + 1 + 1 - it) = m + 1 + (k + 1 - it)
        BY <1>2, <1>3
      <4> QED
        BY <1>5, <2>2, <4>1
    <3>2. it <= n - 1 + 1 /\ Len(due) = m + 1 + (n - 1 + 1 - it)
      BY <1>2, <1>3, <1>5
    <3> QED
      BY <1>1, <1>6, <1>7, <2>1, <2>2, <3>1, <3>2 DEF ServiceOK
  <2> QED
    BY <1>1, <2>4, <2>5, <2>6, <2>7
       DEF Inv, ReportsOK, ReportsReachTheirOwners, EveryoneServedOnce
<1> QED
  BY <1>11, <1>12

-----------------------------------------------------------------------------
LEMMA InvHolds == Spec => []Inv
<1>1. Inv /\ [Next]_vars => Inv'
  <2>1. ASSUME Inv, UNCHANGED vars PROVE Inv'
    BY <2>1, SMTT(60) DEF vars, kernel, loop, seen, Inv, TypeOK, VectorOK, NoneClosed, ReportsOK,
       ServiceOK, ReportsReachTheirOwners, EveryoneServedOnce, Open
  <2> QED
    BY <2>1, ArriveKeepsInv, PollKeepsInv, AddGuardKeepsInv, HandleIncomingKeepsInv,
       SkipIncomingKeepsInv, EndIncomingKeepsInv, HandleOutgoingKeepsInv,
       EndRunKeepsInv DEF Next
<1> QED
  BY <1>1, InitInv, PTL DEF Spec

\* Every variable keeps its type: the descriptors never run out, and no pass
\* leaves the vector or the array of pollfd.
THEOREM TypeCorrect == Spec => []TypeOK
<1>1. Inv => TypeOK
  BY DEF Inv
<1> QED
  BY <1>1, InvHolds, PTL

\* What poll() reported goes to the connections it was asked for, each once and
\* no other, however many guards are added and closed between.
THEOREM ReportsDelivered == Spec => []ReportsReachTheirOwners
<1>1. Inv => ReportsReachTheirOwners
  BY DEF Inv
<1> QED
  BY <1>1, InvHolds, PTL

\* Every connection there is when the second pass begins is served in it once,
\* in order, however many are erased under it.
THEOREM AllServed == Spec => []EveryoneServedOnce
<1>1. Inv => EveryoneServedOnce
  BY DEF Inv
<1> QED
  BY <1>1, InvHolds, PTL

\* Between two iterations the vector has exactly the open connections, each
\* once, with sockets of their own.
THEOREM VectorIsOpen == Spec => []OnlyOpenPolled
<1>1. Inv => OnlyOpenPolled
  <2> SUFFICES ASSUME Inv, pc = "poll"
               PROVE  /\ ToSet(conns) = {c \in Conn : Open(c)}
                      /\ IsInjective(conns)
                      /\ \A c, d \in ToSet(conns) : sock[c] = sock[d] => c = d
    BY DEF OnlyOpenPolled
  <2>1. DOMAIN conns = 1 .. Len(conns) /\ \A i \in 1 .. Len(conns) : conns[i] \in Conn
    BY Lengths DEF Inv
  <2>2. ToSet(conns) = {c \in Conn : Open(c)}
    BY <2>1 DEF Inv, VectorOK, NoneClosed, ToSet
  <2> QED
    BY <2>2 DEF Inv, VectorOK
<1> QED
  BY <1>1, InvHolds, PTL
=============================================================================
