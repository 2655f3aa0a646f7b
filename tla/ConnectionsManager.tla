------------------------- MODULE ConnectionsManager -------------------------
(***************************************************************************)
(* ConnectionsManager::run, the heart of the main loop: poll() on the      *)
(* sockets of all connections, then one pass over the connections that     *)
(* were readable, then one pass over all of them that drops the closed.    *)
(* Results of poll() go to connections by position in the vector, while    *)
(* the handlers called in the first pass add guards to it and close        *)
(* sockets, whose descriptors the kernel gives out again at once.          *)
(***************************************************************************)
EXTENDS Integers, SequencesExt

CONSTANTS
  Listener,  \* the Listeners, open for ever
  Searcher,  \* the Searchers, open for ever; they make guards
  Guard      \* the IocGuards that may be open at the same time

Permanent == Listener \cup Searcher
Conn == Permanent \cup Guard
Closed == -1
FD == 1 .. Cardinality(Conn)

ASSUME ConnectionsManagerAssumption ==
  /\ IsFiniteSet(Conn)
  /\ Listener \cap Searcher = {} /\ Permanent \cap Guard = {}

VARIABLES
  conns,   \* m_connections
  sock,    \* m_sock of every connection
  ready,   \* the descriptors poll() would report, as the kernel has them
  fds,     \* the array of pollfd
  pc,      \* where run is: at "poll", in the pass "in" or in the pass "out"
  it,      \* the position in that pass
  polled,  \* observer: the connections fds was made from
  handled, \* observer: the calls of processIncoming in this iteration
  due,     \* observer: the connections there were when "out" began
  served   \* observer: the calls of processOutgoing in this iteration

kernel == <<sock, ready>>
loop   == <<fds, pc, it>>
seen   == <<polled, handled, due, served>>
vars   == <<conns, kernel, loop, seen>>

TypeOK ==
  /\ conns \in Seq(Conn)
  /\ sock \in [Conn -> FD \cup {Closed}]
  /\ ready \in SUBSET FD
  /\ fds \in Seq([fd: FD \cup {Closed}, revents: BOOLEAN])
  /\ pc \in {"poll", "in", "out"}
  /\ it \in 1 .. Cardinality(Conn) + 1
  /\ polled \in Seq(Conn) /\ handled \in Seq(Conn)
  /\ due \in Seq(Conn) /\ served \in Seq(Conn)

\* The constructor of Dispatcher has added the listeners, then the searchers.
Init ==
  /\ conns = SetToSeq(Listener) \o SetToSeq(Searcher)
  /\ sock = [c \in Conn |-> IF c \in Permanent
                            THEN CHOOSE i \in DOMAIN conns : conns[i] = c ELSE Closed]
  /\ ready = {}
  /\ fds = <<>>
  /\ pc = "poll"
  /\ it = 1
  /\ polled = <<>> /\ handled = <<>> /\ due = <<>> /\ served = <<>>

\* The kernel gives a new socket the lowest descriptor there is.
Open(c) == sock[c] # Closed
FreeFD == Min(FD \ {sock[c] : c \in Conn})

-----------------------------------------------------------------------------
\* Input arrives on a socket, or its peer is gone.
Arrive(c) ==
  /\ Open(c)
  /\ ready' = ready \cup {sock[c]}
  /\ UNCHANGED <<conns, sock, loop, seen>>

Poll ==
  /\ pc = "poll"
  /\ fds' = [i \in DOMAIN conns |->
               [fd |-> sock[conns[i]], revents |-> sock[conns[i]] \in ready]]
  /\ pc' = IF \E i \in DOMAIN conns : sock[conns[i]] \in ready THEN "in" ELSE "out"
  /\ it' = 1
  /\ polled' = conns
  /\ due' = conns
  /\ handled' = <<>> /\ served' = <<>>
  /\ UNCHANGED <<conns, kernel>>

\* The connection whose handler is running.
Current == conns[it]
Handling == pc = "in" /\ it <= Len(fds) /\ fds[it].revents

\* Bug: the new connection is put before the others.
AddGuardInFront(g) ==
  /\ Handling /\ Current \in Searcher
  /\ ~Open(g) /\ g \notin ToSet(conns)
  /\ sock' = [sock EXCEPT ![g] = FreeFD]
  /\ conns' = Cons(g, conns)
  /\ UNCHANGED <<ready, loop, seen>>

\* The handler of a searcher has the Dispatcher make a guard, for each of the
\* answers it reads; ConnectionsManager::add puts it at the end.
AddGuard(g) ==
  /\ Handling /\ Current \in Searcher
  /\ ~Open(g) /\ g \notin ToSet(conns)
  /\ sock' = [sock EXCEPT ![g] = FreeFD]
  /\ conns' = Append(conns, g)
  /\ UNCHANGED <<ready, loop, seen>>

\* A guard finds its connection ended: it closes its socket, and stays in
\* m_connections.
Close(c) ==
  /\ c \in Guard /\ Open(c)
  /\ sock' = [sock EXCEPT ![c] = Closed]
  /\ ready' = ready \ {sock[c]}

\* processIncoming of the connection returns.  What it did not read, if
\* anything, is there to be polled next time.
HandleIncoming ==
  /\ Handling
  /\ \/ Close(Current)
     \/ /\ ready' \in {ready, ready \ {sock[Current]}}
        /\ UNCHANGED sock
  /\ it' = it + 1
  /\ handled' = Append(handled, Current)
  /\ UNCHANGED <<conns, fds, pc, polled, due, served>>

SkipIncoming ==
  /\ pc = "in" /\ it <= Len(fds) /\ ~fds[it].revents
  /\ it' = it + 1
  /\ UNCHANGED <<conns, kernel, fds, pc, seen>>

EndIncoming ==
  /\ pc = "in" /\ it > Len(fds)
  /\ pc' = "out"
  /\ it' = 1
  /\ due' = conns
  /\ UNCHANGED <<conns, kernel, fds, polled, handled, served>>

\* Bugs: the iterator is moved on after an erase, too; a connection is asked
\* whether it is connected before its processOutgoing.
EraseAndStep(open) ==
  /\ conns' = IF open THEN conns ELSE RemoveAt(conns, it)
  /\ it' = it + 1

EraseIfWasClosed(open) ==
  /\ conns' = IF Open(Current) THEN conns ELSE RemoveAt(conns, it)
  /\ it' = IF Open(Current) THEN it + 1 ELSE it

EraseOrStep(open) ==
  /\ conns' = IF open THEN conns ELSE RemoveAt(conns, it)
  /\ it' = IF open THEN it + 1 ELSE it

\* processOutgoing of the next connection.  A guard may close here, too.
HandleOutgoing ==
  /\ pc = "out" /\ it <= Len(conns)
  /\ Close(Current) \/ UNCHANGED kernel
  /\ served' = Append(served, Current)
  /\ EraseOrStep(sock'[Current] # Closed)
  /\ UNCHANGED <<fds, pc, polled, handled, due>>

EndRun ==
  /\ pc = "out" /\ it > Len(conns)
  /\ pc' = "poll"
  /\ UNCHANGED <<conns, kernel, fds, it, seen>>

Next ==
  \/ \E c \in Conn : Arrive(c)
  \/ Poll
  \/ \E g \in Guard : AddGuard(g)
  \/ HandleIncoming \/ SkipIncoming \/ EndIncoming
  \/ HandleOutgoing \/ EndRun

Spec == Init /\ [][Next]_vars

-----------------------------------------------------------------------------
\* What poll() reported goes to the connections it was asked for, each once
\* and no other, whatever the handlers did to the vector and the descriptors.
ReportsReachTheirOwners ==
  pc = "out" =>
    /\ ToSet(handled) = {polled[i] : i \in {k \in DOMAIN polled : fds[k].revents}}
    /\ IsInjective(handled)

\* Every iteration calls the processOutgoing of every connection once: of one
\* after an erased one, too, and of a guard made in the same iteration.
EveryoneServedOnce ==
  pc = "poll" => served = due

\* Between two iterations m_connections has exactly the open connections, each
\* once, so that poll() gets neither -1 nor a descriptor that is now another's.
OnlyOpenPolled ==
  pc = "poll" =>
    /\ ToSet(conns) = {c \in Conn : Open(c)}
    /\ IsInjective(conns)
    /\ \A c, d \in ToSet(conns) : sock[c] = sock[d] => c = d
=============================================================================
