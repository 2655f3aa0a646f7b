---------------------------- MODULE SearchTable ----------------------------
(***************************************************************************)
(* The table of a Searcher as it stands while the server runs, and the     *)
(* clock of its purges: the state that Searcher and NameServer share.      *)
(***************************************************************************)
EXTENDS SearchBins

CONSTANT
  MaxStall     \* ticks by which the iterations between two purges, waiting for
               \* the DNS or just busy, exceed the one tick of poll()

ASSUME SearchTableAssumption == MaxStall \in Nat

VARIABLES
  bins,        \* m_searchedPvs
  currentBin,  \* m_currentBin
  sincePurge,  \* ticks since Dispatcher's m_lastPurge
  iterated,    \* has an iteration ended since the last tick?
  lost         \* observer: ticks since the last purge in which none did

\* A purge runs when the elapsed time, truncated to seconds, exceeds the delay,
\* or as late after that as the iteration that makes it.
PurgePeriod == (PurgeDelay + 1) * TicksPerSecond
PurgeLimit == PurgePeriod + MaxStall

\* 0.1s pass, at any point of an iteration.
TimePasses ==
  /\ iterated' = FALSE
  /\ \/ iterated /\ UNCHANGED lost
     \/ ~iterated /\ lost < MaxStall /\ lost' = lost + 1
  /\ sincePurge' = Min({sincePurge + 1, PurgeLimit})
=============================================================================
