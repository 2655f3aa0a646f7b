\* Two searchers, so that a guard is made after another was closed in the same
\* pass, and three guards between and behind them.
CONSTANTS
  Listener = {l1}
  Searcher = {s1, s2}
  Guard = {g1, g2, g3}
SYMMETRY Symmetry
SPECIFICATION Spec
INVARIANTS
  ReportsReachTheirOwners
  EveryoneServedOnce
  OnlyOpenPolled
