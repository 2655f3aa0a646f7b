\* Two of everything, and a guard for a second life of each IOC.
CONSTANTS
  PV = {p1, p2}
  Ioc = {a1, a2}
  Searcher = {s1, s2}
  Guard = {g1, g2, g3}
  Unresolved = Unresolved
  NoGuard = NoGuard
  MaxSearches = 3
  MaxReplies = 4
SYMMETRY Symmetry
SPECIFICATION Spec
INVARIANTS
  TypeOK
  IocsAreOpenGuards
  OpenGuardsAreRun
  CachedOrSearched
  GuardWatchesResponse
  IdsNameOnePV
  Genuine
PROPERTIES
  NoDeadEnd
  IsNameService
