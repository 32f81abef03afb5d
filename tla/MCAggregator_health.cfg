SPECIFICATION Spec
CONSTANTS
  Sessions = {s1}
  Collectors = {c1}
  StaleAfter = 1
  EvictAfter = 2
  Target = 1
  Persist = TRUE
  None = None
  MaxStored = 1
  MaxSaid = 3
INVARIANTS HealthFollowsParser
SYMMETRY SessionSymmetry
CHECK_DEADLOCK FALSE
