SPECIFICATION Spec
CONSTANTS
  Sessions = {s1}
  Collectors = {c1}
  StaleAfter = 1
  EvictAfter = 2
  Target = 1
  Persist = TRUE
  None = None
  MaxStored = 0
  MaxSaid = 5
PROPERTIES ReportCountsAll
CHECK_DEADLOCK FALSE
