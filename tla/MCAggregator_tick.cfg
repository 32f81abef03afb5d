SPECIFICATION TickSpec
CONSTANTS
  Sessions = {s1, s2}
  Collectors = {c1, c2}
  StaleAfter = 1
  EvictAfter = 2
  Target = 1
  Persist = TRUE
  None = None
  MaxStored = 1
  MaxSaid = 4
INVARIANTS TypeOK FoldedOnce LiveIsFollowed JudgedAlike
PROPERTIES StatesFollowActivity EventuallyEvicted
CHECK_DEADLOCK FALSE
