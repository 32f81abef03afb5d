SPECIFICATION PartsSpec
CONSTANTS
  Parts = {"report"}
  Watchers = {w1, w2}
  Metrics = {"hi", "lo"}
  LowerIsWorse = {"lo"}
  Snapshots <- MCSnapshots
  Targets = {1, 2}
  CapsOf <- MCCaps
  MaxObserved = 2
  Writers = {v1, v2}
  Backups = 3
  Room = 2
  MaxWritten = 9
  RootIds = {r1, r2}
  Ids = {1, 2}
  Savers = {s1}
  EarlierFiles <- MCEarlier
  Windows <- MCStarts
  MaxReports = 2
  DayLength = 2
  WeekLength = 2
  MinCell = 2
  MinPairs = 2
  Files = {1, 2, 3}
  Disks <- MCDisks
  Appended <- MCAppended
  Commands <- MCSingle
  Spans <- MCSpans
  Beginning = 8
  MaxClock = 9
  MaxChanges = 2
  Sessions = {1, 2, 3}
  IdOf <- MCIds
  RootOf <- MCRoots
  ProjectOf <- MCProjects
  Directories = {1}
  StoredRows <- MCStored
  MinPrefix = 2
  DisplayLimit = 2
  ProjectLimit = 2
  MaxAt = 2
INVARIANT OnlyEventsInWindow
CHECK_DEADLOCK FALSE
