SPECIFICATION Spec
CONSTANTS
  None = None
  Legacy = "legacy"
  Paths = {1, 2}
  Root <- MCRoot
  Stem <- MCStem
  MaxLines <- MCMaxLines
  Writes = {1, 2}
  Separated <- MCSeparated
  Stores <- MCStores
  MaxFiles <- MCMaxFiles
  MaxIngests = 1
  MaxWatches = 1
INVARIANTS TypeOK CountedOnce FoldsStayApart
PROPERTIES IngestLeavesRows
CHECK_DEADLOCK FALSE
