SPECIFICATION Spec
CONSTANTS
  Paths = {1}
  Inodes = {i1, i2}
  Bytes = {x, nl}
  NL = nl
  MaxFiles = 1
  ChunkSize = 2
  FingerprintLen = 1
  None = None
  MaxLen = 3
  MaxVersion = 2
  MaxStops = 2
INVARIANTS TypeOK ExactPrefix WholeLines
 
SYMMETRY InodeSymmetry
