SPECIFICATION Spec
CONSTANTS
  Paths = {1, 2}
  Inodes = {i1, i2}
  Bytes = {x, nl}
  NL = nl
  MaxFiles = 1
  ChunkSize = 1
  FingerprintLen = 2
  None = None
  MaxLen = 1
  MaxVersion = 2
  MaxStops = 0
PROPERTIES DeletedOnlyIfGone
SYMMETRY InodeSymmetry
