SPECIFICATION FairSpec
CONSTANTS
  Paths = {1, 2}
  Inodes = {i1, i2}
  Bytes = {x, nl}
  NL = nl
  MaxFiles = 2
  ChunkSize = 1
  FingerprintLen = 2
  None = None
  MaxLen = 2
  MaxVersion = 2
  MaxStops = 0
PROPERTIES KeepsSourceProtocol EventuallyRead
