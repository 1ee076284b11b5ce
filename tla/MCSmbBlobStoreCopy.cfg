SPECIFICATION FairSpec
CONSTANTS
  Calls = {c1, c2}
  Copiers = {c2}
  RangeReaders = {}
  Keys = {k1}
  Sizes = {1}
  Ranges = {}
  ChunkSize = 1
  MaxTransfers = 1
  None = None
PROPERTIES EveryCallEnds
