SPECIFICATION Spec
CONSTANTS
  Calls = {c1, c2}
  Copiers = {}
  RangeReaders = {}
  Keys = {k1}
  Sizes = {1}
  Ranges = {}
  ChunkSize = 1
  MaxTransfers = 2
  None = None
PROPERTIES ConditionalWritesKeepOthers
