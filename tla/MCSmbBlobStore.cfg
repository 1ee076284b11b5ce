SPECIFICATION FairSpec
CONSTANTS
  Calls = {c1, c2, c3}
  Copiers = {c1}
  RangeReaders = {c2}
  Keys = {k1}
  Sizes = {3}
  Ranges <- MCRanges
  ChunkSize = 3
  MaxTransfers = 2
  None = None
INVARIANTS TypeOK RenamedFilesAreWhole OneConditionalWinner TempsAccounted NoTransferDeadlock
PROPERTIES EveryCallEnds
