SPECIFICATION Spec
CONSTANTS
  Calls = {c1, c2, c3}
  FileNames <- MCFileNames
  Sizes = {0, 3}
  Ranges <- MCRanges
  MaxChunk = 2
  None = None
SYMMETRY MCSymmetry
INVARIANTS TypeOK LocatorsDescribeBlobs RangeIsSlice
