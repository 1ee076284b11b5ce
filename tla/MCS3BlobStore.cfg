SPECIFICATION Spec
CONSTANTS
  Calls = {c1, c2}
  Chars = {"a", "b", "p", "q", "/"}
  Keys <- MCKeys
  Prefix <- MCPrefix
  Slash = "/"
  Foreign <- MCForeign
  Sizes = {1, 2, 3, 5}
  PartSize = 2
  MaxChunk = 3
  MaxParts = 2
  Ranges <- MCRanges
  MaxTries = 2
  MaxFaults = 2
  None = None
SYMMETRY MCSymmetry
INVARIANTS TypeOK ObjectsAreWhole OneConditionalWinner UploadsAccounted ListingNamesBlobs
PROPERTIES ImplementsRemoteStore
