SPECIFICATION FairSpec
CONSTANTS
  Calls = {c1, c2}
  Keys = {k1}
  UploadingKeys = {k1}
  Sizes = {0, 1}
  Ranges <- MCRanges
  None = None
PROPERTIES EveryCallEnds
