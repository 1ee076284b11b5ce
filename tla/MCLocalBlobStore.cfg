SPECIFICATION Spec
CONSTANTS
  Calls = {c1, c2, c3}
  Keys = {k1, k2}
  UploadingKeys = {}
  Sizes = {0, 2}
  Ranges <- MCRanges
  None = None
SYMMETRY MCSymmetry
INVARIANTS TypeOK OnlyCompleteVisible StreamsOneBody ErrorMeansUnpublished TempsAccounted StaleBodyIsReplaced
PROPERTIES PublishedImmutable BlobsAreNotLost ImplementsBlobStore
