SPECIFICATION Spec
CONSTANTS
  Calls = {c1, c2, c3}
  Uploaders = {c1, c2}
  Keys = {k1, k2}
  UploadingKeys = {k2}
  MaxChunks = 1
  Ranges <- MCRanges
  None = None
SYMMETRY MCSymmetry
INVARIANTS TypeOK InfoMeansCompleted WholeUnlessDisturbed RangeServesItsInfo TempsAccounted
