SPECIFICATION Spec
CONSTANTS
  Calls = {c1, c2}
  Uploaders = {c1, c2}
  Keys = {k1}
  UploadingKeys = {}
  MaxChunks = 1
  Ranges <- MCRanges
  None = None
INVARIANTS InfoDescribesBytes
