SPECIFICATION Spec
CONSTANTS
  Keys <- PlainKeys
  Hidden <- HiddenFiles
  Temps <- TempFiles
  InternalDir <- InternalName
  Slash <- SlashRank
  Prefix <- Root
  PageLimit = 2
  MaxEdits = 2
INVARIANTS TypeOK NoKeyLost ListedInOrder OnlyBlobsListed
PROPERTIES ListingEnds
