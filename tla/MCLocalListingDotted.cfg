SPECIFICATION Spec
CONSTANTS
  Keys <- DottedKeys
  Hidden <- HiddenFiles
  Temps <- TempFiles
  InternalDir <- InternalName
  Slash <- SlashRank
  Prefix <- Root
  PageLimit = 1
  MaxEdits = 0
INVARIANTS NoKeyLost
