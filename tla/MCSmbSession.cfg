SPECIFICATION FairSpec
CONSTANTS
  Calls = {c1, c2}
  Attempts = 2
  MaxOutages = 1
  MaxFaults = 1
  None = None
INVARIANTS TypeOK RetryFindsNewClient ReconnectBudget
PROPERTIES BrokenClientReplaced EveryCallEnds
