CONSTANTS
  None = None
  MaxKeys = 1
  SignIds = {"one"}
  MaxEdits = 1
  Programs <- MCPrograms
  Symbols = {0, 1, 32}
  MaxMistakes = 1
  InitLead = 1
  FoundingWindow = 1
  MaxU32 = 5
  MaxBlocks = 3
  MaxReorgs = 1
  MaxSequence = 2
SPECIFICATION Spec
INVARIANTS
  SameVerdictOnStrings
  VerifiedMeansSigned
  SameMetadataSameTuples
  OneAddressPerCarrier
  ToolForesees
  AssertionsHold
PROPERTY
  SiteMirrorsStateEngine
CHECK_DEADLOCK FALSE
