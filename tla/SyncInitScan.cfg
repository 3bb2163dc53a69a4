CONSTANTS
  Fork = {a, b}
  InitBlock = i
  None = None
  Corrupt = Corrupt
  BatchBlocks = 2
  FetchConcurrency = 2
  ScanDepth = 3
  ScanPerTick = 2
  Settings <- NothingIsIndexed
  MaxHeight = 3
  MaxReorgs = 1
  MaxFaults = 0
SPECIFICATION FairSpec
PROPERTY CatchesUp
