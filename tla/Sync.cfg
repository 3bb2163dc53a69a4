CONSTANTS
  Fork = {a, b}
  InitBlock = i
  None = None
  Corrupt = Corrupt
  BatchBlocks = 2
  FetchConcurrency = 2
  ScanDepth = 1
  ScanPerTick = 2
  Settings <- Both
  MaxHeight = 3
  MaxReorgs = 1
  MaxFaults = 1
SPECIFICATION FairSpec
INVARIANTS
  TypeOK
  StoredChainIsOneBranch
  CacheFollowsTip
PROPERTIES
  RollbackIsExactIfWalkAnswers
  CatchesUpWithTxIndex
