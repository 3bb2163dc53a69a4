CONSTANTS
  Txid = {t1, t2, t3}
  KeyPair = {ab, cd}
  None = None
  Untouched = Untouched
  MaxSequence = 2
  OpenHeight = 2
  CloseHeight = 3
  InitLead = 1
  RefundDelay = 2
  MaxHeight = 4
  BatchBlocks = 2
  MaxReorgs = 2
SPECIFICATION HistorySpec
CHECK_DEADLOCK FALSE
INVARIANTS
  StoreTypeOK
  RootMatchesObjects
  TablesAgree
  CacheCoherent
  StoredCarrierIsUnspent
  ChainIsContiguous
  InsertsAreFresh
PROPERTIES
  TerminalIsFinal
  RollbackRestores
  ImplementsBlockStore
SYMMETRY Symmetry
