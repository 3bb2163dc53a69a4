CONSTANTS
  Txid = {t1, t2, t3, t4}
  KeyPair = {ab, cd}
  None = None
  Untouched = Untouched
  MaxSequence = 2
  OpenHeight = 2
  CloseHeight = 3
  InitLead = 1
  RefundDelay = 1
  MaxHeight = 4
SPECIFICATION Spec
CHECK_DEADLOCK FALSE
INVARIANTS
  TypeOK
  UndoExact
  ActiveCarrierIsUnspent
  ActiveIndexExact
  OneStepPerBlock
  RowsAccountForObjects
  EventsExplainObjects
PROPERTY ImplementsLifecycle
SYMMETRY Symmetry
