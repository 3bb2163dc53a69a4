CONSTANTS
  Block = {x, y}
  Reader = {r1}
  None = None
  MaxBlockLag = 0
  MaxHeight = 2
  MaxReorgs = 1
SPECIFICATION Spec
INVARIANTS
  TypeOK
  VerifiedUnlessRolledBack
