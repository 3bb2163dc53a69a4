CONSTANTS
  Block = {x, y}
  Reader = {r1}
  None = None
  MaxBlockLag = 1
  MaxHeight = 2
  MaxReorgs = 1
SPECIFICATION Spec
INVARIANT
  WithheldWhenStateChanged
