CONSTANTS
  x = x
  y = y
  Block = {x, y}
  Reader = {r1, r2, r3}
  Client = {c1}
  None = None
  MaxBlockLag = 1
  MaxHeight = 1
  MaxReorgs = 0
  Creates <- MCCreatesFew
  Limit = 1
SPECIFICATION FairSpec
INVARIANT SlotsAreExact
PROPERTIES
  CallerIsAnswered
  SlotIsReleased
