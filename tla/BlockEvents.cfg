CONSTANTS
  x = x
  y = y
  Block = {x, y}
  Reader = {r1}
  None = None
  MaxBlockLag = 1
  MaxHeight = 3
  MaxReorgs = 2
  Events <- MCEvents
  Limit = 2
SPECIFICATION Spec
INVARIANTS
  EventsAreOfOneBlock
  PageIsUnderItsCheckpoint
