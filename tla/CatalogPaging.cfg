CONSTANTS
  x = x
  y = y
  Block = {x, y}
  Reader = {r1}
  Client = {c1}
  None = None
  MaxBlockLag = 0
  MaxHeight = 2
  MaxReorgs = 2
  Creates <- MCCreates
  Limit = 1
SPECIFICATION Spec
INVARIANTS
  TypeOK
  CatalogIsOneSnapshot
  PagesNeverInconsistent
