CONSTANTS
  a = a
  b = b
  c1 = c1
  c2 = c2
  c3 = c3
  t1 = t1
  t2 = t2
  Pass = {a, b}
  Chunk = {c1, c2}
  Tile = {t1, t2}
  Weight <- UnitWeight
  Budget = 1
  IterationBytes = 1
  MaxOwners = 2
  MaxInflight = 2
  Assembles = TRUE
  BadTile <- NoBadTile
  BadTransform = {}
SPECIFICATION Spec
SYMMETRY PassSymmetric
INVARIANTS QuiescentMeansNoWriter
CHECK_DEADLOCK FALSE
