CONSTANTS
  a = a
  b = b
  c1 = c1
  c2 = c2
  c3 = c3
  t1 = t1
  t2 = t2
  Pass = {a, b}
  Chunk = {c1, c2}
  Tile = {t1}
  Weight <- UnitWeight
  Budget = 1
  IterationBytes = 0
  MaxOwners = 2
  MaxInflight = 1
  Assembles = FALSE
  BadTile <- NoBadTile
  BadTransform = {}
SPECIFICATION FairSpec
PROPERTIES StarvationIsTerminal
CHECK_DEADLOCK FALSE
