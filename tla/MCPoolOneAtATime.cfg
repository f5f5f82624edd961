CONSTANTS
  a = a
  b = b
  c1 = c1
  c2 = c2
  c3 = c3
  t1 = t1
  t2 = t2
  Pass = {a, b}
  Chunk = {c1, c2, c3}
  Tile = {t1, t2}
  Weight <- MixedWeight
  Budget = 2
  IterationBytes = 2
  MaxOwners = 2
  MaxInflight = 2
  Assembles = FALSE
  BadTile <- OneBadTile
  BadTransform = {}
SPECIFICATION FairSpec
INVARIANTS TypeOK ReadyIsComplete QuiescentMeansNoWriter NothingLeftBehind
PROPERTIES PublishedIsStable EveryWaitEnds
CHECK_DEADLOCK FALSE
