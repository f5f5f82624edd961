CONSTANTS
  Plans <- MCPlans
  Streamed <- MCStreamedSet
  PromptLoop = TRUE
  Profiles <- MCProfiles
  Edits <- MCEdits
  MinGatherRunBytes = 3
SPECIFICATION FairSpec
INVARIANTS
  TypeOK
  PermitsBalance
  GatherIsSafe
  LeftoverIsUnread
  NothingHeld
  StarvedForCause
  EveryAnchorOnce
  DriverPlansAwaited
  BoundSuffices
  FloorSuffices
  GatherReadsItsSamples
  HashFollowsPipeline
  ReportPredictsPass
  DiagnosisIsEarned
PROPERTIES
  NoHang
  ImplementsInOrderStream
CHECK_DEADLOCK FALSE
