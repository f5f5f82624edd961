CONSTANTS
  Plans <- MCWidePlans
  Streamed <- MCWideSet
  PromptLoop = TRUE
  Profiles <- MCProfiles
  Edits <- MCEdits
  MinGatherRunBytes = 3
SPECIFICATION Spec
INVARIANT
  NeverStarved
CHECK_DEADLOCK FALSE
