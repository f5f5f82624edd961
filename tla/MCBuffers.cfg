CONSTANTS
  Iterations = {p, q}
  Slots = {s}
  Rows = {1, 2}
  Memory <- MCMemory
  CopiedFrom <- MCCopiedFrom
  PageLocked <- MCPageLocked
  Events = {e, f}
  None = None
SPECIFICATION Spec
SYMMETRY MCSymmetry
INVARIANTS
  TypeOK
  WrittenAlone
  HeldUntilLanded
  Converges
CHECK_DEADLOCK FALSE
