CONSTANTS
  warm = warm
  edit = edit
  spill = spill
  reader = reader
  viewer = viewer
  old = old
  kx = kx
  ky = ky
  x = x
  y = y
  f = f
  g = g
  v3 = v3
  v4 = v4
  Proc = {warm, edit, spill, reader, viewer, old}
  Key = {kx, ky}
  Array = {x, y}
  ArrayOf <- TwoKeys
  Fingerprint = {f, g}
  Version = {v3, v4}
  Kind <- KindOf
  Reads <- ReadsOf
  FingerprintOf <- EditedFingerprint
  VersionOf <- Formats
  Resets = {warm, edit, old}
  DiesHeaderless = FALSE
  DiesClobbering = FALSE
  MaxOpens = 5
  MaxShortWrites = 1
SPECIFICATION Spec
SYMMETRY ReadersSymmetric
INVARIANTS TypeOK ServedIsMine LogIsTruthful ReadyIsLogged MappedUnderLock NoDuplicateLine NoFalseCorruption
PROPERTIES ResetTakesOnlyStale
CHECK_DEADLOCK FALSE
