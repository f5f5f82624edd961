CONSTANTS
  warm = warm
  edit = edit
  spill = spill
  reader = reader
  viewer = viewer
  old = old
  kx = kx
  ky = ky
  x = x
  y = y
  f = f
  g = g
  v3 = v3
  v4 = v4
  Proc = {warm}
  Key = {kx, ky}
  Array = {x, y}
  ArrayOf <- TwoKeys
  Fingerprint = {f, g}
  Version = {v3, v4}
  Kind <- KindOf
  Reads <- ReadsOf
  FingerprintOf <- EditedFingerprint
  VersionOf <- Formats
  Resets = {}
  DiesHeaderless = FALSE
  DiesClobbering = FALSE
  MaxOpens = 3
  MaxShortWrites = 1
SPECIFICATION Spec
INVARIANTS EveryReadyIsLogged
CHECK_DEADLOCK FALSE
