\* Three members that fail, are cut off and recover while one stays in service,
\* in both routing modes; a poll finds any of them due.
CONSTANTS
  Slots = {s1, s2, s3}
  Keys = {k1, k2}
  None = none
  Modes <- BothModes
  RecoveryModes <- Automatic
  RetryCounts <- Unlimited
  Intervals = {1}
  Firmwares = {f1}
  BaseFirmware = f1
  Policies = {p1}
  Cloneable = {p1}
  MaxVersion = 2
  MaxRetry = 0
  Hazards <- Calm
SPECIFICATION Spec
SYMMETRY Symmetric
INVARIANTS
  OneCopy
PROPERTIES
  DestroyedStaysDestroyed
  IsolatedUntouched
  LooksLikeOneStore
