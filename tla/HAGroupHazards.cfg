\* Everything the environment can do to two members and one key.
CONSTANTS
  Slots = {s1, s2}
  Keys = {k1}
  None = none
  Modes <- RoundRobin
  RecoveryModes <- Automatic
  RetryCounts <- Unlimited
  Intervals = {0}
  Firmwares = {f1}
  BaseFirmware = f1
  Policies = {p1, p2}
  Cloneable = {p1}
  MaxVersion = 1
  MaxRetry = 0
  Hazards <- AllHazards
SPECIFICATION Spec
SYMMETRY Symmetric
INVARIANTS
  TypeOK
  
PROPERTIES
  TombstonesHold
  ReturnsClean
