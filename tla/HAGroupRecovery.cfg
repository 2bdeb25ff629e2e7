\* Liveness: two members, both recovery modes, finite and infinite retry
\* budgets, firmware that may differ; every member may fail at any time.
CONSTANTS
  Slots = {s1, s2}
  Keys = {k1}
  None = none
  Modes <- RoundRobin
  RecoveryModes <- BothRecoveries
  RetryCounts <- Budgets
  Intervals = {0}
  Firmwares = {f1, f2}
  BaseFirmware = f1
  Policies = {p1}
  Cloneable = {p1}
  MaxVersion = 1
  MaxRetry = 1
  Hazards <- OnlyOutage
SPECIFICATION FairSpec
PROPERTIES
  RecoveryReturns
