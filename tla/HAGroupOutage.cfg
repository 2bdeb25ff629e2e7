\* Both members may be out of service at once, and another shell administers the
\* group while a call is in progress.
CONSTANTS
  Slots = {s1, s2}
  Keys = {k1}
  None = none
  Modes <- RoundRobin
  RecoveryModes <- Automatic
  RetryCounts = {1}
  Intervals = {0}
  Firmwares = {f1}
  BaseFirmware = f1
  Policies = {p1}
  Cloneable = {p1}
  MaxVersion = 2
  MaxRetry = 1
  Hazards <- OutageAndShell
SPECIFICATION Spec
PROPERTIES
  NeverOlder
