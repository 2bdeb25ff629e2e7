\* Two clients of a PIN-authenticated partition, their logins overlapping, through tampers.
CONSTANTS
  Clients = {c1, c2}
  Sids = {s1, s2}
  Roles = {"SO", "CO"}
  AuthMode = "password"
  Limits = {2}
  Switches <- NoSwitches
  Occasions = {"tamper"}
SPECIFICATION Spec
SYMMETRY Symmetric
INVARIANTS
  TypeOK
  AuthorityIsCurrent
  SessionsEndWithDevice
  ReportedState
  OneRole
PROPERTIES
  LockStays
