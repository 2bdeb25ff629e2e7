\* Two clients log in to one role at the same time.
CONSTANTS
  Clients = {c1, c2}
  Sids = {s1}
  Roles = {"SO", "CO"}
  AuthMode = "password"
  Limits = {2}
  Switches <- NoSwitches
  Occasions = {}
SPECIFICATION Spec
SYMMETRY Symmetric
PROPERTIES
  LockedAtPolicyLimit
