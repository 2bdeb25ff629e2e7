\* Two activated roles of a V1 partition, with everything that can happen to them.
CONSTANTS
  Clients = {c1}
  Sids = {s1}
  Roles = {"SO", "CO", "LCO"}
  AuthMode = "ped"
  Limits = {2}
  Switches <- AllSwitches
  Occasions <- AllOccasions
SPECIFICATION Spec
INVARIANTS
  QuorumVouched
  ArmedIsCached
  AttemptsBounded
