\* Two terminals, two slots; a shell may be stopped between two saves.
CONSTANTS
  Terminals = {"t1", "t2"}
  Slots = {1, 2}
  Names = {"n1", "n2"}
  Pins = {"p1", "p2"}
  Domains = {"dA", "dB", "dC", "dD", "own"}
  OwnDomain = "own"
  Labels = {"", "l1", "l2"}
  Keys = {"k1", "k2", "k3"}
  Private = {"k1"}
  CustomTemplates <- MCTemplates
  None = none
  MaxSmk = 3
  LabelOf <- MCLabelOf
  MaxBackups = 2
  Stops = TRUE
  MaxSets = 2
  MaxShares = 2
  MaxCopies = 2
  Foci = {"domains", "keys", "policies", "officer", "ped", "backup"}
SPECIFICATION MCSpec
INVARIANTS
  TypeOK
  DomainListSound
  ReadyHasDomain
  ErasedForGood
  ModesAgree
  LockedOutZeroized
  RestoreReturnsLast
PROPERTIES
  BlobsSurviveRollover
  ObjectsKeepADomain
  LostForGood
  RollbackErases
