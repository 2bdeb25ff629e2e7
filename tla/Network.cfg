\* Two terminals, two clients and one partition; a shell may be stopped between
\* two saves.
CONSTANTS
  Terminals = {"t1", "t2"}
  Names = {"admin", "operator", "user"}
  Passwords = {"p1", "p2"}
  NoPassword = "none"
  Nobody = nobody
  Interfaces = {"eth0", "eth1"}
  Ciphers = {"AES-256-GCM", "AES-128-GCM"}
  Numbers = {0, 1000, 3600, 3601}
  Clients = {c1, c2}
  Slots = {s1}
  MaxId = 4
  MaxCert = 3
  Stops = TRUE
SPECIFICATION MCSpec
SYMMETRY Symmetric
INVARIANTS
  TypeOK
  OneLinkPerPair
  IdentityMeansOne
  ServedUnderCurrentCert
PROPERTIES
  ConversionKeepsAccess
