\* Two processes at the quota of two objects.
CONSTANTS
  Processes = {p1, p2}
  MaxObjects = 2
  MaxHandle = 3
  MaxLog = 1
SPECIFICATION Spec
SYMMETRY Symmetric
INVARIANTS
  QuotaOverrun
PROPERTIES
  HandleKeepsObject
