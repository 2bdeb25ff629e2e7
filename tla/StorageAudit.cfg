\* Two processes that log at the same time.
CONSTANTS
  Processes = {p1, p2}
  MaxObjects = 2
  MaxHandle = 3
  MaxLog = 2
SPECIFICATION Spec
INVARIANT ChainVerifies
