\* Two processes that create objects at the same time.
CONSTANTS
  Processes = {p1, p2}
  MaxObjects = 2
  MaxHandle = 3
  MaxLog = 1
SPECIFICATION Spec
INVARIANT ReturnsItsHandle
