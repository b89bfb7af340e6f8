SPECIFICATION Spec
CONSTANTS
  Peers = 2
  Scenarios <- LateFirst
  MaxTime = 3
INVARIANT SameData
