SPECIFICATION Spec
CONSTANTS
  Peers = 2
  Scenarios <- AnyJoin
  MaxTime = 3
INVARIANTS TypeOK SkipCovered NothingLost 
