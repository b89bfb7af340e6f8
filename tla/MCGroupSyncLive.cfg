SPECIFICATION FairSpec
CONSTANTS
  Peers = 2
  Scenarios <- AnyEnd
  MaxTime = 1
PROPERTY JoinCompletes
