SPECIFICATION Spec
CONSTANTS
  Dest = {d1}
  Replica = {4}
  Big = {4}
  Expiring = {}
  MaxFileSize = 2
  CacheSize = 3
  MarkFreq = 2
  Preempt = FALSE
  MaxRecords = 4
  MaxCrashes = 1
  MaxFaults = 1
INVARIANTS TypeOK MarkIsSafe NoGap CleanMarkIsPosition  LogOrdered HealthyServerStaysUp
