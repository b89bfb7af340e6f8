SPECIFICATION Spec
CONSTANTS
  Dest = {d1}
  Replica = {}
  Big = {}
  Expiring = {}
  MaxFileSize = 3
  CacheSize = 1
  MarkFreq = 2
  Preempt = TRUE
  MaxRecords = 4
  MaxCrashes = 0
  MaxFaults = 1
INVARIANT NoGap
