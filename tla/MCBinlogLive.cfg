SPECIFICATION FairSpec
CONSTANTS
  Dest = {d1}
  Replica = {}
  Big = {2}
  Expiring = {1}
  MaxFileSize = 2
  CacheSize = 2
  MarkFreq = 2
  Preempt = FALSE
  MaxRecords = 3
  MaxCrashes = 1
  MaxFaults = 0
PROPERTY EventuallyPushed
