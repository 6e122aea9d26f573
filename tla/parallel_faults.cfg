SPECIFICATION FairSpec
CONSTANTS
  a1 = a1
  a2 = a2
  a3 = a3
  ab = ab
  b1 = b1
  free = free
  s1 = s1
  s2 = s2
  redir = redir
  sub1 = sub1
  sub2 = sub2
  Test <- MCTest
  Key = {"A", "B", "all"}
  All = "all"
  TestList <- FaultList
  fileConflictsWith <- MCConflicts
  Redirected <- MCRedirected
  NWorkers = 2
  MaxBatchSize = 1
  Shuffle = TRUE
  Faults = {"spawn", "late", "crash", "php_error"}
INVARIANTS
  RunInv
  WaitsForSomeone
  NoFalseAlarm
PROPERTIES
  Ends
  CountsDown
