SPECIFICATION FairSpec
CONSTANTS
  a1 = a1
  a2 = a2
  a3 = a3
  ab = ab
  b1 = b1
  free = free
  s1 = s1
  s2 = s2
  redir = redir
  sub1 = sub1
  sub2 = sub2
  Test <- MCTest
  Key = {"A", "B", "all"}
  All = "all"
  TestList <- MixedList
  fileConflictsWith <- MCConflicts
  Redirected <- MCRedirected
  NWorkers = 3
  MaxBatchSize = 1
  Shuffle = FALSE
  Faults = {}
INVARIANTS
  Exclusive
  NoTestLost
  ReportedOnce
  WaitingHasHolder
  SameKeyInOrder
PROPERTIES
  ImplementsTestPool
  Completes
