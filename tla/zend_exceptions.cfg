SPECIFICATION FairSpec
CONSTANTS
  Programs <- MCPrograms
  Outcomes = {"ok", "A", "B", "exit"}
INVARIANTS TypeOK Structured ThrownOnlyToCatch FreedOnce NothingLeaks
PROPERTIES Terminates
