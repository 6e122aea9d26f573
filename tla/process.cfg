SPECIFICATION FairSpec
CONSTANTS
  Calls <- MCCalls
  PipeSize = 1
  MaxOutput = 2
  Statuses = {0, 128, 139, 160}
  Signals = {11}
  Interrupts = TRUE
INVARIANTS
  CommandInv
  NoOutputLost
  SurvivesOnlyTimeout
  TermsigOfProgram
PROPERTY TimeoutHonoured
