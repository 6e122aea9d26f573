SPECIFICATION FairSpec
CONSTANTS
  Calls <- OnlySkipCall
  PipeSize = 1
  MaxOutput = 2
  Statuses = {0, 128, 255}
  Signals = {11}
  Interrupts = FALSE
PROPERTY Returns
