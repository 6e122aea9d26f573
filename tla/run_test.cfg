SPECIFICATION Spec
CONSTANTS
  here = here
  there = there
  common = common
  asksEnv = asksEnv
  plain = plain
  dbg = dbg
  dbgExt = dbgExt
  headers = headers
  empty = empty
  broken = broken
  gzip = gzip
  skipHere = skipHere
  skipThere = skipThere
  envSet = envSet
  envUnset = envUnset
  leaky = leaky
  redir = redir
  redirNone = redirNone
  sub = sub
  subRedir = subRedir
  None = None
  Dirs = {here, there}
  Tests <- MCTests
  T <- MCT
  Lists <- MCLists
  ReadsEnv = {asksEnv}
  Options <- MCOptions
INVARIANTS TypeOK FailuresListed ExitTruthful OneResult SkipFresh OwnDirectory ReportAddsUp MergesComplete
PROPERTY Terminates
