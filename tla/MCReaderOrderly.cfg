SPECIFICATION FairSpec
CONSTANTS
  Ops = {"connect", "disconnect"}
  TlsOutcomes = {}
  MayLose = FALSE
  Bound = TRUE
  MaxReaders = 5
  MaxSockets = 5

INVARIANTS OneReaderPerSocket OldReaderStopped
PROPERTY OpReturns
CHECK_DEADLOCK FALSE
