SPECIFICATION Spec
CONSTANTS
  Ops = {"connect", "disconnect"}
  TlsOutcomes = {}
  MayLose = TRUE
  Bound = TRUE
  MaxReaders = 3
  MaxSockets = 2

INVARIANT Inv
CHECK_DEADLOCK FALSE
