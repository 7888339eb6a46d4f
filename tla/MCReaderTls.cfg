SPECIFICATION Spec
CONSTANTS
  Ops = {"connect", "disconnect", "startTls"}
  TlsOutcomes = {"ok", "refused", "busy", "rejected"}
  MayLose = FALSE
  Bound = TRUE
  MaxReaders = 3
  MaxSockets = 2

INVARIANT ConnectedIsRead
CHECK_DEADLOCK FALSE
