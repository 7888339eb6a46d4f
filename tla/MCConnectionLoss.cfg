SPECIFICATION FairSpec
CONSTANTS
  Requests = {b, s}
  Binds = {b}
  Endings = {"lost", "notice", "disconnect"}
  None = None

INVARIANTS Inv NoSleeperForgotten
PROPERTY DisposeEnds
CHECK_DEADLOCK FALSE
