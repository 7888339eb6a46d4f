SPECIFICATION FairSpec
CONSTANTS
  Answers = 2
  IsBind = FALSE
  ById = FALSE
  Others <- AllOthers
  WriteMayFail = TRUE

INVARIANTS Inv DeliveredInOrder
PROPERTIES CallerEnds ImplementsResponseQueue
CHECK_DEADLOCK FALSE
