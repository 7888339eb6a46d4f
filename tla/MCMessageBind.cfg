SPECIFICATION FairSpec
CONSTANTS
  Answers = 1
  IsBind = TRUE
  ById = TRUE
  Others <- AllOthers
  WriteMayFail = TRUE

INVARIANT Inv
PROPERTY BindReleases
CHECK_DEADLOCK FALSE
