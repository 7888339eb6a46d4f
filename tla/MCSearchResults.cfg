SPECIFICATION FairSpec
CONSTANTS
  MaxReplies = 3
  MaxCuts = 1
  BatchSizes <- Sizes
  MaxNulls = 2
  Following <- NotFollowing

INVARIANTS TypeOK GivenInOrder NothingKeptBack
PROPERTIES HasMoreIsHonest ReadingEnds
