SPECIFICATION FairSpec
CONSTANTS
  MaxLeft = 4
  MaxRight = 2
  Cols = {a, b}
  LeftTables <- MCLeftTables
  RightTables <- MCRightTables
  BlockSizes = {0, 1, 2}
  FrameCounts = {2, 3, 4, 5}
  NoPage = 0
CHECK_DEADLOCK FALSE
INVARIANTS
  TypeOK
  PairsOnce
  JoinComplete
  NeverRefused
PROPERTY
  JoinReturns
