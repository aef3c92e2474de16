SPECIFICATION FairSpec
CHECK_DEADLOCK FALSE  \* the function returns
CONSTANTS
  Inputs <- UpToBound
  Bound = 2000
INVARIANT ReturnsFloorSqrt
INVARIANT NeverBelow
PROPERTY Terminates
