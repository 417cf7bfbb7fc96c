SPECIFICATION Spec
CONSTANTS
  PageSize = 1
  MaxResults = 3
  MaxClicks = 2
  StoreMayFail = TRUE
CHECK_DEADLOCK FALSE
INVARIANT TypeOK
INVARIANT NoGaps
INVARIANT RowsInOrder
PROPERTY AllReachable
