CONSTANTS
  MaxEvents = 2
  Anywhere = TRUE
SPECIFICATION Spec
INVARIANT SplitLinesWhole
CHECK_DEADLOCK FALSE
