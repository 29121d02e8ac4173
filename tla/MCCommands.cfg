CONSTANTS
  Methods <- MCMethods
  MaxLines = 3
  MaxItems = 3
SPECIFICATION Spec
CHECK_DEADLOCK FALSE
INVARIANT SuccessIsComplete
PROPERTY EveryCommandEnds
