CONSTANT
  Requests <- MCRequestsREST
SPECIFICATION Spec
CHECK_DEADLOCK FALSE
INVARIANT NoRESTWithoutBindings
