CONSTANTS
  c1 = c1
  c2 = c2
  m1 = m1
  m2 = m2
  Callers = {c1}
  Msgs = {m1}
  Transports = {"grpc", "rest"}
  MaxCalls = 2
  MaxAttempts = 2
  MaxOptions = 2
  ReuseMessages = TRUE
SPECIFICATION Spec
CHECK_DEADLOCK FALSE
INVARIANT IdMeansSetByUser
