CONSTANTS
  c1 = c1
  c2 = c2
  m1 = m1
  m2 = m2
  Callers = {c1, c2}
  Msgs = {m1, m2}
  Transports = {"grpc", "rest"}
  MaxCalls = 2
  MaxAttempts = 2
  MaxOptions = 2
  ReuseMessages = FALSE
SPECIFICATION Spec
CHECK_DEADLOCK FALSE
INVARIANTS
  TypeOK
  OptionsAreOwn
  HeadersAreOwn
  RetriesReuseId
PROPERTY
  PerformsAtMostOnce
