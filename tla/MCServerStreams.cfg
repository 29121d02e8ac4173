CONSTANTS
  Transports = {"grpc", "rest"}
  MaxItems = 3
  MaxAttempts = 2
SPECIFICATION Spec
CHECK_DEADLOCK FALSE
INVARIANTS
  TypeOK
  OnlyTheCallerEndsIt
PROPERTIES
  NothingAfterCancel
  EveryStreamEnds
  ReceivesStream
