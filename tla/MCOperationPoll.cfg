CONSTANTS
  m1 = m1
  m2 = m2
  h1 = h1
  h2 = h2
  a = a
  b = b
  zone = zone
  parent = parent
  o1 = o1
  Methods = {m1, m2}
  OpServices = {o1}
  Params = {zone, parent}
  Values = {a, b}
  Handles = {h1, h2}
  ServiceMethods <- TwoServices
  Places <- ThePlaces
  Apis <- TheApis
  MaxOps = 2
SPECIFICATION Spec
CHECK_DEADLOCK FALSE
INVARIANTS
  TypeOK
  AsksForItsOperation
PROPERTIES
  DoneIsFinal
  EveryWaitEnds
  ReportsOutcome
