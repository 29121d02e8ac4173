CONSTANTS
  i1 = i1
  i2 = i2
  r1 = r1
  Iters <- MCTwoIters
  Reqs <- MCReqs
  Transport <- MCTwoTransports
  PageSizeType = "uint32"
  NItems = 2
  MaxInt32 = 1
  Tokens = {1}
  ReqSizes = {0}
  AskSizes = {2}
  MaxProbes = 1
  MaxEmpty = 1
SPECIFICATION Spec
INVARIANTS
  TypeOK
  Contiguous
  DoneMeansExhausted
  StartAsRequested
  ResponseIsCurrent
PROPERTIES
  CallerRequestsUntouched
  ReadsPagedList
