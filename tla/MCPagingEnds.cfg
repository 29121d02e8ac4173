CONSTANTS
  i1 = i1
  i2 = i2
  r1 = r1
  Iters <- MCOneIter
  Reqs <- MCReqs
  Transport <- MCOneTransport
  PageSizeType = "int32"
  NItems = 3
  MaxInt32 = 1
  Tokens = {1, 3}
  ReqSizes = {0, 1}
  AskSizes = {0, 2}
  MaxProbes = 1
  MaxEmpty = 2
SPECIFICATION FairSpec
PROPERTIES
  PageWithinAsked
  EveryIterationEnds
