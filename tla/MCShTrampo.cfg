CONSTANTS
  PageSize = 8
  Size = 4
  Delay = 1
  MaxAddr = 50
  PageAddrs <- FewPages
  Requests <- ThreeRequests
  NowValues = {0, 2, 3, 9}
  Epoch = 2
  ClockMax = 3
SPECIFICATION Spec
CHECK_DEADLOCK FALSE
INVARIANTS
  TypeOK
  Disjoint
  FlagsMatch
  Reached
  NeverAborts
