CONSTANTS
  t1 = t1
  h1 = h1
  h2 = h2
  o1 = o1
  o2 = o2
  fa = fa
  fb = fb
  s1 = s1
  p1 = p1
  p2 = p2
  Trampos = {p1, p2}
  NoTrampo = NoTrampo
  NoStack = NoStack
  Threads = {t1}
  Hubs = {h1, h2}
  Origs = {o1, o2}
  OrigOf <- TwoOrigs
  Funcs = {fa, fb}
  FuncsOf <- TwoFuncs
  Allowing = {fa}
  Slots = {s1}
  FrameMax = 2
  Delay = 0
  CallMax = 0
  TimeMax = 1
  NestMax = 2
  Insts = {h1, h2}
  TargetOf <- TwoTargets
  SizeOf <- TwoSizes
  CodeAt <- TwoCodes
  SegmentsOf <- OneLibrary
  Kernel = {}
  PageSize = 8
  Library <- FewWords
  NearSlots = {56}
  BranchBits = 6
  GapMayFail = TRUE
  Parts <- FewParts
  Parts32 <- FewArmParts
SPECIFICATION SharedSpec
SYMMETRY PlacesAlike
CHECK_DEADLOCK FALSE
INVARIANTS
  SharedTypeOK
  CallersAgree
  FramesMatchCalls
  Reentry
  ChainOrder
  NoUseAfterFree
  ReachesHub
  OrigWorks
  LibraryKept
  RelocationSound
