CONSTANTS
  t1 = t1  t2 = t2
  h1 = h1  h2 = h2  h3 = h3
  o1 = o1  o2 = o2  o3 = o3
  fa = fa  fb = fb
  a = a  b = b  c = c  d = d
  s1 = s1  NoStack = NoStack
  Threads = {t1}
  Hooks = {h1, h2}
  Origs = {o1, o2}
  Funcs = {fa, fb}
  Tasks = {a, b, c}
  OrigOf <- TwoOrigs
  FuncOf <- PairFuncs
  Targets <- PairTargets
  Slots = {s1}
  FrameMax = 1
  AddMax = 1
  NestMax = 2
SPECIFICATION Spec
CHECK_DEADLOCK FALSE
INVARIANTS
  TypeOK
  OneEnabledPerFunc
PROPERTY
  KeepsPromise
