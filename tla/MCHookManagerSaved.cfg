CONSTANTS
  c1 = c1  l1 = l1
  e1 = e1  e2 = e2  e3 = e3
  g1 = g1  g2 = g2  g3 = g3
  o1 = o1  o2 = o2
  a = a  b = b
  fa = fa  fb = fb
  SysvHash <- SysvHashes  GnuHash <- GnuHashes  GotMax = 3
  Libraries <- NoLibraries
  Unset = Unset  Invalid = Invalid
  Threads = {c1, l1}
  Loaders = {l1}
  Elfs = {e1, e2}
  Preloaded = {e1}
  Gots = {g1, g2, g3}
  GotsOf <- ApartGots
  Origs = {o1, o2}
  OrigOf <- OneOrig
  Tasks = {a, b}
  Single = {b}
  Callers <- TwoCallers
  Funcs = {fa, fb}
  FuncOf <- TwoFuncs
  Exported = {}
  Manual = TRUE
  Bypass = FALSE
  Outcomes = {"done"}
SPECIFICATION Spec
CHECK_DEADLOCK FALSE
INVARIANT
  NotItself
