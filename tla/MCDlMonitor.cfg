CONSTANTS
  t1 = t1  t2 = t2
  libc = libc  la = la  lb = lb  lc = lc
  a = a  b = b
  NoOne = NoOne
  Threads = {t1, t2}
  Libs = {libc, la, lb, lc}
  Preloaded = {libc}
  OpenedBy <- TwoOwners
  CtorOpens <- OneCtor
  Tasks = {a, b}
  Starters = {t1}
  MapMax <- TwoMaps
  MayFail = TRUE
SPECIFICATION Spec
INVARIANTS
  TypeOK
  ElfStaysMapped
  AllHooked
PROPERTIES
  ManagerAnswersRight
  HookReturns
