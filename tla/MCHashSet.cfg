SPECIFICATION FilterSpec
CONSTANTS
  t1 = t1
  t2 = t2
  t3 = t3
  de = de
  en = en
  rm = rm
  default = default
  None = None
  Threads <- MCThreads
  Items <- MCItems
  MaxAdds = 4
  Supported <- MCSupported
  DefaultSelector = default
  DefaultLanguage = en
  Cultures = {None, default, rm}
  Headers <- MCHeaders
  Adders = {t1, t2}
  Visitors = {t3}
  Creator = t1

INVARIANTS Inv BestSupported
PROPERTIES ReadsCompletedAdds SnapshotsImmutable ImplementsGrowOnlySet AddReturns
CHECK_DEADLOCK FALSE
