\* make() calls back into the proxy while lookupOrCreateWeak holds mLock.
CONSTANTS
  Threads = {t1, t2}
  AttachIds = {a1, a2}
  WeakIds = {w1}
  Objects = {o1, o2, o3}
  Tags = {g1, g2}
  Binders = {b1, b2, b3}
  MakeReenters = TRUE
  CleanupReenters = FALSE
  None = None
SPECIFICATION Spec
PROPERTY EveryLookupReturns
CHECK_DEADLOCK FALSE
