\* A cleanup run by kill() attaches a new object to the dying proxy.
CONSTANTS
  Threads = {t1, t2}
  AttachIds = {a1, a2}
  WeakIds = {w1}
  Objects = {o1, o2, o3}
  Tags = {g1, g2}
  Binders = {b1, b2, b3}
  MakeReenters = FALSE
  CleanupReenters = TRUE
  None = None
SPECIFICATION Spec
INVARIANT CleanupExactlyOnce
CHECK_DEADLOCK FALSE
