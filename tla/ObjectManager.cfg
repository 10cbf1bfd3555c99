\* Two threads sharing one weak slot, two attach ids, destruction at any time;
\* make may call back into the proxy.  After destruction the system stops.
CONSTANTS
  Threads = {t1, t2}
  AttachIds = {a1, a2}
  WeakIds = {w1}
  Objects = {o1, o2, o3}
  Tags = {g1, g2}
  Binders = {b1, b2, b3}
  MakeReenters = TRUE
  CleanupReenters = FALSE
  None = None
SPECIFICATION Spec
INVARIANTS TypeOK WeakSlotShared CleanupExactlyOnce
PROPERTY AttachedObjectsSpec
CHECK_DEADLOCK FALSE
