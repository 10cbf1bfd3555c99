\* Three threads calling getInterfaceDescriptor twice each, with failures.
\* The calls are bounded, so the system stops once all have returned.
CONSTANTS
  Threads = {t1, t2, t3}
  MaxCalls = 2
  Uninit = Uninit
  None = None
SPECIFICATION Spec
INVARIANTS ReturnedDescriptorIsCached SuccessNeverReturnsUninit
CHECK_DEADLOCK FALSE
