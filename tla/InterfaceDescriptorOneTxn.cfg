\* The specification's scenario: two concurrent first calls.
CONSTANTS
  Threads = {t1, t2}
  MaxCalls = 1
  Uninit = Uninit
  None = None
SPECIFICATION Spec
INVARIANT OneInterfaceTransaction
CHECK_DEADLOCK FALSE
