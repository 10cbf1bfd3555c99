\* Two forward walks and one backward walk over a three-entry table whose
\* reads may fail; every walk ends, so the system stops.
CONSTANTS
  Prel31 <- MCPrel31
  Walks = {f1, f2, b1}
  Forward = {f1, f2}
  None = None
SPECIFICATION Spec
INVARIANTS TypeOK DerefAgreesWithMemory SuccessfulReadOnce
CHECK_DEADLOCK FALSE
