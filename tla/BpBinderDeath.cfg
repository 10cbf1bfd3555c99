\* One proxy shared by two threads, with a kernel or an RPC handle: safety of
\* the obituary list and the driver strong count, the refinement of the death
\* API, and every registered obituary settled after death (no symmetry under
\* liveness).
CONSTANTS
  Threads = {t1, t2}
  Recipients = {r1, r2}
  Cookies = {c1, c2}
  Flags = {0, 1}
  NULL = NULL
  RpcKinds = {FALSE, TRUE}
  IpcShutdown = FALSE
  MaxIncomingThreads = 1
  PromoteFromZero = TRUE
  MaxLinks = 3
SPECIFICATION Spec
INVARIANTS TypeOK DeathRequestMatchesList RemoteStrongBalanced ObituaryAccounting DeliveredInLinkOrder
PROPERTIES ObituaryEventuallySettled DeathNotificationSpec
CHECK_DEADLOCK FALSE
