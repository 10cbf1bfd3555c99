\* A kernel-handle proxy in a process whose IPCThreadState shuts down: is the
\* driver's death notification still cleared whenever the obituary list goes?
CONSTANTS
  Threads = {t1, t2}
  Recipients = {r1}
  Cookies = {c1}
  Flags = {0}
  NULL = NULL
  RpcKinds = {FALSE}
  IpcShutdown = TRUE
  MaxIncomingThreads = 0
  PromoteFromZero = TRUE
  MaxLinks = 2
SPECIFICATION Spec
INVARIANTS DeathRequestMatchesList
CHECK_DEADLOCK FALSE
