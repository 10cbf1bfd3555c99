\* A kernel-handle proxy: does linkToDeath refuse once mAlive is false?
CONSTANTS
  Threads = {t1, t2}
  Recipients = {r1, r2}
  Cookies = {c1}
  Flags = {0}
  NULL = NULL
  RpcKinds = {FALSE}
  IpcShutdown = FALSE
  MaxIncomingThreads = 0
  PromoteFromZero = FALSE
  MaxLinks = 2
SPECIFICATION Spec
PROPERTIES NoLinkAfterDeath
CHECK_DEADLOCK FALSE
