CONSTANTS
  Fds = {f1, f2}
  Jobs = {j1}
  NULL = NULL
  EventFd = EventFd
  MaxNotify = 2
  RepeatedStop = TRUE
SPECIFICATION FairSpec
INVARIANTS TableAgrees KernelAgrees
PROPERTIES ImplementsReactor JobServed StopReturns
