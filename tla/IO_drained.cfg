CONSTANTS
  Fds = {f1}
  Jobs = {j1}
  NULL = NULL
  EventFd = EventFd
  MaxNotify = 2
  RepeatedStop = FALSE
SPECIFICATION FairSpec
PROPERTIES DrainedStopReturns
