CONSTANTS
  Fds = {t1, t2}
  Jobs = {tmr_job}
  NULL = NULL
  EventFd = EventFd
  MaxNotify = 2
  RepeatedStop = FALSE
  Foreign = FALSE
SPECIFICATION FairTimerSpec
INVARIANTS TimersIntact ReadNeverBlocks
PROPERTIES DeadlineFires PostedPeriodicFires
