CONSTANTS
  Fds = {lfd, f1, f2}
  Jobs = {host_job, c1, c2}
  NULL = NULL
  Listen = lfd
  HostJob = host_job
  MaxBacklog = 1
  MaxDepth = 2
  MaxOwed = 2
SYMMETRY EndpointSymmetry
CHECK_DEADLOCK FALSE
SPECIFICATION EndpointsSpec
INVARIANTS HostIntact LockGivenBack ClosesOwn NoStaleJob AcceptNeverBlocks NothingLeft
