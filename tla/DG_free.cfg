CONSTANTS
  Fds = {skt}
  Jobs = {s1, s2, s3}
  NULL = NULL
  Big = TRUE
  Overlap = FALSE
  QueueLen = 2
  MaxDatagrams = 3
SYMMETRY DatagramSymmetry
SPECIFICATION DatagramSpec
INVARIANTS SrbFreedOnce
