CONSTANTS
  Fds = {c1}
  Jobs = {s1, s2}
  NULL = NULL
  SendSize = 2
  RecvSize = 2
  Overlap = FALSE
  Sync = FALSE
SPECIFICATION FairTransferSpec
PROPERTIES TransferEndsOnClose
