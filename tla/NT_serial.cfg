CONSTANTS
  Fds = {c1}
  Jobs = {s1, s2}
  NULL = NULL
  SendSize = 3
  RecvSize = 3
  Overlap = FALSE
  Sync = TRUE
SPECIFICATION FairTransferSpec
INVARIANTS MessagesWhole
PROPERTIES TransferEnds
