CONSTANTS
  Fds = {c1, c2}
  Jobs = {s1, s2, s3}
  NULL = NULL
  SendSize = 3
  RecvSize = 3
  Overlap = TRUE
  Sync = FALSE
SYMMETRY TransferSymmetry
SPECIFICATION TransferSpec
INVARIANTS SrbsIntact RecvIntact SendContiguous SuccessIsWhole
