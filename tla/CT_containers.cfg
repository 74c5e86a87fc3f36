CONSTANTS
  Elements = {e1, e2, e3, e4}
  NULL = NULL
  Nodes = {1, 2, 3, 4, 5}
  Keys = {1, 2, 3}
  MaxSize = 3
SPECIFICATION Spec
SYMMETRY ElementSymmetry
CHECK_DEADLOCK FALSE
INVARIANTS ListIsSequence TreeIsAvl TreeHoldsEntries NextBelowIsRight BufferHasRoom
PROPERTIES RemoveNextGoesOn
