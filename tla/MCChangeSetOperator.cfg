SPECIFICATION Spec
CONSTANTS
  Sessions = {s1}
  NoSession = NoSession
  TheDevice = TheDevice
  Calls = {k1, k2}
  Operators = {o1}
  MaxCrashes = 1
SYMMETRY Symm
INVARIANT DiscardedMeansGone
PROPERTY CommitActivatesOwnChange
CHECK_DEADLOCK FALSE
