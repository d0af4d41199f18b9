SPECIFICATION Spec
CONSTANTS
  Sessions = {s1, s2}
  NoSession = NoSession
  TheDevice = TheDevice
  Calls = {k1}
  Operators = {}
  MaxCrashes = 1
SYMMETRY Symm
INVARIANT LockedSessionNeverPooled
CHECK_DEADLOCK FALSE
