SPECIFICATION Spec
CONSTANTS
  Sessions = {s1, s2}
  NoSession = NoSession
  TheDevice = TheDevice
  Calls = {k1, k2}
  Operators = {}
  MaxCrashes = 2
SYMMETRY Symm
PROPERTY SweepSettlesPermanent
PROPERTY ImplementsChangeControl
PROPERTY SweptLockIsFree
CHECK_DEADLOCK FALSE
