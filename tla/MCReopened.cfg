SPECIFICATION Spec
CONSTANTS
  Sessions = {s1, s2}
  NoSession = NoSession
  TheDevice = TheDevice
  Calls = {k1, k2}
  Operators = {}
  MaxCrashes = 1
SYMMETRY Symm
PROPERTY SettledStaysSettled
CHECK_DEADLOCK FALSE
