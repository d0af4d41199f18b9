SPECIFICATION Spec
CONSTANTS
  Sessions = {s1, s2}
  NoSession = NoSession
  TheDevice = TheDevice
  Calls = {k1}
  Operators = {}
  MaxCrashes = 1
SYMMETRY Symm
PROPERTY ConfirmedMeansLive
CHECK_DEADLOCK FALSE
