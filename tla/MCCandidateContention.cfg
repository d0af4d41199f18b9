SPECIFICATION FairSpec
CONSTANTS
  Sessions = {s1, s2}
  NoSession = NoSession
  TheDevice = TheDevice
  Calls = {c1, c2}
  Operators = {}
  Modes = {"commit","cli"}
PROPERTY CallReturns
PROPERTY LockReleased
CHECK_DEADLOCK FALSE
