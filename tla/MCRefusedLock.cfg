SPECIFICATION Spec
CONSTANTS
  Sessions = {s1, s2}
  NoSession = NoSession
  TheDevice = TheDevice
  Calls = {c1, c2}
  Operators = {op}
  Modes = {"dryrun"}
PROPERTY RefusedLockKeepsOperatorWork
