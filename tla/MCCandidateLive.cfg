SPECIFICATION FairSpec
CONSTANTS
  Sessions = {s1, s2}
  NoSession = NoSession
  TheDevice = TheDevice
  Calls = {c1}
  Operators = {op}
  Modes = {"dryrun", "check", "commit", "confirmed", "discard", "cli", "confirm"}
PROPERTY CallReturns
