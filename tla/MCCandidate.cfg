SPECIFICATION Spec
CONSTANTS
  Sessions = {s1, s2, s3}
  NoSession = NoSession
  TheDevice = TheDevice
  Calls = {c1, c2}
  Operators = {op}
  Modes = {"dryrun", "check", "commit", "confirmed", "discard", "cli", "confirm"}
SYMMETRY Symm
INVARIANT TypeOK
INVARIANT PooledSessionIsClean
INVARIANT LockHasOwner
INVARIANT NoSilentResidue
INVARIANT NoSilentCommit
PROPERTY CommitsOnlyOwnEdits
