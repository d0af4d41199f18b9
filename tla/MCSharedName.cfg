SPECIFICATION Spec
CONSTANTS
  x = x
  y = y
  r1 = r1
  r2 = r2
  r3 = r3
  c1 = c1
  c2 = c2
  v1 = v1
  v2 = v2
  Calls = {x, y}
  Routers = {r1, r2, r3}
  Scenarios <- SharedNameScenarios
  Contents = {c1, c2}
  InitStaged <- MCInitStaged
  InitRemote <- MCInitRemote
  PasswordRouters = {r3}
  Storage <- MCStorage
  Size <- MCSize
  HeadroomSize = 1
  MaxName = 3
  HostKeyMode = "AcceptNew"
  KnownHostsFile = FALSE
  ScpErrors = {"Interrupted", "Connection timed out", "@revoked"}
  NameRank <- MCNameRank
  MaxListed = 2
  MaxRestage = 1
  Versions = {v1, v2}
  Carries <- MCCarries
  InitVersion <- MCInitVersion
  Clustered = {r3}
  Authority <- MCAuthority
  AllowPlaneWrites = FALSE
  UpgradeHeadroom = 1
  InstallErrors = {"broken pipe", "syntax error"}
  MaxPolls = 2
CHECK_DEADLOCK FALSE
PROPERTY PromotedFileIsVerified
