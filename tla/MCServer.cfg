CONSTANTS
  Clients = {c1}
  Devices = {d1, d2}
  Tokens = {t1}
  Grants <- SomeGrants
  Configs <- SomeConfigs
  MaxReloads = 1
  d1 = d1
  d2 = d2
SPECIFICATION Spec
INVARIANTS
  WritesNeedANamedGrant
  WorkStaysInScope
  NoUngatedCommit
  RoutesAgree
  JunosCallsLeaveOneRecord
  ResponsesAreRedacted
