CONSTANTS
  Calls = {c1, c2}
  Callers = {alice, bob}
  NodeCount = 2
  MaxVersion = 3
  Capacity = 1
  Scenarios <- PinnedScenario
  alice = alice
  bob = bob
SPECIFICATION FairSpec
PROPERTY
  PinnedVersionIsDownloaded
CHECK_DEADLOCK FALSE
