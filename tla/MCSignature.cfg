CONSTANTS
  Calls = {c1, c2}
  Callers = {alice, bob}
  NodeCount = 2
  MaxVersion = 2
  Capacity = 1
  Scenarios <- AllScenarios
  alice = alice
  bob = bob
SPECIFICATION FairSpec
INVARIANTS
  RunsWerePreviewed
PROPERTIES
  OnlyTheHolderInstalls
  VerdictMatchesPreview
  LeaseIsReturned
CHECK_DEADLOCK FALSE
