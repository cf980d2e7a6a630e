CONSTANTS
  Addresses <- MCAddresses
  Size = 1
  MaxSets = 3
  MaxFailures = 2
  MaxResets = 2
SPECIFICATION FairSpec
INVARIANTS
  InitialisedMeansSynced
PROPERTY EventuallySynced
CHECK_DEADLOCK FALSE
