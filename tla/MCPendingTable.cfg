CONSTANTS
  Values = {a, b, c}
  Size = 2
  MaxSets = 5
  MaxFailures = 2
SPECIFICATION FairSpec
INVARIANTS
  TypeOK
  OrderIsPermutation
  FreeSlotsFirst
  SlotsHoldValues
  OneUpdate
  CleanMeansSynced
PROPERTIES
  EventuallySynced
  ImplementsLru
CHECK_DEADLOCK FALSE
