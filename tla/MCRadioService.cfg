CONSTANTS
  Ids = {i1, i2, i3, i4}
  OldIds = {i1}
  StartUp = 2
  Burst = 3
  MaxRequests = 5
  MaxPackets = 2
  MaxLost = 2
SPECIFICATION FairSpec
INVARIANTS
  TypeOK
  ReplyFindsItsParser
  EachRequestInOnePlace
PROPERTY StartUpCompletes
CHECK_DEADLOCK FALSE
