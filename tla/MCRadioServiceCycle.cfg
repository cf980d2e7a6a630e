CONSTANTS
  Ids = {i1, i2, i3, i4}
  OldIds = {}
  StartUp = 1
  Burst = 2
  MaxRequests = 4
  MaxPackets = 0
  MaxLost = 0
SPECIFICATION Spec
INVARIANT NoWaitCycle
CHECK_DEADLOCK FALSE
