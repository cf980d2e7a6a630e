CONSTANTS
  ExtendedAddr = "ext"
  InvalidShort = "0xFFFF"
  NoneAssigned = "0xFFFE"
  BroadcastPan = "broadcast"
  NoBlob = "empty"
  DefaultTime = "5min"
  SeqSpace = 1
  Params = {"PanId"}
  Channels = {11}
  OldShort <- MCOldShort
  OldExtended <- MCOldExtended
  OtherDevices = {"other"}
  Size = 1
  MaxFrameRetries = 0
  NoPayload = "none"
  MaxScans = 1
  MaxDenied = 1
  MaxDisturbances = 1
SPECIFICATION FairSpec
INVARIANTS
  RestMeansInStep
  
PROPERTIES
  EventuallyCoordinator
  DeviceIsAnswered
CHECK_DEADLOCK FALSE
