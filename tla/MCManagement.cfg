CONSTANTS
  ExtendedAddr = "ext"
  InvalidShort = "0xFFFF"
  NoneAssigned = "0xFFFE"
  BroadcastPan = "broadcast"
  NoBlob = "empty"
  DefaultTime = "5min"
  SeqSpace = 1
  Params = {"ShortAddress", "PanId"}
  Pans = {"pan"}
  Shorts = {"s1", "s2"}
  Channels = {"c1"}
  Powers = {"p1"}
  MaxInputs = 4
  MaxFailures = 1
SPECIFICATION FairSpec
INVARIANTS
  TypeOK
  RequestedIsPib
  SettledMeansApplied
  BeaconsTellTheTruth
PROPERTY EventuallyApplied
CHECK_DEADLOCK FALSE
