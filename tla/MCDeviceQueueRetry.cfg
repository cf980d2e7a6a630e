CONSTANTS
  Keys = {k1}
  Payloads = {"none"}
  NoPayload = "none"
  SeqSpace = 2
  MaxFrameRetries = 1
  MaxDataRequests = 1
SPECIFICATION Spec
INVARIANT SleepMissesNothing
