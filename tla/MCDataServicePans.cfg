CONSTANTS
  NoPayload = "none"
  Destinations <- MCTwoPans
  Size = 1
  SeqSpace = 2
  MaxFrameRetries = 0
  MaxRequests = 2
  MaxDataRequests = 0
  MaxFailures = 0
  MaxResets = 0
SPECIFICATION Spec
INVARIANT AwaitedMeansMarked
