CONSTANTS
  NoPayload = "none"
  Destinations <- MCDestinations
  Size = 1
  SeqSpace = 1
  MaxFrameRetries = 0
  MaxRequests = 2
  MaxDataRequests = 1
  MaxFailures = 0
  MaxResets = 1
SPECIFICATION FairSpec
INVARIANTS
  HandlesMatchQueues
  ShortPendingFollowsQueues
PROPERTY EveryRequestAnswered
