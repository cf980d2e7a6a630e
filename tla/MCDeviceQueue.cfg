CONSTANTS
  Keys = {k1, k2}
  Payloads = {"none", "data"}
  NoPayload = "none"
  SeqSpace = 2
  MaxFrameRetries = 1
  MaxDataRequests = 2
SPECIFICATION Spec
SYMMETRY KeySymmetry
INVARIANTS
  TypeOK
  EachQueuedOnce
  ExchangeOwnsFront
  SuccessIsEarned
  FailureIsExhausted
  AttemptBudget
  SleepMissesOnlyRetries
PROPERTY ResultIsFinal
