CONSTANTS
  Pans = {4660, 65535}
  Shorts = {17767}
  Extendeds <- MCExtendeds
  SequenceNumbers <- MCSequenceNumbers
  Orders = {5, 15, 16}
  Payloads <- MCPayloads
SPECIFICATION Spec
INVARIANTS
  ReceivedAsSent
  CutIsNoticed
CHECK_DEADLOCK FALSE
