CONSTANTS
  Prefix <- MCPrefix
  Commands = {0, 1}
  MaxLength = 3
  BufferSize = 8
  Messages <- MCMessages
  Noises <- MCNoises
  MaxMessages = 2
  MaxErrors = 1
SPECIFICATION FairSpec
INVARIANTS
  CutsDoNotMatter
  SentIsDecoded
  EndsForAReason
PROPERTY EverythingIsReturned
CHECK_DEADLOCK FALSE
