CONSTANTS
  N = 3
  Samples <- MCSamples
  KeyWords <- MCKeyWords
  UserArgs <- MCUserArgs
  Orders <- MCOrders
  Ciphers = {"lsb", "drpe_lsb"}
SPECIFICATION Spec
INVARIANTS AssertsHold DeltaIsExact AsCloseAsTheBitsAllow OnlyLowBitsDamaged
CHECK_DEADLOCK FALSE
