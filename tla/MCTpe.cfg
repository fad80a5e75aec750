CONSTANTS
  Comps = 2
  MaxSide = 3
  MaxStride = 3
  DCTSIZE2 = 2
  Coefs <- MCCoefs
  Image <- MCImage
  DC_crypto_fcn <- MCCrypt
  AC_crypto_fcn <- MCCrypt
SPECIFICATION Spec
INVARIANTS InBounds
PROPERTIES TweaksAreFresh ImplementsImageCipher
CHECK_DEADLOCK FALSE
