CONSTANTS
  N = 3
  MaxV = 2
  Rounds = 2
  Vmin <- MCVmin
  Shuffles <- MCShuffles
  Randoms <- MCRandoms
SPECIFICATION Spec
INVARIANTS NeverAborts
PROPERTIES ImplementsBlockCipher
CHECK_DEADLOCK FALSE
