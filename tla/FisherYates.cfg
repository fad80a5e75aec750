\* Blocks of four coefficients.  A random number only counts modulo i + 1 <= 4,
\* and 0..3 holds every residue of each.
CONSTANTS
  N = 4
  Coefs = {0, 1, 2}
  Randoms = {0, 1, 2, 3}
SPECIFICATION Spec
INVARIANTS Recovered
PROPERTIES ImplementsBlockCipher
CHECK_DEADLOCK FALSE
