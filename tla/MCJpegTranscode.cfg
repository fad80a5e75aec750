SPECIFICATION Spec
CONSTANTS
  InputFile <- MCInputFile
  Cases <- MCCases
  Original <- MCOriginal
  Safe <- MCSafe
  Cipher <- MCCipher
  StdQuant <- MCStdQuant
  StdHuff <- MCStdHuff
  INPUT_BUF_SIZE = 5
  OUTPUT_BUF_SIZE = 12
  MIN_GET_BITS = 2
  NUM_QUANT_TBLS = 3
  MaxSkip = 2
  RestartIntervals = {0, 1}
INVARIANTS NeverBadState DamageIsContained ReadBackAgrees SameTables

PROPERTY EveryTranscodeEnds
