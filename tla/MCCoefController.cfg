SPECIFICATION Spec
CONSTANTS
  DCTSIZE = 2
  MAX_BLOCKS_IN_MCU = 10
  MAX_SAMP_FACTOR = 4
  MAX_COMPS_IN_SCAN = 4
  W = 9
  H = 7
  TransW = {1, 4, 7, 9}
  TransH = {3, 4, 6}
  Pictures <- LegalPictures
INVARIANTS NoStray StreamIsStandard ShownOnce OutputSeesInput
