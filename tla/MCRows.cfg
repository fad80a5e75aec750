SPECIFICATION Spec
CONSTANTS
  DCTSIZE = 2
  MAX_BLOCKS_IN_MCU = 10
  MAX_SAMP_FACTOR = 4
  MAX_COMPS_IN_SCAN = 4
  MaxLines = 5
  MaxPasses = 2
  MaxRows = 5
  MaxH = 11
  Displays <- MCDisplays
  Sources <- MCSources
CHECK_DEADLOCK FALSE
INVARIANTS OutputRowsRight NeverStalls InputRowsRight
