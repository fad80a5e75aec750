SPECIFICATION MSpec
CONSTANTS
  Arrays <- MCArrays
  SArrays <- MCSArrays
  Values <- MCValues
  Zero = 0
  Garbage = 9
  MaxRows = 3
  Shapes <- MCShapes
  ALIGN = 2
  HDR = 4
  MAX_ALLOC_CHUNK = 20
  MIN_SLOP = 2
  first_pool_slop <- MCFirstSlop
  extra_pool_slop <- MCExtraSlop
  MgrSize = 10
  ControlSize = 3
  Element <- MCElement
  Width <- MCWidth
  Sizes <- MCSizes
  MaxObjects = 3
INVARIANTS ReadersGetContents NoVirtualBug AccountIsExact ObjectsAreApart
PROPERTIES ImplementsBlockArray
CHECK_DEADLOCK FALSE
