CONSTANTS
  Tested = {"noop", "drpe", "drpe-nz", "mosaic", "shuffle", "gibbs", "lsb"}
  MaxLen = 2
  DCs <- MCDCs
  ACs <- MCACs
  KeyWords <- MCKeyWords
  UserArgs <- MCUserArgs
SPECIFICATION Spec
INVARIANTS RecoversUnderSameParameters RangesNest StaysEncodable
CHECK_DEADLOCK FALSE
