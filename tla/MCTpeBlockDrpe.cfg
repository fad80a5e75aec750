CONSTANTS
  Tested = {"drpe"}
  MaxLen = 2
  DCs <- MCDCs
  ACs <- MCACs
  KeyWords <- MCKeyWords
  UserArgs <- MCUserArgs
SPECIFICATION Spec
INVARIANT DrpeRecovers
CHECK_DEADLOCK FALSE
