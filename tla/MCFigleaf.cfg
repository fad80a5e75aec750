CONSTANTS
  Dirs <- MCDirs
  Names <- MCNames
  Pictures <- MCNames
  InitialFiles <- MCInitialFiles
  Invocations <- MCInvocations
  MaxRuns = 3
SPECIFICATION Spec
INVARIANTS SuccessMeansComplete FailureIsLocal ParametersAgree
PROPERTIES EveryRunEnds
CHECK_DEADLOCK FALSE
