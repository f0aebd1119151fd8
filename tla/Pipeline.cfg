CONSTANTS
  MaxRuns = 3
  ClassNames = {"Main", "IntReference"}
  RemoveMayFail = FALSE
SPECIFICATION FairSpec
CHECK_DEADLOCK FALSE
INVARIANTS
  TypeOK
  ExitZeroIsClean
  MainRunsThisProgram
PROPERTIES
  ErrorsWriteNothing
  EveryRunEnds
  RefinesBatch
