SPECIFICATION Spec
CONSTANTS
  MaxCycle = 2
  FetchMayFail = TRUE
  f1 = f1  d1 = d1  i1 = i1  f2 = f2
  LastBackups <- MCLastBackups
  DatabaseRef <- MCDatabaseRef
INVARIANTS
  TypeOK
  FullShownOnReturn
  NoRefetch
  CleanCycleShowsItsSlots
  CleanCycleCompletes
PROPERTIES
  CallReturns
  WorkersExit
