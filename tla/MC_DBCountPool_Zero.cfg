SPECIFICATION Spec
CONSTANTS
  NumBackups = 2
  MaxParallelProcesses = 0
  DatabaseRef <- MCDatabaseRef
PROPERTIES
  Returns
CHECK_DEADLOCK FALSE
