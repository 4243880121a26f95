SPECIFICATION Spec
CONSTANTS
  NumBackups = 4
  MaxParallelProcesses = 2
  DatabaseRef <- MCDatabaseRef
INVARIANTS
  TypeOK
  ParallelismBounded
  TokensAccounted
  WaitGroupAccounted
  CompleteOnReturn
PROPERTIES
  NoWriteAfterReturn
  NoLeak
  ImplementsBatch
