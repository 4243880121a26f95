SPECIFICATION ExporterSpec
CONSTANTS
  main = main
  Stanza <- MCStanza
  Configs <- MCConfigs
  MaxRevision = 1
  MaxFailures = 0
  MaxRestarts = 0
  MaxWorkers = 2
  LastBackups <- MCLastBackups
INVARIANTS
  AgeNotNegative
