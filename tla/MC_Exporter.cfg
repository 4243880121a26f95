SPECIFICATION ExporterSpec
CONSTANTS
  main = main
  Stanza <- MCStanza
  Configs <- MCConfigs
  MaxRevision = 1
  MaxFailures = 1
  MaxRestarts = 1
  MaxWorkers = 2
  LastBackups <- MCLastBackups
INVARIANTS
  ExporterTypeOK
  ScrapesNeverGoBack
  LatestHasStatus
  LatestNeverMissing
PROPERTIES
  SettlesWithGoroutines
