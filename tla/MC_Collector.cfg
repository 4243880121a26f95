SPECIFICATION Spec
CONSTANTS
  main = main  demo = demo
  Stanza <- MCStanza
  Configs <- MCConfigs
  MaxRevision = 2
  MaxFailures = 1
  MaxRestarts = 1
INVARIANTS
  TypeOK
  OnlySelectedStanzasShown
  OneReportPerStanza
  PublicationExact
  DataHasStatus
  StatusExact
  ServedWhileFetching
PROPERTIES
  CyclesForever
  Settles
