SPECIFICATION Spec
CONSTANTS
  main = main  demo = demo
  Stanza <- MCStanza
  Configs <- AllWithDB
  MaxRevision = 0
  MaxFailures = 1
  MaxRestarts = 0
INVARIANTS
  StatusOneMeansFetched
