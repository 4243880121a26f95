SPECIFICATION Spec
CONSTANTS
  main = main  demo = demo
  Stanza <- MCStanza
  Configs <- EmptyInExclude
  MaxRevision = 0
  MaxFailures = 0
  MaxRestarts = 0
INVARIANTS
  EmptyEntryIsFetched
