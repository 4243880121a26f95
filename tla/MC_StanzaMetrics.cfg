SPECIFICATION Spec
CONSTANTS
  CommandLines <- MCCommandLines
  Replies <- MCReplies
  Clock = 10
  MaxCycles = 2
  MaxFailures = 1
INVARIANTS
  TypeOK
  ArgumentsSayRequest
  EveryEntryHasItsSeries
  LabelsByName
  NoFlapping
