SPECIFICATION Spec
CONSTANTS
  b1 = b1  b2 = b2
  p1 = p1  p2 = p2  p3 = p3
  NoInfo = NoInfo
  MaxStop = 2
  Label <- MCLabel
  Info <- MCInfo
  BackupData <- MCBackupData
  Clock <- MCClock
INVARIANTS
  TypeOK
  SlotsHoldLatest
  OneSeriesPerBackup
  LastSeriesAllOrNone
  LastAgreesWithBackupSeries
PROPERTIES
  ImplementsRule
