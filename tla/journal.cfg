CONSTANTS
  MaxBytes = 5
  MaxRecordBytes = 2
  MaxRecords = 3
  MaxIssued = 5
SPECIFICATION Spec
INVARIANTS
  TypeOK
  PromisesSurvive
  OnlyHistoryReplays
  AppendsLandInReach
  BytesAreBounded
PROPERTIES
  ImplementsRecordLog
