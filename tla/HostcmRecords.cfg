SPECIFICATION RecordsFairSpec
CONSTANTS
  Record <- MCRecord
  Lengths <- MCLengths
  SendBuf = 11
  PutBuf = 7
  MaxRecords = 3
  MaxSeeks = 2
INVARIANTS
  FittingRecordsComeBack
  EofOnlyAtEnd
PROPERTY
  ReadsEnd
CHECK_DEADLOCK FALSE
