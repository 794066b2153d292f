SPECIFICATION RecordsSpec
CONSTANTS
  Record <- MCRecord
  Lengths <- MCLines
  SendBuf = 11
  PutBuf = 7
  MaxRecords = 2
  MaxSeeks = 0
INVARIANT
  RecordsComeBack
CHECK_DEADLOCK FALSE
