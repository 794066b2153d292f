SPECIFICATION Spec
CONSTANTS
  Script <- MCScript
  NFiles = 2
  MaxGarbles = 6
  MaxLostEnds = 2
  MaxFaults = 1
  MaxExits = 2
INVARIANTS
  RepetitionsCostTwo
  ClosedFileIsComplete
PROPERTY
  SuccessIsOwn
CHECK_DEADLOCK FALSE
