SPECIFICATION FairSpec
CONSTANTS
  MaxCalls = 3
  MaxGarbles = 4
  MaxLostEnds = 2
  MaxExits = 2
INVARIANTS
  TypeOK
  AtMostOnce
PROPERTIES
  ImplementsRpc
  EveryCallAnswered
CHECK_DEADLOCK FALSE
