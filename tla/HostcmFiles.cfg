SPECIFICATION Spec
CONSTANTS
  NFiles = 2
  Names <- MCNames
  Modes = {"r", "u", "a"}
  RecordLengths = {0, 3}
  Types = {"f"}
  DefaultRL = 2
  Requests <- MCRequests
  InitialDisk <- MCOnDisk
  StaleHandles = TRUE
  MaxPuts = 2
  MaxFaults = 1
  MaxExits = 1
  MaxReboots = 1
INVARIANTS
  TypeOK
  DiskPlusBuffer
  HandlesMatch
PROPERTIES
  EndedStreamsAreDurable
  CrashesHaveACause
CHECK_DEADLOCK FALSE
