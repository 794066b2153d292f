SPECIFICATION Spec
CONSTANTS
  Types = {"D64", "D71", "D81"}
  Files = {f1, f2}
  Pools <- MCPools
INVARIANTS
  NoBlockShared
  NoBlockLost
  AllocFinds
  FlaggedFilesAreWhole
CHECK_DEADLOCK FALSE
