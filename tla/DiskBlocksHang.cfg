SPECIFICATION Spec
CONSTANTS
  Types = {"D71"}
  Files = {f1, f2}
  Pools <- MCPools
INVARIANTS
  AllocEnds
CHECK_DEADLOCK FALSE
