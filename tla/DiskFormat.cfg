SPECIFICATION Spec
CONSTANTS
  Types = {"D64", "D71", "D80", "D81"}
  Junk = {0, 255}
INVARIANTS
  BlockNumbersAreDense
  CountsMatchBits
  BlocksFreeMatchesBits
PROPERTIES
  OneCellAtATime
CHECK_DEADLOCK FALSE
