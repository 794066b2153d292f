SPECIFICATION Spec
CONSTANTS
  SlotsPerBlock = 2
  Images <- MCImages
  Names = {"a", "b"}
  Patterns = {{"a"}, {"b"}, {"a", "b"}}
  CreateTypes = {"prg"}
  AskedTypes = {"prg", "rel"}
  MaxBlocks = 1
  Namings <- MCNamings
  RecordLengths = {9}
INVARIANTS
  ToolTypeOK
  DirBlocksApart
  ListedOnce
  DirectoryFills
  ExtractedIsListed
CHECK_DEADLOCK FALSE
