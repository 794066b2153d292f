SPECIFICATION NamesSpec
CONSTANTS
  Dirs = {"top", "sub"}
  Start = "top"
  FileNames = {"a", "b"}
  InitialFiles <- MCInitialFiles
  DirExt = TRUE
  MaxFaults = 2
  MaxForeign = 1
  MaxRestarts = 1
INVARIANTS
  RefusedForACause
  ListingComesBack
PROPERTIES
  RenameIsOfTheNamed
CHECK_DEADLOCK FALSE
