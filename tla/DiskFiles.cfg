SPECIFICATION Spec
CONSTANTS
  Blocks = {b1, b2, b3}
  Names = {na, nb}
  NumSlots = 2
  Writers = {w1, w2}
  Readers = {r1}
  NoBlock = NoBlock
  EndMark = EndMark
  MaxCreates = 2
  MaxLoads = 1
INVARIANTS
  TypeOK
  ReadsBack
  UnmodifiedIsSaved
PROPERTIES
  ImplementsStore
SYMMETRY Alike
CONSTRAINT UntilTorn
CHECK_DEADLOCK FALSE
