SPECIFICATION Spec
CONSTANTS
  nop = nop
  long = long
  short = short
  None = None
  Size = 2
  Byte = {nop, long, short}
  Nop = nop
  InsnLen <- MCLen
  File <- MCFile
  Code = {1}
  Text = {sub, empty}
  Empty = empty
  TypeId = {s1}
  Cap = 2
  MaxEdits = 3
INVARIANTS CodeOrData
PROPERTIES UndoRestores RedoRepeats
CHECK_DEADLOCK FALSE
