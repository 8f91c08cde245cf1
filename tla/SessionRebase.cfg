SPECIFICATION SessionSpec
CONSTANTS
  exe = exe  elf = elf  net = net  bad = bad
  None = None
  File <- MCFile
  Kind <- MCKind
  MaxObjects = 3
INVARIANTS
  HandoffIsAtomic
CHECK_DEADLOCK FALSE
