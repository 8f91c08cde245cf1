SPECIFICATION SessionSpec
CONSTANTS
  exe = exe  elf = elf  net = net  bad = bad
  None = None
  File <- MCFile
  Kind <- MCKind
  MaxObjects = 3
INVARIANTS
  ViewsAgree
PROPERTIES
  HandedOnce
  AutosaveIsWhole
CHECK_DEADLOCK FALSE
