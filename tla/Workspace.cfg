SPECIFICATION Spec
CONSTANTS
  exe = exe
  elf = elf
  nop = nop
  None = None
  Path <- MCPath
  Addr <- MCAddr
  Space = 8
  Base <- MCBase
  NewBases = {0, 3, 5, 6}
  Layout <- MCLayout
  FileBytes <- MCFileBytes
  Texts <- MCTexts
  Nop = nop
  HistoryLimit = 2
  LengthMod = 2
  RecentLimit = 1
  JunkCounts = {0, 1, 3}
  MaxActs = 5
INVARIANTS HistoryIsTrail LandsOnCode NeverAnotherType
PROPERTIES ExportUnmoved LoadGivesSaved CrashTearsOne
CHECK_DEADLOCK FALSE
