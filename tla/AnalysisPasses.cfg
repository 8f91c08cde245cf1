CONSTANTS
  Programs <- MCPrograms
  PtrSize = 2
  MinRead = 4
  PartOf <- MCPartOf
  MinString = 2
  ZeroRun = 3
  LargeData = 10
  MaxTable = 3
  MinAccesses = 2
  Wide = FALSE
  DefaultCases = 2
  Printable <- MCPrintable
  NoReturnNames <- MCNoReturnNames
  CrtStarters <- MCCrtStarters
  KnownSigs <- MCKnownSigs
SPECIFICATION Spec
CHECK_DEADLOCK FALSE
INVARIANTS
  XrefIndexesAgree
  CyclesAreFound
  ResolvedInBlock
  DataIsListed
