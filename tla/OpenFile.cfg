CONSTANTS
  Path <- MCPath
  Whole <- MCWhole
  Out = "out"
  Nop <- MCNop
  Nothing = nothing
  MaxSections = 4
  MaxImports = 3
  MaxThunks = 3
  MaxExports = 3
  FatHeader = 3
  MaxActs = 4
SPECIFICATION OpenSpec
CHECK_DEADLOCK FALSE
INVARIANTS
  LoadInventsNothing
  PatchComesBack
  MethodsAreApart
