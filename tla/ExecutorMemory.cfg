SPECIFICATION Spec
CONSTANTS
  Page <- MCPage
  PageSize = 4
  Medium = 2
  Large = 4
  InsertedSize = 2
  OpcodeSizes <- MCOpcodeSizes
  ModuleSizes <- MCModuleSizes
  MaxModules = 2
  MaxForeign = 1
INVARIANTS
  TypeOK
  Accounted
  Disjoint
  CopyFits
  ProgramFits
PROPERTIES
  ForeignKept
  MemoryAsPromised
CHECK_DEADLOCK FALSE
