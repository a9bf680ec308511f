SPECIFICATION Spec
CONSTANTS
  Page <- MCPage
  PageSize = 4
  Medium = 2
  Large = 4
  InsertedSize = 2
  OpcodeSizes <- MCOpcodeSizes
  ModuleSizes <- MCModuleSizes
  MaxModules = 2
  MaxForeign = 1
INVARIANTS
  DestructorFreesAll
CHECK_DEADLOCK FALSE
