SPECIFICATION PrintSpec
CONSTANTS
  COMMON_REGISTERS_LENGTH = 23
  Words = 24
  GetWidth = 32
  SetWidth = 32
  Named <- MCNamed
  Masks <- MCMasks
  EnvStart <- MCEnvStart
  CallerStart <- MCCallerStart
  Bytes <- MCBytes
  Opcodes <- MCOpcodes
INVARIANTS
  TypeOK
  EachToItsOwn
  TextReadsBack
  PrintsInside
PROPERTIES
  NeighboursKept
  RegistersPrinted
