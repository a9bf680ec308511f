SPECIFICATION Spec
CONSTANTS
  e1 = e1
  e2 = e2
  b1 = b1
  b2 = b2
  Null = Null
  Engine <- MCEngine
  Buffer <- MCBuffer
  Architecture <- MCArchitecture
  Supported <- MCArchitecture
  KsVersion = 9
  OpcodeSizes <- MCOpcodeSizes
  Target <- MCArchitecture
  Dialect <- MCDialect
  Watched <- MCWatched
  Reg <- MCReg
  IP <- MCIP
  SP <- MCSP
  Value <- MCValue
  OnStack <- MCOnStack
  CodeBase <- MCCodeBase
  EnvStart <- MCEnvStart
PROPERTIES
  FailedReportsNothing
CHECK_DEADLOCK FALSE
