SPECIFICATION FairSpec
CONSTANTS
  p1 = p1
  p2 = p2
  p3 = p3
  NoProgram = NoProgram
  Word <- MCWord
  Settings <- MCSettings
  HostMem <- MCHostMem
  EnvMem <- MCEnvMem
  StackLow <- MCStackLow
  StackTop <- MCStackTop
  HostSP <- MCHostSP
  CodeBase <- MCCodeBase
  CodeSize <- MCCodeSize
  Program <- MCProgram
  SizeOf <- MCSizeOf
  Operands <- MCOperands
  HostStart <- MCHostStart
  EnvStart <- MCEnvStart
  MemStart <- MCMemStart
  MaxWrites <- MCMaxWrites
INVARIANTS
  TypeOK
  HostRestored
  EnvironmentSaved
PROPERTIES
  OperandsArrive
  EnvironmentLoaded
  LowReportExact
  FramesKept
  ImplementsRuns
  SwitchCompletes
CHECK_DEADLOCK FALSE
