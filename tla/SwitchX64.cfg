SPECIFICATION FairSpec
CONSTANTS
  Word <- MCWord
  Settings <- MCSettings
  HostMem <- MCHostMem
  EnvMem <- MCEnvMem
  StackLow <- MCStackLow
  StackTop <- MCStackTop
  HostSP <- MCHostSP
  CodeBase <- MCCodeBase
  CodeSize <- MCCodeSize
  CodeSizes <- MCCodeSizes
  HostStart <- MCHostStart
  EnvStart <- MCEnvStart
  MemStart <- MCMemStart
  MaxWrites <- MCMaxWrites
INVARIANTS
  TypeOK
  HostRestored
  EnvironmentSaved
PROPERTIES
  ReportExact
  ReExecuteIsNoOp
  FramesKept
  ImplementsContextSwitch
  SwitchCompletes
