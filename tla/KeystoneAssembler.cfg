SPECIFICATION Spec
CONSTANTS
  e1 = e1
  e2 = e2
  b1 = b1
  b2 = b2
  Null = Null
  Engine <- MCEngine
  Buffer <- MCBuffer
  Architecture <- MCArchitecture
  Supported <- MCSupported
  KsVersion = 9
  OpcodeSizes <- MCOpcodeSizes
INVARIANTS
  EngineAccounted
  SyntaxInForce
PROPERTIES
  InitTruthful
