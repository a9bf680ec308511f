SPECIFICATION Spec
CONSTANTS
  COMMON_REGISTERS_LENGTH = 34
  Words = 34
  GetWidth = 64
  SetWidth = 32
  Named <- MCNamedArm64
  Masks <- MCMasksArm64
  EnvStart <- MCEnvStart
  CallerStart <- MCCallerStart
PROPERTIES
  SetAcceptsNamed
