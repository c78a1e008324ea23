SPECIFICATION Spec
CONSTANTS
  LONG_MAX = 3
  TRAP = TRAP
  ArgCount = 2
  Inputs <- MCInputs
  ArgValues <- MCArgValues
PROPERTIES
  OptimizedAgrees
