SPECIFICATION FairSpec
CONSTANTS
  LONG_MAX = 3
  TRAP = TRAP
  ArgCount = 2
  Inputs <- MCInputs
  ArgValues <- MCArgValues
INVARIANTS
  TypeOK
  StackSafe
  OnInstruction
  RunsTheAst
  FailureIsMarked
  ListsTheAst


PROPERTIES
  Terminates
