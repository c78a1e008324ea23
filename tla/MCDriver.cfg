SPECIFICATION Spec
CONSTANTS
  LONG_MAX = 3
  TRAP = TRAP
  Nothing = Nothing
  x = x
  y = y
  ArgNames <- MCArgNames
  EnvNumbers <- MCEnvNumbers
  Names = {x, y}
  Identifiers = {x, y}
  Numbers = {0, 1, 3}
  MaxTokens = 5
INVARIANTS
  InterfacesFit
  PrintsWhatItComputes
  ComputesTheMeaning
  ResultsAgree
  StatusTellsTheOutcome
