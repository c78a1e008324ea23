SPECIFICATION FairSpec
CONSTANTS
  LONG_MAX = 3
  TRAP = TRAP
  Nothing = Nothing
  x = x
  y = y
  bad = bad
  ArgLists <- MCArgLists
  Names = {x, y, bad}
  Identifiers = {x, y}
  Numbers = {0, 3}
  MaxTokens = 7
  Environments <- MCEnvironments
INVARIANTS
  TypeOK
  TokenInHand
  ParsesToATree
  MeansTheCode
  SyntaxErrorsAtFirstBadToken
  ErrorsAreLocated
PROPERTIES
  BuildsAForest
  Terminates
