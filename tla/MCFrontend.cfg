SPECIFICATION Spec
CONSTANTS
  LONG_MAX = 15
  TRAP = TRAP
  BUFSIZ = 3
  Nothing = Nothing
  Letters = {"a", "b"}
  Blanks = {" "}
  Others = {"$"}
  Wide = 4
  Narrow = 5
  Codes <- MCCodes
  Spelling <- MCSpelling
  Unknown = Unknown
  a = a
  b = b
  ab = ab
  bad = bad
  ArgLists <- MCArgLists
  MaxTokens = 6
INVARIANTS
  ErrorsAreReportable
PROPERTIES
  ImplementsParser
  ImplementsLexer
