SPECIFICATION FairSpec
CONSTANTS
  LONG_MAX = 127
  TRAP = TRAP
  BUFSIZ = 2
  Letters = {"a", "b"}
  Blanks = {" "}
  Others = {"$"}
  Codes <- MCCodes
INVARIANTS
  TypeOK
  ReadsTheCode
  NumbersAreExact
  NameIsCurrent
  ShortNamesFit
PROPERTIES
  Answers
