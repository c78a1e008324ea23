SPECIFICATION Spec
CONSTANTS
  Codes <- MCCodes
INVARIANTS
  PrintsTheLines
  MarksTheError
