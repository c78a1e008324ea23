SPECIFICATION StorageSpec
CONSTANTS
  SIZE_MAX = 31
  BUFSIZ = 7
  FirstNodes = 2
  NodeSize = 3
  MaxAppend = 15
INVARIANTS
  BufferHoldsAll
  NodesFit
