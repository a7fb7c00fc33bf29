CONSTANTS
  MaxNumber = 3
  MaxLines = 5
  MaxPages = 3
  MaxBlocks = 3
  Shapes <- MCShapes
SPECIFICATION Spec
INVARIANTS
  EveryLineOnce
  Numbering
  
  ReadingOrder
CHECK_DEADLOCK FALSE
