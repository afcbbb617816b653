SPECIFICATION Spec
CONSTANTS
  BSize = 32
  FirstSize = 256
  ExtSize = 256
  MaxBlocks = 3
INVARIANTS
  BlocksAreSound
  NeverPanics
PROPERTY ImplementsPool
CHECK_DEADLOCK FALSE
