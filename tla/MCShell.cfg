SPECIFICATION Spec
CONSTANTS
  tw = 5
  th = 3
  Keys = {0, 32, 47, 119}
  BufSize = 8
  Longest = 56
  MaxKeys = 7
INVARIANTS
  
  ScreenIsTheTail
  CopiesAreExact
CHECK_DEADLOCK FALSE
