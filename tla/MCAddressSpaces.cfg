SPECIFICATION Spec
CONSTANTS
  NPages = 5
  Memory = {1, 2, 3, 4, 5, 6}
  Image = {0, 2}
  Device = {9}
  Program <- MCProgram
  Other = Other
  NoFrame = NoFrame
  MmapLen = {0, 1, 2}
  MaxTid = 3
  MaxMajors = 1

  
PROPERTIES
  ImplementsFrameOwners
  OnlyMmapLosesFrames
CHECK_DEADLOCK FALSE
