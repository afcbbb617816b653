SPECIFICATION Spec
CONSTANTS
  MinLarge = 4
  NTreeBins = 6
  SizeBits = 7
  Page = 10
  BrkBase = 10
  MapBase = 50
  MmapThreshold = 9
  TrimThreshold = 8
  ReleaseRate = 2
  Alignments = {4}
  Worlds <- MCWorlds
INVARIANTS
  HeapIsSound
  FootprintIsOwned
PROPERTIES
  
  ImplementsBlocks
CHECK_DEADLOCK FALSE
