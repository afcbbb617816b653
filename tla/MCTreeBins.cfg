SPECIFICATION Spec
CONSTANTS
  MinLarge = 16
  NTreeBins = 6
  SizeBits = 8
  Sizes = {16, 17, 18, 20, 23, 29, 130, 200}
  MaxChunks = 5
INVARIANTS
  TreesAreSound
  SearchIsBestFit
