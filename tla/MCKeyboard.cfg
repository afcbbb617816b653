SPECIFICATION FairSpec
CONSTANTS
  Readers = {r1, r2}
  Keys = {a}
  ExtKeys = {x}
  Size = 2
  MaxEvents = 3
INVARIANTS
  KeysReachTheReader
  
PROPERTY SeenKeyIsTaken
CHECK_DEADLOCK FALSE
