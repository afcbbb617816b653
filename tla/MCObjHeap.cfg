SPECIFICATION Spec
CONSTANTS
  PageSize = 10
  Major = 1
  Minor = 1
  Alignment = 2
  AlignInfo = 1
  Request = {1, 6}
  MaxMajors = 3
INVARIANTS
  ObjectsAreSound
  UsageIsExact
  MajorsInUse
PROPERTY ImplementsArena
CHECK_DEADLOCK FALSE
