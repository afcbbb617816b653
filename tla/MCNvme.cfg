SPECIFICATION FairSpec
CONSTANTS
  QSize = 3
  IdCount = 6
  Sector = 2
  PerPage = 2
  Request <- MCRequest
INVARIANTS
  ReadsAreSound
  PagesComeBack
PROPERTY CommandsEnd
CHECK_DEADLOCK FALSE
