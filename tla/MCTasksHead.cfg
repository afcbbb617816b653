SPECIFICATION Spec
CONSTANTS
  MaxTid = 3
  QSize = 2
INVARIANT StopsOnlyWithoutTasks
CHECK_DEADLOCK FALSE
