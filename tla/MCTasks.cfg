SPECIFICATION FairSpec
CONSTANTS
  MaxTid = 4
  QSize = 2
INVARIANTS
  RingIsTidOrdered
  SchedulerOnLiveRing
  NoticesArrive
PROPERTIES
  ImplementsMailbox
  EveryTaskRuns
  DeadIsReaped
  WaitingReaderIsServed
CHECK_DEADLOCK FALSE
