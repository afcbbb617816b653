SPECIFICATION EntrySpec
CONSTANTS
  N = 3
  MaxSleep = 2
INVARIANT ResultsAreOwn
PROPERTY SleepersWake
