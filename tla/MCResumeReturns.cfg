CONSTANTS
  MaxEndRepeats = 1
  LogMayFail = FALSE
  AfterMiss = FALSE
  MaxStarts = 1
  MaxAsks = 2
  EndReady = FALSE
SPECIFICATION ResumeFairSpec
CHECK_DEADLOCK FALSE
INVARIANTS StoppedUnlessMissed RequestsWithdrawn
PROPERTY ReturnEnds
