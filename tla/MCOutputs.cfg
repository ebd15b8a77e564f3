CONSTANTS
  CountThreshold = 2
  LogMayFail = FALSE
  MaxStarts = 2
SPECIFICATION MCSpec
CHECK_DEADLOCK FALSE
INVARIANTS ProcessesStop OneInUse FedUnlessOverlapped
PROPERTIES KeepsTrying
