CONSTANTS
  Callers = {a, b, c}
  Keys = {k, l}
  Slots = 1
  MaxFailures = 1
  MaxKills = 1
  Singles <- StartFile
  Files <- FolderFiles
  Targets = {"t1", "t2"}
  MaxBuilds = 2
  MaxGoing = 2
  MaxPlays = 3
  Ladder <- VideoLadder
  Step = 2000
  Default = 6000
  Measures = {0, 700, 1400, 1600, 2100, 4900, 19999, 20001}
SPECIFICATION MCSpec
CHECK_DEADLOCK FALSE
INVARIANTS ServedWhole BuiltOnce FitUnlessOverlapped FairCycle RememberedNoAlternation
PROPERTIES EveryCallReturns
