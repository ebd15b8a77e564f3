CONSTANTS
  Rungs = {}
  Audios = {}
  Confs = {c1}
  Step = 1
  MaxTs = 3
  MaxRuns = 2
  MaxEpisodes = 0
  MaxCalls = 1
SPECIFICATION Spec
CHECK_DEADLOCK FALSE
INVARIANT NotMuted
