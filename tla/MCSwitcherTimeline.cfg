CONSTANTS
  Rungs = {"rung"}
  Audios = {}
  Confs = {c1, c2}
  Step = 1
  MaxTs = 2
  MaxRuns = 2
  MaxEpisodes = 1
  MaxCalls = 4
SPECIFICATION Spec
CHECK_DEADLOCK FALSE
SYMMETRY Symmetry
INVARIANTS TracksBehind CutIsHeard Decodable
