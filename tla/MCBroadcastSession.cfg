CONSTANTS
  Platforms = {p1}
  Mixes = {{}, {p1}}
  Reports = {"stalled", "switched", "flapping", "oracle"}
  MaxInputs = 3
  MaxStale = 1
SPECIFICATION FairSpec
CHECK_DEADLOCK FALSE
INVARIANTS WindowHasTimer EndedMeansEnded GoneIsLastWord AuxNotStranded
PROPERTY SessionsEnd
