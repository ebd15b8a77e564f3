CONSTANTS
  Servers <- ThreeServers
  Refusals = {"error", "Failed"}
  MaxPings = 1
  MaxTags = 2
  CSIDs = {2, 3}
  Sizes = {2}
  Lengths = {1, 3}
  Window = 6
  MaxMsgs = 3
  MaxOwn = 2
  MaxWire = 2
  Listed <- ThreeStreams
  AllVideo = FALSE
  Wrap = 32
  FirstTimes = {18}
  MaxUnits = 4
  Shapes <- SixShapes
  Steps = {0, 6}
  Ladders <- TwoLadders
  MaxPubs = 2
  MaxFails = 1
  MaxExpired = 1
  Pipelines <- FivePipelines
  Maps <- TwoMaps
  MaxRouted = 2
  MaxMoves = 2
  MaxSegments = 1
SPECIFICATION MCSpec
CHECK_DEADLOCK FALSE
INVARIANTS WholeAndInOrder Faithful PushFits Routed
PROPERTY EndsForAReason
