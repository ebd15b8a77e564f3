CONSTANTS
  Platforms = {p1}
  Ladder = {}
  Aux = {}
  QueueCap = 3
  AtStart = {TRUE}
  Posts = {}
SPECIFICATION Spec
INVARIANT LiveHasRelay
