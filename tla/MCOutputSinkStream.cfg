CONSTANTS
  Rungs = {"rung"}
  Confs = {c1, c2}
  QueueMax = 2
  MaxConns = 2
SPECIFICATION SinkSpec
CHECK_DEADLOCK FALSE
SYMMETRY Symmetry
INVARIANTS RightConnection Decodable
