CONSTANTS
  Platforms = {plain, ladder}
  Ladder = {ladder}
  Aux = {plain}
  QueueCap = 1
  AtStart = {TRUE, FALSE}
  Posts = {"enable", "disable", "gate_open", "gate_close", "graceful_stop", "halt", "shutdown"}
SPECIFICATION Spec
CONSTRAINT OneMoves
INVARIANTS QuietWhenDown OutputFollowsSwitches FallbackCovered
