CONSTANTS
  Platforms = {p1}
  Ladder = {}
  Aux = {}
  QueueCap = 2
  AtStart = {TRUE}
  Posts = {"halt", "update_credentials", "apply_preset"}
SPECIFICATION FairSpec
INVARIANT LiveAlone
PROPERTIES ImplementsPlatform ArmedSwitchHappens
