CONSTANTS
  Clients = {a, b}
  Values = {v0, v1}
  Ticks = TRUE
  MayStall = TRUE
  Unnotified = TRUE
  MaxChanges = 1
  MaxJoins = 2
  Dashboards = {"c1", "c2"}
  Names = {"a", "b"}
  SourceNames = {"s1", "s2"}
  MainSource = "s1"
  Groups = {"g1", "g2"}
  MainGroup = "g1"
  Presets = {"p1", "p2"}
  MainPreset = "p1"
  Broken = {"p2"}
  Kinds = {"add", "update", "remove", "enable", "disable", "add_source", "update_source",
           "remove_source", "add_group", "remove_group", "enable_group", "disable_group",
           "add_preset", "update_preset", "remove_preset"}
  MayStop = TRUE
  MaxCommands = 5
  MaxEntries = 4
  MaxHooks = 4
SPECIFICATION MCSpec
CHECK_DEADLOCK FALSE
SYMMETRY Symmetry
INVARIANTS BaseShared NoneLeft DiskIsMemory RefsResolve JoinedWhenLive
PROPERTIES Idempotent
