CONSTANTS
  c1 = c1
  c2 = c2
  Conns = {c1, c2}
  DBs = {"db0", "db1"}
  DefaultDB = "db0"
  Names = {1}
  MaxQueue = 2
  MaxCommands = 4
SPECIFICATION Spec
SYMMETRY Symmetry
CHECK_DEADLOCK FALSE
INVARIANTS
  WatchedUnchanged
