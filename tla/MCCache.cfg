CONSTANTS
  c1 = c1
  c2 = c2
  s1 = s1
  l1 = l1
  Clients = {c1, c2}
  StringKeys = {s1}
  ListKeys = {l1}
  Values = {1, 2}
  Commands <- AllCommands
  RtcRead = TRUE
  MaxLen = 4
  MaxCommands = 4
  MaxFaults = 1
SPECIFICATION Spec
CHECK_DEADLOCK FALSE
INVARIANTS TypeOK CacheCoherent FlagWillBeReset
PROPERTIES CachedReadsFresh
SYMMETRY Symmetry
