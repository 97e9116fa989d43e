CONSTANTS
  Poppers = {"c1", "c2", "c3"}
  Pushers = {"p"}
  Closing = {"c1"}
  FdOf <- MCFdOf
  KeyOrder <- MCKeyOrder
  KeyArgs <- MCKeyArgs
  Timeouts = {TRUE}
  Sides = {"left"}
  MaxCommands = 4
  MaxPush = 2
  MaxErrors = 1
SPECIFICATION Spec
CHECK_DEADLOCK FALSE
INVARIANTS
  TypeOK
  NoLostWakeup
  WaitInfoExact
  KeysHaveNodes
  LoopKeepsItsNode
  LogMatchesList
  NoDeadlock
PROPERTIES
  FirstBlockedFirstServed
