CONSTANTS
  Poppers = {"c1", "c2"}
  Pushers = {"p"}
  Closing = {"c1"}
  FdOf <- MCFdOfTwo
  KeyOrder <- MCKeyOrderOne
  KeyArgs <- MCKeyArgsOne
  Timeouts = {TRUE, FALSE}
  Sides = {"left", "right"}
  MaxCommands = 3
  MaxPush = 2
  MaxErrors = 0
SPECIFICATION LiveSpec
CHECK_DEADLOCK FALSE
PROPERTIES
  ElementsAreServed
  TimedAreAnswered
  KilledAreClosed
