CONSTANTS
  c1 = c1
  c2 = c2
  w1 = w1
  w2 = w2
  Clients = {c1, c2}
  Workers = {w1, w2}
  WorkerOf <- MCWorkerOf
  QueueFull = 1
  Keys = {1, 2}
  Values = {1}
  MaxArgs = 2
  MaxCommands = 3
  MaxRecords = 3
  MaxErrors = 1
  MaxCrashes = 1
SPECIFICATION Spec
SYMMETRY Symmetry
CHECK_DEADLOCK FALSE
INVARIANTS
  TypeOK
  LogMatchesDatabase
  AppliedInOrder
  StopLosesNothing
