CONSTANTS
  c1 = c1
  c2 = c2
  w1 = w1
  w2 = w2
  Clients = {c1, c2}
  Workers = {w1, w2}
  WorkerOf <- MCWorkerOf
  QueueFull = 1
  Keys = {1, 2}
  Values = {1}
  MaxArgs = 1
  MaxCommands = 2
  MaxRecords = 4
  MaxErrors = 0
  MaxCrashes = 0
SPECIFICATION Spec
SYMMETRY Symmetry
CHECK_DEADLOCK FALSE
INVARIANTS
  LogMatchesDatabaseAlways
