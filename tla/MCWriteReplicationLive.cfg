CONSTANTS
  c1 = c1
  c2 = c2
  w1 = w1
  w2 = w1
  Clients = {c1, c2}
  Workers = {w1}
  WorkerOf <- MCWorkerOf
  QueueFull = 1
  Keys = {1, 2}
  Values = {1}
  MaxArgs = 2
  MaxCommands = 2
  MaxRecords = 4
  MaxErrors = 0
  MaxCrashes = 1
SPECIFICATION FairSpec
CHECK_DEADLOCK FALSE
PROPERTIES
  EveryCommandFinishes
  Converges
