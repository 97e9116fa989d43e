CONSTANTS
  t1 = t1
  Threads = {t1}
  SizeRange = 1000000
  WindowSize = 2
  MaxTotal = 5
  BatchNum = 1
  PacketNum = 2
  MaxLog = 2
  MaxSession = 2
  Faults = {"slaveTimeout"}
  MaxFaults = 1
SPECIFICATION Spec
INVARIANTS
  LogPrefixAlways
