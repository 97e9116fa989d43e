CONSTANTS
  t1 = t1
  t2 = t2
  Threads = {t1, t2}
  SizeRange = 1000000
  WindowSize = 2
  MaxTotal = 5
  BatchNum = 1
  PacketNum = 1
  MaxLog = 3
  MaxSession = 2
  Faults = {"link", "masterTimeout", "slaveTimeout", "read"}
  MaxFaults = 1
SPECIFICATION Spec
SYMMETRY ThreadSymmetry
INVARIANTS
  TypeOK
  WindowExact
  WindowSizeExact
  AckedBySlave
  LogPrefix
