CONSTANTS
  t1 = t1
  Threads = {t1}
  SizeRange = 1000000
  WindowSize = 4
  MaxTotal = 2
  BatchNum = 2
  PacketNum = 2
  MaxLog = 3
  MaxSession = 5
  Faults = {"link", "masterTimeout", "slaveTimeout", "read"}
  MaxFaults = 1
SPECIFICATION FairSpec
PROPERTIES
  ImplementsReplicatedLog
  EveryRecordReplicated
