CONSTANTS
  FileOrder <- MCFileOrder
  Faults <- MCFaults
  Parallel = 2
  Remain = 1
  MaxGap = 0
  NumRange = 8
  MaxLog = 1
  MaxSaves = 3
  MaxFaults = 2
SPECIFICATION FairSpec
INVARIANTS TypeOK DatabaseMatchesOffset NeededFilesKept
PROPERTIES FullSyncCompletes
