SPECIFICATION Spec
CONSTANTS
  BlockCount = 12
  MgmtStart = 2
  TableBlocks = 2
  FactoryBad = {}
  FCreate = TRUE
  Ops = {"erase"}
  MarkMayFail = FALSE
  ReadMayFail = FALSE
  MaxFail = 1
  MaxCrash = 0
  MaxCount = 0
INVARIANTS BackupIsLoadable

CHECK_DEADLOCK FALSE
