SPECIFICATION Spec
CONSTANTS
  BlockCount = 14
  MgmtStart = 2
  TableBlocks = 1
  FactoryBad = {1, 3}
  FCreate = TRUE
  Ops = {"erase", "read", "write", "detach"}
  MarkMayFail = FALSE
  ReadMayFail = FALSE
  MaxFail = 3
  MaxCrash = 1
  MaxCount = 2
INVARIANTS ClientData AttachSucceeds CleanIsPersisted
PROPERTIES AtomicTables
CHECK_DEADLOCK FALSE
