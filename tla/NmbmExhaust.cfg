SPECIFICATION HistFairSpec
CONSTANTS
  BlockCount = 11
  MgmtStart = 2
  TableBlocks = 1
  FactoryBad = {}
  FCreate = TRUE
  Ops = {"erase"}
  MarkMayFail = FALSE
  ReadMayFail = FALSE
  MaxFail = 7
  MaxCrash = 1
  MaxCount = 2
INVARIANTS TypeOK LayoutKept MappingKept DataKept
PROPERTIES TableWritesConfined OwnDataKept LostOnlyInPlace CleanIsWritten CutKeepsAcknowledged OperationsReturn
CHECK_DEADLOCK FALSE
