SPECIFICATION PanicSpec
CONSTANTS
  BlockCount = 12
  MgmtStart = 3
  TableBlocks = 2
  FactoryBad = {}
  FCreate = TRUE
  Ops = {"erase", "write", "markbad"}
  MarkMayFail = FALSE
  ReadMayFail = FALSE
  MaxFail = 0
  MaxCrash = 2
  MaxCount = 2
  PanicMayFail = TRUE
INVARIANTS PanicKeepsData
PROPERTIES PanicKeepsImage
CHECK_DEADLOCK FALSE
