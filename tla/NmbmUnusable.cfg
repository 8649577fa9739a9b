SPECIFICATION Spec
CONSTANTS
  BlockCount = 7
  MgmtStart = 2
  TableBlocks = 1
  FactoryBad = {}
  FCreate = TRUE
  Ops = {"erase", "read"}
  MarkMayFail = FALSE
  ReadMayFail = FALSE
  MaxFail = 3
  MaxCrash = 0
  MaxCount = 0
INVARIANTS UnusableIsSaved

CHECK_DEADLOCK FALSE
