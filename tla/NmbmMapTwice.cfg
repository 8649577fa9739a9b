SPECIFICATION Spec
CONSTANTS
  BlockCount = 12
  MgmtStart = 2
  TableBlocks = 1
  FactoryBad = {1, 9}
  FCreate = TRUE
  Ops = {"erase"}
  MarkMayFail = FALSE
  ReadMayFail = FALSE
  MaxFail = 2
  MaxCrash = 0
  MaxCount = 0
INVARIANTS MappingInjective

CHECK_DEADLOCK FALSE
