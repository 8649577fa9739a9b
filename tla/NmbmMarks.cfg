SPECIFICATION Spec
CONSTANTS
  BlockCount = 12
  MgmtStart = 2
  TableBlocks = 1
  FactoryBad = {0, 1, 7}
  FCreate = TRUE
  Ops = {"erase", "read", "write", "markbad", "detach"}
  MarkMayFail = TRUE
  ReadMayFail = TRUE
  MaxFail = 3
  MaxCrash = 0
  MaxCount = 3
INVARIANTS StaleLoses 
CHECK_DEADLOCK FALSE
