SPECIFICATION FairSpec
CONSTANTS
  MaxCrash = 2
  MaxUpgrade = 2
  MaxOperator = 1
INVARIANTS BootsComplete TriedOnce FallbackKept
PROPERTIES Recovers
CHECK_DEADLOCK FALSE
