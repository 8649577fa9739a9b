SPECIFICATION Spec
CONSTANTS
  Versions = {"v1", "v2"}
  FirstVersion = "v1"
  PartBlocks = 4
  Kernel <- MCKernel
  Rootfs <- MCRootfs
  MaxUpgrade = 2
  MaxCut = 2
  MaxFault = 1
  MaxRot = 1
PROPERTIES BootsIntact ImageKept UpgradeSticks Recovers
CHECK_DEADLOCK FALSE
