SPECIFICATION IoSpec
CONSTANTS
  c1 = c1
  c2 = c2
  r = r
  Tasks = {c1, c2, r}
  Rebooter = r
  NoTask = NoTask
  PageCount = 2
  WriteSize = 2
  OobAvail = 2
  Calls <- MCCalls
  MaxIo = 2
  MaxFault = 1
INVARIANTS OneOwner NoLostWakeup InDevice
PROPERTIES DeviceGranted WriteExact ReadExact RetlenHonest
CHECK_DEADLOCK FALSE
