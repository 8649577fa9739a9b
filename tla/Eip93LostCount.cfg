SPECIFICATION Spec
CONSTANTS
  Reqs = {r1, r2}
  NoReq = NoReq
  RingSize = 3
  QueueLen = 1
  MaxDesc = 2
  MaxSubmit = 3
  MaxErr = 1
CHECK_DEADLOCK FALSE
INVARIANT EngineCounted
