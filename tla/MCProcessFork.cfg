CONSTANTS
  p1 = p1
  p2 = p2
  p3 = p3
  ok = ok
  failed = failed
  Procs <- MCProcs
  Codes <- MCCodes
  PID_MIN = 2
  PID_MAX = 5
  None = None
SPECIFICATION Spec
INVARIANT FailedForkLeavesNothing
CHECK_DEADLOCK FALSE
