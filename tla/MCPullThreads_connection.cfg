SPECIFICATION Spec
CONSTANTS
  MaxFd = 7
  bc_trycount = 3
CHECK_DEADLOCK FALSE
INVARIANTS
  AcceptedConnectionKept
