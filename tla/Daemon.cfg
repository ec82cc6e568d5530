SPECIFICATION Spec
CONSTANTS
  Pid = {p1, p2, p3, p4}
  Port = {1, 2}
  Command = {c1}
  None = None
CHECK_DEADLOCK FALSE
INVARIANTS ServingIsReachable StopLeavesNone
PROPERTIES CommandsReturn
