SPECIFICATION Spec
CONSTANTS
  Pids = {1, 2, 3}
  root = 1
  init = 0
  Pipes = {"p1"}
  Lines <- ToForeground
  Garbage = {FALSE}
  MaxLines = 3
INVARIANT ForegroundIsHeld
CHECK_DEADLOCK FALSE
