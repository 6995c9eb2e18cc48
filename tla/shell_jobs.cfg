SPECIFICATION Spec
CONSTANTS
  Pids = {1, 2, 3, 4}
  root = 1
  init = 0
  Pipes = {"p1", "p2"}
  Lines <- EveryCommand
  Garbage = {TRUE, FALSE}
  MaxLines = 3
INVARIANTS TypeOK HeldShells PromptMeansIdle TerminalForPrograms NoCircularWait
CHECK_DEADLOCK FALSE
