SPECIFICATION FairSpec
CONSTANTS
  Pids = {1, 2, 3, 4, 5, 6}
  root = 1
  init = 0
  Pipes = {"p1", "p2"}
  Lines <- Pipelines
  Garbage = {TRUE, FALSE}
  MaxLines = 2
INVARIANTS Plumbed
PROPERTIES PromptReturns WritersEnd
CHECK_DEADLOCK FALSE
