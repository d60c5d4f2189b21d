\* The driver of macOS.
SPECIFICATION Spec
CONSTANTS
  short = short
  long = long
  isr = isr
  queue = queue
  NoTask = NoTask
  Handlers <- OneQueue
  Threaded = TRUE
  Tasks <- TwoTasks
  Bound <- Bounds
  FudgeMargin = 2
  MaxTick = 8
INVARIANT UninstalledNotCalled
CHECK_DEADLOCK FALSE
