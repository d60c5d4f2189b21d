\* The driver of the bare machine.
SPECIFICATION FairSpec
CONSTANTS
  short = short
  long = long
  isr = isr
  queue = queue
  NoTask = NoTask
  Handlers <- OneInterrupt
  Threaded = FALSE
  Tasks <- TwoTasks
  Bound <- Bounds
  FudgeMargin = 2
  MaxTick = 8
PROPERTY WatchesTasks
PROPERTY TaskIsStarted
PROPERTY OverrunEnds
CHECK_DEADLOCK FALSE
