\* Sorting while the online scheduler runs.
SPECIFICATION Spec
CONSTANTS
  UPDATE_SCHEDULE_RATE = 3
  MAX_SCHEDULED_ITEMS = 40
  MAX_TASKS = 8
  FudgeMargin = 1
  BootRequests <- FastTasks
  OnTheFly <- LateTask
  BootTicks = 0
  MaxTick = 5
  Lag = 0
INVARIANT NoneSkipped
CHECK_DEADLOCK FALSE
