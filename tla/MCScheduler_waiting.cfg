\* A task that waits for one that was accepted.
SPECIFICATION Spec
CONSTANTS
  UPDATE_SCHEDULE_RATE = 3
  MAX_SCHEDULED_ITEMS = 30
  MAX_TASKS = 4
  FudgeMargin = 1
  BootRequests <- WaitingTasks
  OnTheFly <- OnceTask
  BootTicks = 0
  MaxTick = 4
  Lag = 0
INVARIANT WaitForAnswer
CHECK_DEADLOCK FALSE
