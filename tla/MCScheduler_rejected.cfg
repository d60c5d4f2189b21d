\* A task whose request was rejected.
SPECIFICATION Spec
CONSTANTS
  UPDATE_SCHEDULE_RATE = 3
  MAX_SCHEDULED_ITEMS = 8
  MAX_TASKS = 4
  FudgeMargin = 1
  BootRequests <- FillingTasks
  OnTheFly <- OftenTask
  BootTicks = 0
  MaxTick = 9
  Lag = 0
INVARIANT RejectedNeverRun
CHECK_DEADLOCK FALSE
