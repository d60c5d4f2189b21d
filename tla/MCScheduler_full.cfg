\* Lists that fill up.
SPECIFICATION Spec
CONSTANTS
  UPDATE_SCHEDULE_RATE = 3
  MAX_SCHEDULED_ITEMS = 8
  MAX_TASKS = 4
  FudgeMargin = 1
  BootRequests <- FillingTasks
  OnTheFly <- OnceTask
  BootTicks = 1
  MaxTick = 9
  Lag = 1
INVARIANT IInv
INVARIANT SortRange
CHECK_DEADLOCK FALSE
