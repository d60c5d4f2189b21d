\* Deadlines that are missed by a task that moves the list.
SPECIFICATION Spec
CONSTANTS
  UPDATE_SCHEDULE_RATE = 3
  MAX_SCHEDULED_ITEMS = 40
  MAX_TASKS = 8
  FudgeMargin = 1
  BootRequests <- FastTasks
  OnTheFly <- LateTask
  BootTicks = 0
  MaxTick = 7
  Lag = 0
PROPERTY MissesAreCounted
CHECK_DEADLOCK FALSE
