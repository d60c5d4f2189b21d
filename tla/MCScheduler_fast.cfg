\* Tasks more frequent than the online scheduler, as in main(), and tasks of
\* every other kind, one of them added while the system runs.
SPECIFICATION Spec
CONSTANTS
  UPDATE_SCHEDULE_RATE = 3
  MAX_SCHEDULED_ITEMS = 40
  MAX_TASKS = 8
  FudgeMargin = 1
  BootRequests <- FastTasks
  OnTheFly <- LateTask
  BootTicks = 1
  MaxTick = 6
  Lag = 1
INVARIANT EveryOccurrenceOnce
INVARIANT EvaluatedToNextUpdate
CHECK_DEADLOCK FALSE
