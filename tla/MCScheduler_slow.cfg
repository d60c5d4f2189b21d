\* Tasks less frequent than the online scheduler, and a list small enough to be
\* purged.
SPECIFICATION FairSpec
CONSTANTS
  UPDATE_SCHEDULE_RATE = 3
  MAX_SCHEDULED_ITEMS = 14
  MAX_TASKS = 3
  FudgeMargin = 1
  BootRequests <- SlowTasks
  OnTheFly <- LateTask
  BootTicks = 0
  MaxTick = 12
  Lag = 1
INVARIANT RunsAreBounded
INVARIANT OccurrencesInv
PROPERTY RunOnce
PROPERTY EveryItemRuns
CHECK_DEADLOCK FALSE
