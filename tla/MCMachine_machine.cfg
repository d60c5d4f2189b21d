\* Each line of the machine asks once or twice; three threads at each lock.
\* The program may stop with an error, and the devices run dry.
SPECIFICATION PartsSpec
CONSTANTS
  Columns = {5, 6, 7, 8}
  Row = 2
  Glyphs = {"blank", "A"}
  TickRange = 4
  Delays = {0, 1, 3}
  Packets <- PacketsDef
  Texts <- TextsDef
  Budget <- BudgetDef
  Threads = {t1, t2, t3}
  Tickets = 3
  MAX_CONCURRENT = 3
  FirstConfigs <- FirstConfigsDef
  ScanCodes <- ScanCodesDef
  MaxScanCodes = 2
INVARIANT EndsAreDue
INVARIANT NewestByteKept
INVARIANT PacketInStep
INVARIANT MouseStarted
INVARIANT DelayNotShort
INVARIANT PointerOverText
PROPERTY EveryRequestServed
PROPERTY IsFairLock
PROPERTY EveryTicketServed
INVARIANT MutualExclusion
PROPERTY EntrantsGetIn
CHECK_DEADLOCK FALSE
