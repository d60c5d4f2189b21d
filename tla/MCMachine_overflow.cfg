\* The same instance, for a delay of no ticks.
SPECIFICATION PartsSpec
CONSTANTS
  Columns = {5, 6, 7, 8}
  Row = 2
  Glyphs = {"blank", "A"}
  TickRange = 4
  Delays = {0, 1, 3}
  Packets <- PacketsDef
  Texts <- TextsDef
  Budget <- BudgetDef
  Threads = {t1, t2, t3}
  Tickets = 3
  MAX_CONCURRENT = 3
  FirstConfigs <- FirstConfigsDef
  ScanCodes <- ScanCodesDef
  MaxScanCodes = 2
PROPERTY OverflowOnly
CHECK_DEADLOCK FALSE
