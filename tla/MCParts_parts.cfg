SPECIFICATION PartsSpec
CONSTANTS
  Keys = {a, b, c}
  MaxLength = 5
  Width = 2
  Height = 3
  PanicRow = 1
  Characters <- CharactersDef
  Strings <- StringsDef
  MaxWrites = 3
  Bauds = {0, 1, 3, 9, 10}
  LineFormats = {3, 7, 11, 27}
  Letters <- LettersDef
  Commands <- CommandsDef
  Files <- FilesDef
  MaxText = 5
  MaxKeys = 5
  Ports = {"linux", "macos", "dos"}
  Waits = {0, 1}
  MaxCalls = 4
  MaxTick = 2
  Names <- NamesDef
  Word <- WordDef
  Contents <- ContentsDef
  Listings <- ListingsDef
  Home = "/a"
  CommandLines <- CommandLinesDef
  Chunk = 3
  IntMax = 7
  Tables <- TablesDef
  WordRange = 8
  ChunkSectors = 2
  kernel_size = 6
  bootload_delay_ms = 2
  MaxPresses = 2
  MaxMap = 4
  Ranges = {1, 4, 6}
  ModeLists <- ModeListsDef
  Wanted <- WantedDef
  MaxModes = 5
  Built <- BuiltDef
  Machines <- MachinesDef
  MaxCores = 3
  CoreIds = {0, 1, 2, 3, 4}
  BusRange = 4
  DeviceRange = 2
  FunctionRange = 2
  AreaLength = 8
  RomStart = 48
  RomLength = 8
  ByteRange = 8
  Texts <- TextsDef
  Numbers = {0, 42, 2047}
  Formats <- FormatsDef
  EndPoints <- EndPointsDef
  MaxStrings = 2
  MemorySize = 5
  MaxBlocks = 2
  FirstText = 100
  Compatible = 32
  TextValues <- TextValuesDef
  Devices <- DevicesDef
  Reservations <- ReservationsDef
  SymbolLists <- SymbolListsDef
  Stacks <- StacksDef
  CodeStart = 2
  CodeEnd = 10
  NameRoom = 3
  PrintLimit = 1
  FaultCodes = {0, 33}
  Logged <- LoggedDef
  BoxBytes <- BoxBytesDef
  LoggedNumbers = {0, 29}
  HexWidth = 3
  MaxLogs = 2
  Schedules <- SchedulesDef
  DrawTicks = {2, 5}
  MaxDraws = 2
  TickWords = 64
  Scale = 2
  Edge = 2
  Border = 9
  DisplayRows = 2
INVARIANT SortsArray
INVARIANT ShowsLastLines
INVARIANT SetUp
INVARIANT TerminalShowsText
PROPERTY KeysKeepLines
PROPERTY OneClock
INVARIANT HeadPrintsFirst
INVARIANT KernelAsChosen
INVARIANT ReadyToSchedule
INVARIANT FindsTheMachine
INVARIANT TextIsExact
INVARIANT TreeReadBack
INVARIANT BlocksArrive
INVARIANT NamesTheCallers
INVARIANT MonitorFollows
INVARIANT BoardShowsPlan
CHECK_DEADLOCK FALSE
