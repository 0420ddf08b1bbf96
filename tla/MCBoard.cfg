CONSTANTS
  Printer = {"a", "b"}
  Scanner = "s"
  Urgency <- MCUrgency
  BufLen = 3
  Depth = 1
  MaxPrint = 2
  Timeout = 1
  MaxInactive = 2
  Client = {"a", "b"}
  Device = {"/dev/null", "/dev/jtag_uart"}
  Mode = {"O_WRONLY"}
  MaxFd = 5
  Alarm = {"a", "b"}
  Wide = 16
  Period = {0, 1, 3, 14}
  TickRate = 3
  Us = 6
  Days = {0, 4, 20}
  Asked <- MCDelays
  LoopsPerUs = 3
  BusyUs = {0, 1, 2, 5, 6, 15}
  MaxWall = 30
  Mutator = {1, 2, 3}
  MaxDepth = 3
  Limit = 21
  Incr = {3, 4, 6}
  Blocks = {"x", "y", "z"}
  Reader = {1, 2}
  Channels = {1, 4}
  Bits = 2
  DeviceAddr = 2
  Registers = {1, 2}
  MaxLen = 2
  MaxRefused = 1
  MaxSample = 2
  MemSize = 2
  CellValues = {0, 1, 2}
  Fixed = {1}
  PageSize = 2
  BlockSize = 4
  FewBlocks = 2
  ManyBlocks = 4
  ChunkSize = 3
  BufSize = 3
  Spans <- MCSpans
  MaxCalls = 2
  Line = {0, 1}
  Registrar = {1, 2}
  Handler = {"a"}
  Timer = {0, 1, 2}
  WheelSize = 2
  TmrWide = 4
  TmrKinds <- MCTmrKinds
  MaxSignals = 1
  LowestPrio = 20
  MainTasks <- MCMainTasks
  TcbCount = 12
  MaxEvents = 60
  MaxQs = 20
  TicksPerSec = 1000
  MaxTime = 3
  Tenth = 2
  Percent = 4
  UsageWide = 8
  CtrWide = 64
  Speeds = {1, 4}
  StkSize = 3
  Stack = {"x", "y"}
  RegTcb = {"t1", "t2"}
  RegPrio = {1, 2}
  RegEvent = {"event"}
  RegGroup = {"group"}
  RegPart = {"part"}
  NameLen <- MCNameLen
  NameSize = 9
SPECIFICATION BoardSpec
INVARIANTS
  ConsoleHolds
  DescriptorsHold
  ClockHolds
  HeapHolds
  ReadingIsOwn
  CompassHolds
  FlashHolds
  HandlersFit
  TimersHold
  KernelSidesHold
CHECK_DEADLOCK FALSE
