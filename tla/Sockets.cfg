SPECIFICATION MCSpec
CONSTANTS
  t1 = t1
  NoTask = NoTask
  Tasks <- OneTask
  Delays <- ShortDelays
  Elapsed <- UpToOne
  TicksPerMs = 2
  MaxTicks = 2
  IntMax = 7
  Fds = {1, 2}
  s1 = s1
  s2 = s2
  s3 = s3
  Socks <- ThreeSocks
  Ports = {1, 2}
  MaxFiles = 3
  MaxData = 1
  NoSock = NoSock
  MaxNumber = 3
  Words = {0, 1}
  PortEnd = 4
  Other = Other
  Numbered <- NumberedEntries
  Keyed <- KeyedEntries
  MaxEntries = 3
  OptionNumbers <- SomeNumbers
  PerSec = 4
  Chains <- SomeChains
  LoName = "lo"
  Dockers = {"docker0"}
  Absent = Absent
INVARIANTS
  CountMatchesNodes
  KernelAgrees
  ReadHasCallback
  OwnsItsFile
  AddressIsTrue
  NothingMeansEnd
  SelectLosesNothing
  AddressKeeps
  SelectIsExact
  OptionsReadBack
  InterfacesTold
PROPERTIES
  EndsWhenDone
  EventsReachTheirOwn
SYMMETRY Swaps
CHECK_DEADLOCK FALSE
