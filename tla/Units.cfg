SPECIFICATION Spec
CONSTANTS
  Addrs = {a1, a2}
  Vids = {v1}
  McMax = 1
  MaxChanges = 2
  MaxFaults = 1
  Sockets = {s1, s2}
  RxRings = 2
  Weights = {1, 4}
  BusyMax = 1
  MaxFrames = 2
  MaxDowns = 1
  XdpCount = 4
  Pages = {p1, p2, p3}
  NoPage = NoPage
  XdpBudget = 2
  MaxPolls = 2
  MaxCycles = 1
  Low = 4
  Wide = 8
  MaxCount = 12
  MaxUps = 2
  MaxUpdates = 3
  MaxQueues = 2
  Usecs = {1022, 1023}
  Loads = {5, 25}
  MaxSettings = 1
  Cpus = {1, 2, 4}
  TxQueues = {2, 4, 8}
  Classes = {1, 4}
  MaxSchemes = 2
  MemTx = 1
  MemXdp = 1
  MemRx = 2
  DescMin = 2
  DescMax = 4
  DescMultiple = 2
  Jumbo = TRUE
  MaxResizes = 2
  Mtus = {60, 1500, 1646, 1647, 1700, 2026, 2030, 3000, 3054, 3060, 16110, 16111}
  PfFrames = {1518, 2000, 9728}
  RssMacs = {"82599", "x550"}
  RssApis = {11, 12}
  QueueCounts = {1, 2, 4}
  RetaSize = 8
  MaxHashes = 2
  MacLens = {127, 128}
  NetLens = {20, 511, 512}
  Doffs = {5, 15}
  Tags = {0, 5}
  Payload = 3000
  Mss = 1448
  TestQueues = 2
  LinkMacs = {"82599", "x550", "x550em"}
  MaxTests = 1
  XaShift = 1
  XaLevels = 3
  XaEntries = {1}
  XaIndices = {0, 1, 5}
  XaTop = 5
  XaLimits <- MCLimits
  XaIdSize = 4
  MaxXaOps = 3
  HdrSize = 256
  IpWords = {4, 5, 6, 15}
  TcpWords = {0, 5, 8, 15}
  ExtMax = 2
  WalkLens = {0, 1, 3, 4, 12, 200}
INVARIANTS
  FiltersHeld VectorInv XdpInv StatsTrue ItrInv SetupWhole RxConfigured PacketsDescribed
  SelfTestTrue XaCorrect
PROPERTY FramesPolled
CHECK_DEADLOCK FALSE
