\* The services of one daemon: the thin pool, the output of a container, its log file, the
\* events, the health monitors, the restart beside containerd and builds.
SPECIFICATION DaemonSpec
CONSTANTS
  u1 = u1
  u2 = u2
  DmUsers = {u1, u2}
  DmHashes = {h1, h2}
  DmMaxId = 2
  DmRetries = 1
  DmLoads <- MCDmLoads
  None = None
  cli = cli
  SmClients = {cli}
  SmRuns = 2
  minCap = 1
  maxCap = 2
  blockThreshold = 3
  bufSize = 2
  SmLoads <- MCSmLoads
  JlReaders = {"a"}
  JlLoads <- MCJlLoads
  EvSubs = {"s1", "s2"}
  EvLoggers = {"l1", "l2"}
  eventsLimit = 2
  bufferSize = 1
  EvLoads <- MCEvLoads
  HlMax = 4
  HlLoads <- MCHlLoads
  LrLoads <- MCLrLoads
  b1 = b1
  b2 = b2
  b3 = b3
  Bases <- MCBases
  BaseOf <- MCBaseOf
  RelDirs = {"rel"}
  BuLoads <- MCBuLoads
INVARIANTS
  DevicesSurvive
  NothingLeaked
  OutputComplete
  NeverStuck
  ReadInOrder
  FollowerCatchesUp
  NoEventMissed
  OneMonitor
  StatesAgree
  BuildsWhatIsWritten
  NoneLeft
