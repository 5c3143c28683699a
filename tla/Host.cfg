CONSTANTS
  d1 = d1
  d2 = d2
  t1 = t1
  n1 = n1
  Twin = {t1}
  Dl = {d1, d2}
  TwinOf <- OneTwin
  Name = {n1}
  Type = {"network", "zmount"}
  Sharable = {"network"}
  NoDl = NoDl
  Version = {0}
  MaxLog = 2
  Logged = {"ok", "unchanged"}
  MaxSent = 1
  Ssds = {"s1"}
  Hdds = {"h1"}
  PoolSize <- MCSize
  Volumes = {"v1"}
  Disks = {"d1"}
  Sizes = {3}
  LargerSizes = {4}
  CacheUnit = 1
  MaxCacheUse = 1
  MissingSSD = TRUE
  MaxFaults = 1
  MaxBoots = 2
  Machines = {"m1", "m2"}
  VmdWorkers = 1
  FailuresBeforeDestroy = 2
  MaxProvisions = 2
  MaxCrashes = 2
  MaxVmFaults = 1
  Containers = {"c1"}
  ContdFailures = 2
  MaxRuns = 2
  MaxExits = 3
  MaxContdFaults = 1
  Mounts = {"w1", "w2"}
  Flists = {"f1", "f2"}
  Servers = {"p1", "p2", "p3", "p4", "p5", "p6", "p7"}
  MaxFlistFaults = 2
  Devices = {"h1", "h2"}
  DeviceSize = 3
  Zdbs = {"z1", "z2"}
  ZdbSizes = {1, 2}
  MaxZdbRestarts = 1
  MaxZdbFaults = 1
  MetricsLimit = 2
  MaxMounts = 2
  MaxUploads = 1
  MaxQsfsFaults = 1
  Nets = {"w1", "w2"}
  WithMycelium = {"w1"}
  Ports = {1, 2}
  DaemonPorts = {}
  NoPort = NoPort
  TornNet = TornNet
  NoNet = NoNet
  MaxNetCalls = 2
  MaxNetFaults = 2
SPECIFICATION HostSpec
CHECK_DEADLOCK FALSE
INVARIANTS HostTypeOK StoreBuckets VolumesFound VolumesReserved OneProcess TaskHasContainer FlistMounts ZdbSpaces NetworksHold
PROPERTIES StoreImplemented StorageSettles VmSettles MarkStopsRestarts  QsfsSettles
