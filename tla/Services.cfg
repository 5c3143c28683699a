CONSTANTS
  MaxBlocks = 3
  MaxStream = 3
  MaxEventRestarts = 1
  EventFaults = {"rpc", "push", "archive", "file", "ack"}
  MaxEventFaults = 1
  PowerNodes = {"n1", "n2"}
  WakeOnLan = {"n1"}
  MaxTargets = 3
  MaxPowerFaults = 1
  MaxAddress = 3
  MaxRegistrarFaults = 2
  AccountEvery = 1
  UpdateEvery = 3
  Configs = {"none", "p1", "p2"}
  NoConfig = "none"
  MaxConfigs = 3
  MaxPublicFaults = 2
  Packages = {"a", "b"}
  Zos = "zos"
  Tags = {"t1", "t2", "t3"}
  Contents <- MCContents
  FirstTag = "t1"
  NoTag = "none"
  Torn = "torn"
  Partial = 0
  MaxTagMoves = 2
  MaxUpgradeFaults = 2
  Contracts = {"c1", "c2"}
  MaxUse = 1
  ChannelSize = 2
  MaxAttempts = 2
  MaxChanges = 4
  MaxSetFaults = 2
  SlotWidth = 2
  ReportEvery = 4
  Retention = 8
  MaxTime = 9
  MaxTraffic = 2
  MaxReportFaults = 1
  Proxies = {"x1", "x2"}
  NameDomains = {"n"}
  FqdnDomains = {"f"}
  NoDomain = "none"
  TornFile = "torn"
  NoProxy = "none"
  MaxGwCalls = 2
  MaxNameChanges = 2
  MaxGwFaults = 1
SPECIFICATION ServicesSpec
CHECK_DEADLOCK FALSE
INVARIANTS ServicesTypeOK NothingLost OffIsAnnounced RegistrationKnown   UseReported 
PROPERTIES ZosLast EventsLatestWins PowerConverges   UpgraderConverges  GatewayNamesReleased
