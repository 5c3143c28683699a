CONSTANTS
    t1 = t1
    d1 = d1
    d2 = d2
    net = net
    vol = vol
    disk = disk
    vm = vm
    Twin = {t1}
    Dl = {d1}
    TwinOf <- OneTwin
    Name = {disk}
    Type = {"zmount"}
    Sharable = {}
    NoDl = NoDl
    Version = {0, 1}
    Order <- TypeOrder
    Lazy = {"volume", "zmachine"}
    Updatable = {"zmount"}
    Upsert = {"network"}
    Pausable = {"zmachine"}
    Volatile = {"network", "zmachine"}
    Requests <- AllRequests
    Calls = {"provision", "update", "decommission"}
    ChainOps = {"hash", "cancel"}
    Faults = {"provision", "update", "chain"}
    Restarts = {"crash", "reboot"}
    MaxQueue = 2
    MaxRestart = 1
    MaxLock = 0
SPECIFICATION EngineSpec
INVARIANTS  VersionBound
 
CHECK_DEADLOCK FALSE
