CONSTANTS
    t1 = t1
    d1 = d1
    d2 = d2
    net = net
    vol = vol
    disk = disk
    vm = vm
    Twin = {t1}
    Dl = {d1}
    TwinOf <- OneTwin
    Name = {vol}
    Type = {"volume"}
    Sharable = {}
    NoDl = NoDl
    Version = {0}
    Order <- TypeOrder
    Lazy = {"volume", "zmachine"}
    Updatable = {"volume", "network"}
    Upsert = {"network"}
    Pausable = {"zmachine"}
    Volatile = {"network", "zmachine"}
    Requests <- FullRequest
    Calls = {"provision"}
    ChainOps = {}
    Faults = {}
    Restarts = {"crash"}
    MaxQueue = 2
    MaxRestart = 1
    MaxLock = 0
SPECIFICATION EngineSpec
PROPERTIES AcceptedStays
CHECK_DEADLOCK FALSE
