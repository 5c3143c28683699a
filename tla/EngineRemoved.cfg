CONSTANTS
    t1 = t1
    d1 = d1
    d2 = d2
    net = net
    vol = vol
    disk = disk
    vm = vm
    Twin = {t1}
    Dl = {d1}
    TwinOf <- OneTwin
    Name = {vol, vm}
    Type = {"volume", "zmachine"}
    Sharable = {}
    NoDl = NoDl
    Version = {0, 1, 2}
    Order <- TypeOrder
    Lazy = {"volume", "zmachine"}
    Updatable = {"volume", "network"}
    Upsert = {"network"}
    Pausable = {"zmachine"}
    Volatile = {"network", "zmachine"}
    Requests <- AddThenRemove
    Calls = {"provision", "update"}
    ChainOps = {"hash"}
    Faults = {}
    Restarts = {}
    MaxQueue = 2
    MaxRestart = 0
    MaxLock = 0
SPECIFICATION EngineSpec
INVARIANTS RemovedIsDeleted
CHECK_DEADLOCK FALSE
