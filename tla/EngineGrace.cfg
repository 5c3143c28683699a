CONSTANTS
    t1 = t1
    d1 = d1
    d2 = d2
    net = net
    vol = vol
    disk = disk
    vm = vm
    Twin = {t1}
    Dl = {d1}
    TwinOf <- OneTwin
    Name = {vol, vm}
    Type = {"volume", "zmachine"}
    Sharable = {}
    NoDl = NoDl
    Version = {0}
    Order <- TypeOrder
    Lazy = {"volume", "zmachine"}
    Updatable = {"volume", "network"}
    Upsert = {"network"}
    Pausable = {"zmachine"}
    Volatile = {"network", "zmachine"}
    Requests <- FullRequest
    Calls = {"provision"}
    ChainOps = {"lock"}
    Faults = {"lock"}
    Restarts = {}
    MaxQueue = 2
    MaxRestart = 0
    MaxLock = 1
SPECIFICATION LiveSpec
PROPERTIES GraceConverges
CHECK_DEADLOCK FALSE
