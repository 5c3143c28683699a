CONSTANTS
    t1 = t1
    d1 = d1
    d2 = d2
    net = net
    vol = vol
    disk = disk
    vm = vm
    n1 = n1
    n2 = n2
    Twin = {t1}
    Dl = {d1, d2}
    TwinOf <- OneTwin
    Name = {n1, n2}
    Type = {"volume", "zmachine", "network"}
    Sharable = {"network"}
    NoDl = NoDl
    Version = {0}
    Order <- TypeOrder
    Lazy = {"volume", "zmachine"}
    Updatable = {"volume", "network"}
    Upsert = {"network"}
    Pausable = {"zmachine"}
    Volatile = {"network", "zmachine"}
    Requests <- OneOfEach
    Calls = {"provision"}
    ChainOps = {"lock", "unlock", "cancel"}
    Faults = {"provision", "lock"}
    Restarts = {"crash", "reboot"}
    MaxQueue = 2
    MaxRestart = 1
    MaxLock = 1
SPECIFICATION FocusSpec
INVARIANTS EngineTypeOK  NoOrphan SharedExclusive
CHECK_DEADLOCK FALSE
