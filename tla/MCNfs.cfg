SPECIFICATION Spec
CONSTANTS
    d = d
    e = e
    Names <- MCNames
    FileLen <- MCFileLen
    Link <- MCLinks
    Relative <- MCRelative
    Garbled <- MCGarbled
    PathLen <- MCPathLen
    Wanted <- MCWanted
    Errors <- MCErrors
    None = None
    NetRetry = {TRUE}
    NoPacket = NoPacket
    NFS_READ_SIZE = 2
    MemUnits = 2
    NFS_TIMEOUT = 2
    ARP_TIMEOUT_COUNT = 3
    ARP_TIMEOUT = 1
    RESTART_DELAY = 1
    MaxAttempts = 2
    MaxFaults = 1
    MaxBoth = 2
CHECK_DEADLOCK FALSE
INVARIANTS
    TypeOK
    LoadedIsFile
    HandlesArePath
PROPERTIES
    NoLateWrite
    LoadEnds
