SPECIFICATION Spec
CONSTANTS
    p1 = p1
    p2 = p2
    Ports <- MCOnePort
    NetRetry = {TRUE, FALSE}
    NoPacket = NoPacket
    NoBody = NoBody
    Blocks <- MCBlocksWrap
    BlkSize <- MCBlkSizeWrap
    LastLen <- MCLastLenWrap
    TFTP_BLOCK_SIZE = 2
    SequenceSize = 3
    MemUnits = 16
    TIMEOUT_COUNT = 1
    ARP_TIMEOUT_COUNT = 5
    TIMEOUT = 1
    ARP_TIMEOUT = 1
    RESTART_DELAY = 2
    MaxAttempts = 1
    MaxSessions = 1
    MaxFaults = 1
    MaxBoth = 2
CHECK_DEADLOCK FALSE
INVARIANTS
    LoadedIsFile
