SPECIFICATION Spec
CONSTANTS
    p1 = p1
    p2 = p2
    Ports <- MCPorts
    NetRetry = {TRUE, FALSE}
    NoPacket = NoPacket
    NoBody = NoBody
    Blocks <- MCBlocks
    BlkSize <- MCBlkSize
    LastLen <- MCLastLen
    TFTP_BLOCK_SIZE = 2
    SequenceSize = 16
    MemUnits = 7
    TIMEOUT_COUNT = 1
    ARP_TIMEOUT_COUNT = 5
    TIMEOUT = 1
    ARP_TIMEOUT = 1
    RESTART_DELAY = 2
    MaxAttempts = 2
    MaxSessions = 2
    MaxFaults = 2
    MaxBoth = 4
CHECK_DEADLOCK FALSE
INVARIANTS
    TypeOK
    LoadedIsFile
    AckedBlocksStored
    ArpNeverGivesUp
PROPERTIES
    AttemptEnds
