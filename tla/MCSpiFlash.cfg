SPECIFICATION FairSpec
CONSTANTS
    Bits <- MCBits
    Torn = Torn
    PageSize = 2
    EraseSize = 4
    ChipErase = 4
    DeviceSize = 12
    Buffers <- MCBuffers
    InitMems <- MCInitMems
    MaxCalls = 2
    MaxPowerLoss = 1
INVARIANTS
    TypeOK
    WriteIsMerge
    OneSectorAtRisk
    ProgramsErasedPages
PROPERTIES
    NoCommandIgnored
    ImplementsFlashStore
    WriteReturns
CHECK_DEADLOCK FALSE
