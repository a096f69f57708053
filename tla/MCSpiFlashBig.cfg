SPECIFICATION Spec
CONSTANTS
    Bits <- MCBits
    Torn = Torn
    PageSize = 2
    EraseSize = 8
    ChipErase = 4
    DeviceSize = 16
    Buffers <- MCBuffers
    InitMems <- MCInitMems
    MaxCalls = 1
    MaxPowerLoss = 1
INVARIANT
    WriteIsMerge
CHECK_DEADLOCK FALSE
