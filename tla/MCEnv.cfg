SPECIFICATION Spec
CONSTANTS
    Names <- MCNames
    Baudrate = "baudrate"
    ConsoleNames <- MCConsole
    Vals <- MCVals
    Weight <- MCWeight
    EnvSize = 7
    Supported <- MCSupported
    ConfigBaudrate = "long"
    Default <- MCDefault
    Sectors = 3
    Torn = Torn
    Nil = Nil
    MaxPowerLoss = 2
    MaxSets = 4
INVARIANTS
    TypeOK
    NoMixedEnvironment
    WellFormed
    CrcCoversData
    EditsInPlace
PROPERTIES
    OneVariableAtATime
    SetenvTakesEffect
CHECK_DEADLOCK FALSE
