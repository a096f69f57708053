SPECIFICATION FairSpec
CONSTANTS
    v0 = v0
    v1 = v1
    v2 = v2
    v3 = v3
    v4 = v4
    v5 = v5
    Files <- MCFiles
    Sticks <- MCSticks
    NoFile = NoFile
    NoStick = NoStick
    Ids <- MCIds
    FactoryInfo <- MCFactoryInfo
    Blank = Blank
    Torn = Torn
    Stale = Stale
    Data = Data
    ImageSectors = 2
    InfoSector = 4
    DeviceSectors = 4
    FactoryImage = v0
    MaxPowerLoss = 1
    MaxSwaps = 1
INVARIANTS
    TypeOK
    DeadOnlyByPowerLoss
    OnlyOwnImages
    OutsideImageKept
PROPERTIES
    RecordFollowsImage
    BootsEventually
CHECK_DEADLOCK FALSE
