SPECIFICATION Spec
CONSTANTS
    Bus <- MCBus
    USB_MAX_STOR_DEV = 2
    USB_MAX_READ_BLK = 1
    Blocks = 2
    InquiryRetry = 1
    ReadyRetry = 0
    CapacityRetry = 0
    ReadRetry = 1
    SharedNumber = TRUE
    MaxReads = 1
    None = None
CHECK_DEADLOCK FALSE
INVARIANTS
    TypeOK
    ReadIsData
    OwnSlot
    Restored
PROPERTIES
    UsbReturns
