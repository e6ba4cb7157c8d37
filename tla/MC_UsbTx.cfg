SPECIFICATION UsbFairSpec
CONSTANTS
    Can2usb = can2usb
    Usb2can = usb2can
    NoTask = NoTask
    QUEUE_DEPTH = 2
    CAN_RX_QUEUE_DEPTH = 2
INVARIANTS
    UsbTypeOK
    SemaphoreGuardsBuffer
PROPERTIES
    SemaphoreComesBack
    ReceiveGoesOn
