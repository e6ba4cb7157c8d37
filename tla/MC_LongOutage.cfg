SPECIFICATION Spec
CONSTANTS
    Sender = {can_task, lvgl_task}
    Frames = {level, led}
    TX_POOL_SIZE = 2
    QueueDepth = 2
    LongOutage = TRUE
    NoFrame = NoFrame
    NoSlot = NoSlot
INVARIANT DriverOwnsBusySlots
