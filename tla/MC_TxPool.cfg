SPECIFICATION FairSpec
CONSTANTS
    Sender = {can_task, lvgl_task}
    Frames = {level, led}
    TX_POOL_SIZE = 3
    QueueDepth = 3
    LongOutage = FALSE
    NoFrame = NoFrame
    NoSlot = NoSlot
INVARIANTS
    TypeOK
    SlotsAreNotShared
PROPERTIES
    ImplementsFifo
    PoolRecovers
