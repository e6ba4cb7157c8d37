SPECIFICATION FairSpec
CONSTANTS
    Task = {can_task, usb_to_can_task}
    Lvgl = Lvgl
    Nobody = Nobody
    LOG_SIZE = 2
    MAX_FRAME_NUM = 1
    MAX_SEP_NUM = 1
    CallsMayFail = TRUE
INVARIANTS
    TypeOK
    OneNotification
    MonitorShowsLog
PROPERTIES
    ImplementsRecentLog
    EveryoneReturns
    MonitorCatchesUp
