SPECIFICATION FairSpec
CONSTANTS
    Upload = {one, two}
    Factory = Factory
    NoUpload = NoUpload
    USB_RX_QUEUE_DEPTH = 2
INVARIANTS
    TypeOK
    AckedIsActive
    ActiveIsOneUpload
    SavedAndLive
PROPERTIES
    CommitIsAnswered
