SPECIFICATION Spec
CONSTANTS
    NumColumns = 2
    NumRows = 9
    Images <- PairImages
    BusFrames <- MCFrames
    BootRoutes <- MCBoot
    UiInputs <- MCUiInputs
    Unknown = Unknown
INVARIANTS
    TypeOK
    CursorFollowsSelection
    LampsTellTheRoute
    PanelsShowSelection
