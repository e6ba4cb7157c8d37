SPECIFICATION FairSpec
CONSTANTS
    Output <- MCOutput
    Input <- MCInput
    Identity <- MCIdentity
    Setter = {can_task, lvgl_task}
    Refresher = ic_refresh_task
    Nobody = Nobody
    Debounce = 2
    Cap = 3
    MaxBurst = 2
    Nothing = Nothing
    Unknown = Unknown
INVARIANTS
    TypeOK
    ChangeIsPending
    SaveNotPostponed
    IcHasRoutes
PROPERTIES
    RoutesReachFlash
