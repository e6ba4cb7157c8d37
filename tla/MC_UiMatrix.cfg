SPECIFICATION Spec
CONSTANTS
    Outs = 2
    Ins = 2
    MinPct = 1
    MaxPct = 1
    Step = 1
    Nothing = Nothing
    Hidden = Hidden
    MaxCalls = 2
INVARIANTS
    TypeOK
    ScreenTellsRoute
    ScreenDrawsState
