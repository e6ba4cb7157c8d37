SPECIFICATION Spec
CONSTANTS
    Outs = 1
    Ins = 1
    MinPct = 2
    MaxPct = 4
    Step = 2
    Nothing = Nothing
    Hidden = Hidden
    MaxCalls = 1
INVARIANTS
    LightIsSetting
    SettingIsSaved
