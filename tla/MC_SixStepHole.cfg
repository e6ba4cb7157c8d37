SPECIFICATION Spec
CONSTANTS
    NumColumns = 2
    NumRows = 9
    Images <- HoleImages
    BusFrames <- MCFrames
    BootRoutes <- MCBoot
    UiInputs <- MCUiInputs
    Unknown = Unknown
INVARIANT
    SelectedInputIsRouted
