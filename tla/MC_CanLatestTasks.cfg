SPECIFICATION Spec
CONSTANTS
    NumColumns = 2
    NumRows = 3
    Images <- MCImages
    UiInputs <- MCUiInputs
    Buttons = {0}
    MaxBurst = 2
    Can = can_task
    Lvgl = lvgl_task
    Usb = usb_to_can_task
INVARIANTS
    TypeOK
    SelectionIsRouted
    PanelsTellSelection
