CONSTANTS
    Menu = menu
    Dialog = dialog
    NoThread = none
    ReadMayFail = TRUE
    MaxToggles = 3
    MaxEnds = 2
SPECIFICATION PreferencesSpec
PROPERTY
    NoChoiceClobbered
