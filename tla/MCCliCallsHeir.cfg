CONSTANTS
    talking = talking
    silent = silent
    Calls = {talking, silent}
    App = app
    Leavers = {talking}
    Output <- MCOutput
    Capacity = 1
SPECIFICATION CallsSpec
PROPERTIES
    NoWriteAfterReturn
