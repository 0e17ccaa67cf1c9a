CONSTANTS
    Paths = {p, q}
    NoPath = none
    MaxStarts = 2
    MaxClicks = 2
    MaxEvents = 3
    MaxLength = 3
    Plain <- MCPlain
    SyncWord <- MCSyncWord
    Option <- MCOption
    LineRoom = 15
    PairRoom = 8
    Table <- MCTable
    MaxCandidates = 2
    MaxRoots = 4
    DetailChars = 5
    WarningChars = 4
    UnsignedSize = 16
    TextSize = 12
    Inputs <- MCInputs
    talking = talking
    silent = silent
    Calls = {talking, silent}
    App = app
    Leavers = {talking}
    Output <- MCOutput
    Capacity = 1
SPECIFICATION MCSpec
INVARIANTS
    CleartextStaysLocal
