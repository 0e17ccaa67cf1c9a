CONSTANTS
    Menu = menu
    Dialog = settings
    NoThread = none
    ReadMayFail = TRUE
    MaxToggles = 4
    MaxEnds = 2
    Keys = {good, bad}
    ValidKeys = {good}
    NoKey = noKey
    Verifiers = {v1, v2}
    MaxWindows = 3
    Procs = {p1, p2, p3}
    Latest = 2
    DigestPublished = TRUE
    MaxLaunches = 3
    MaxInstalls = 2
    MaxCrashes = 1
SPECIFICATION MCSpec
SYMMETRY DiskSymmetry
INVARIANTS
    StoredIsLastSaved
    VerdictIsTheLastAsked
    BuildNeverLost
    OnlyVerifiedInstalled
    AtMostOneInstance
    RestartUpgrades
PROPERTIES
    ImplementsStore
    NoChoiceClobberedOnceRead
    NotTurnedAwayByParent
