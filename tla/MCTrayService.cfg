CONSTANTS
    Main = main
    Callers = {main}
    Setups <- MCSetups
    MaxChanges = 2
    MaxToggles = 3
SPECIFICATION Spec
INVARIANTS
    WatchingFollowsTracking
    OneScanAfterDisable
    NothingLeftAfterStop
PROPERTIES
    EverythingSent
    StopReturns
