CONSTANTS
    Callers = {c1, c2}
    Ticker = ticker
    Worker = worker
    Owner = owner
    NoThread = none
    MaxTriggers = 3
SPECIFICATION Spec
INVARIANTS
    TypeOK
    PendingIffUnserved
    NoLostWakeup
    StorageOutlivesTriggers
PROPERTIES
    NoRunAfterStop
    CallsReturn
    ImplementsPromise
