CONSTANTS
    a = a
    b = b
    c = c
    Paths = {a, b, c}
    PathLists <- MCPathLists
    MaxRoots = 2
    MaxChanges = 3
    MaxCalls = 2
SPECIFICATION Spec
INVARIANTS
    NoRootGoesDeaf
    NothingFreedIsUsed
PROPERTIES
    ImplementsPromise
    CallsReturn
