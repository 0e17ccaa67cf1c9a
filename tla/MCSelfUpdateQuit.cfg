CONSTANTS
    Procs = {p1, p2}
    Latest = 1
    DigestPublished = TRUE
    MaxLaunches = 1
    MaxInstalls = 1
    MaxCrashes = 0
SPECIFICATION Spec
SYMMETRY ProcSymmetry
INVARIANT
    ExePathNeverEmpty
