SPECIFICATION Spec
CONSTANTS
    Keys <- ThreeKeys
    Writers = {o1, o2}
    Sizes = {1, 2}
    MaxSize = 3
    InPlace = FALSE
    Faults <- NoFaults
    Scans <- Directories
SYMMETRY Permuted
INVARIANTS DiskWithinLimit LInv
PROPERTIES StaysWithinLimit ReplacementUndisturbed RefusedOnlyWhenFull SweepEnforces
