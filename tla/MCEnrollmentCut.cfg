SPECIFICATION Spec
CONSTANTS
    MaxToken = 2
    MaxSeq = 1
    MaxBound = 1
    MaxCut = 1
    MaxFault = 0
    MaxSwap = 0
INVARIANT CutsAreRecoverable
