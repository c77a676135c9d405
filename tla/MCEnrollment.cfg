SPECIFICATION Spec
CONSTANTS
    MaxToken = 2
    MaxSeq = 3
    MaxBound = 1
    MaxCut = 2
    MaxFault = 1
    MaxSwap = 1
INVARIANTS HandoverIsWhole TokenKept
PROPERTY ActivationCompletes
