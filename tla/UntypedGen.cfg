SPECIFICATION GenSpec
CONSTANTS
    Inputs <- MCInputs
    MinBits = 0
    MaxBits = 2
    Top = 8
INVARIANTS
    FreeIsUnreserved
    UntypedsAccepted
