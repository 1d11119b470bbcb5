SPECIFICATION SystemSpec
CONSTANTS
    Systems <- FilledExactly
    Models <- MCModels
    ASIDPoolSize = 2
    FrameSizes = {2, 4}
    NumHighs = 3
    N = 3
    F = 4
    P = 3
INVARIANTS
    UsedUntypedsRecorded
