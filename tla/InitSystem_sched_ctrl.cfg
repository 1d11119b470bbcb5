SPECIFICATION FairSpec
CONSTANTS
    Specs <- MCSpecs
    MaxNumNodes = 2
    NumNodes = 2
    PoolEntries = 2
INVARIANTS
    SchedCtrlInBounds
