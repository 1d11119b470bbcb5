SPECIFICATION FairSpec
CONSTANTS
    Specs <- MCSpecs
    MaxNumNodes = 3
    NumNodes = 2
    PoolEntries = 2
INVARIANTS
    CSpaceConforms
    VSpaceConforms
    IrqsConform
    ThreadsConform
PROPERTIES
    QuietAfterStart
    SystemStarts
    CheckedModelsStart
