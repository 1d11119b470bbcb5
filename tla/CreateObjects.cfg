SPECIFICATION FairSpec
CONSTANTS
    Models <- MCModels
    MaxObjects = 4
    PageSize = 2
    ASIDPoolSize = 2
    MaxStreamIds = 2
    FrameSizes = {2, 4}
    N = 4
INVARIANTS
    TypeOK
    NoFragmentation
    EveryObjectCreated
    NoOverlap
    DeviceAtPaddr
    BorrowedSlotsReturned
PROPERTIES
    WatermarkNeverReset
    CreationTerminates
    ImplementsPlacement
