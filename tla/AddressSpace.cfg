SPECIFICATION Spec
CONSTANTS
    Images <- MCImages
    PageSize = 2
    PageBits = 1
    NoCap = NoCap
INVARIANTS
    ImageLoaded
    GivenFramesMapped
    LookupAgrees
