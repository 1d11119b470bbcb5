SPECIFICATION Spec
CONSTANTS
    Models <- MCModels
    N = 4
INVARIANTS
    CSpacesComplete
    CSpacesSaturated
    FlowsStable
