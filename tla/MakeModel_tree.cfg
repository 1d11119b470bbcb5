SPECIFICATION Spec
CONSTANTS
    Specs <- MCSpecs
    NoName = "-"
INVARIANTS
    ChildrenInTheirSlots
