SPECIFICATION Spec
CONSTANTS
    Specs <- MCSpecs
    NoName = "-"
INVARIANTS
    SlotsAsDeclared
    CopiesResolved
    TreeOfNumbered
