SPECIFICATION Spec
CONSTANTS
    Threads <- MCThreads
    AddrWords = 128
    Page = 8
    AlignWords = 4
    RegArgs = 0
INVARIANTS
    ArgsOnStack
    StackStaysAligned
