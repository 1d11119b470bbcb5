SPECIFICATION Spec
CONSTANTS
    Frames <- MCFrames
    Width = 4
    HeaderSize = 2
    MaxOffset = 4
INVARIANTS
    FrameContents
    FillsInFrame
