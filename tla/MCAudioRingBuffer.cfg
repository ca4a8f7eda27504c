SPECIFICATION Spec
CONSTANTS
    Capacity = 6
    PushCounts <- MCPushCounts
    PopCounts <- MCPopCounts
    MaxProduced = 24
INVARIANTS
    Contiguous
    StereoAligned
PROPERTY
    ImplementsStream
