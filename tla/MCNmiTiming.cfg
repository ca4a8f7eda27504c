SPECIFICATION Spec
CONSTANTS
    LastDot = 6
    PostRender = 3
    VblankEnd = 11
    Opcodes <- MCOpcodes
    OpCycles = 4
    IrqLevels <- MCIrqLevels
INVARIANTS
    NmiLineFollowsFlag
    NmiHasCause
    NmiNotLost
    FrameLength
    NoSpuriousIrq
    HandlerEntered
