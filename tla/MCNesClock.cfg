SPECIFICATION Spec
CONSTANTS
    Nibble = 2
    ScanlineDots = 8
    PrescalerLimit = 20
    Games <- MCGames
    Buttons = 2
    KeyboardRows = 1
    PadValues <- MCPadValues
INVARIANTS
    StrobeLatched
    PadReadsMatch
PROPERTIES
    ImplementsTimer
