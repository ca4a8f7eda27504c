SPECIFICATION FairSpec
CONSTANTS
    SpriteBytes = 2
    SampleLengths <- MCSampleLengths
    OutputPeriods <- MCOutputPeriods
INVARIANTS
    HaltMatchesDma
    FetchMatchesBuffer
    OamInOrder
    DmaCost
PROPERTIES
    SpriteDmaCompletes
    SampleFetched
