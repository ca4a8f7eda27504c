SPECIFICATION Spec
CONSTANTS
    MaxAudioFrames = 3
    MaxMixed = 9
INVARIANTS
    NoGapInQueue
PROPERTY
    ImplementsStream
