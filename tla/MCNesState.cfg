SPECIFICATION Spec
CONSTANTS
    Mappers <- SoundMappers
    RamSizes = {0, 2, 8}
    MaxRuns = 2
    NoImage = NoImage
INVARIANT RoundTripExact
INVARIANT StateUsable
