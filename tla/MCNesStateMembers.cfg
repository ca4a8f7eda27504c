SPECIFICATION Spec
CONSTANTS
    Mappers <- Unserialised
    RamSizes = {8}
    MaxRuns = 2
    NoImage = NoImage
INVARIANT RoundTripExact
