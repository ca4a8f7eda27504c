SPECIFICATION Spec
CONSTANTS
    i1 = i1
    i2 = i2
    rom = rom
    other = other
    Instances <- MCOne
    Contents <- MCContents
    Sizes <- MCSizes
    MaxSaves = 4
INVARIANTS
    SlotIsWhole
    LastSaveStays
