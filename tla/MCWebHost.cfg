SPECIFICATION Spec
CONSTANTS
    rom = rom
    rom2 = rom2
    odd_rom = odd_rom
    text = text
    A = A
    Roms <- MCRoms
    Unsupported <- MCUnsupported
    Junk <- MCJunk
    Buttons <- MCButtons
    NoContent = NoContent
    MaxTicks = 1
    MaxPending = 2
INVARIANTS
    UiMatchesContext
    RunningAgrees
    SlotMatchesContent
