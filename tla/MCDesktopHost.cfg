SPECIFICATION Spec
CONSTANTS
    rom = rom
    odd_rom = odd_rom
    text = text
    A = A
    Roms <- MCRoms
    Unsupported <- MCUnsupported
    Junk <- MCJunk
    Buttons <- MCButtons
    Paths <- MCPaths
    NoContent = NoContent
    MaxTicks = 2
INVARIANTS
    WindowIsCurrent
    SoundIsCurrent
    ResetRestartsCurrent
    KeysAreHeld
