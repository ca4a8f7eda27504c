SPECIFICATION Spec
CONSTANTS
    Roms <- SoundRoms
    Values = {91, 166, 255}
    MaxWrites = 3
    MaxSerial = 10
    SerialValues = {0, 1, 128}
    Unmapped = Unmapped
CHECK_DEADLOCK FALSE
INVARIANT TablesUsable
INVARIANT LastBankFixed
INVARIANT RegistersReached
INVARIANT DatabaseWins
PROPERTY SerialPort
