SPECIFICATION Spec
CONSTANTS
    Machines <- MCMachines
    Devices = 2
    Functions = 2
    MAX_IOAPIC_COUNT = 2
    MAX_LAPIC_COUNT = 2
    AddressBits = 8
    Nibbles = 4
    Frames <- MCFrames
    Byte = 4
    Keys = {1, 2}
    Shifts = {2}
    Letters = {1}
INVARIANTS DeviceMemoryMapped SegmentsExact FaultReadable AcpiMemoryReadable DevicesExact KeyboardRouted KeyStateExact FreshCharacter
PROPERTY GetchReturns
