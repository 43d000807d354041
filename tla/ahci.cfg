SPECIFICATION AhciSpec
CONSTANTS
    Ports = {0, 2}
    SlotCounts = {1, 12}
    PAGE_SIZE = 4096
    CMD_TABLE_SIZE = 256
    PRDT_LEN = 3
    EntrySectors = 4
    EntryMax = 64
    PageSectors = 2
    Octet = 4
    Sectors = {0, 2758}
    Counts = {1, 4, 5, 12, 13}
    Buffers <- MCBuffers
INVARIANTS EveryDriveReady TransferExact
PROPERTIES BasesChangeWhenStopped RequestEnds
