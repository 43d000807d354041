SPECIFICATION BootSpec
CONSTANTS
    MemoryMaps <- MCAllMaps
    LowPages = 2
    PAGE_ENTRY_COUNT = 8
    PAGE_POOL_THRESHOLD = 1
    FRAME_ORDERS = 3
    g_frame_order_sizes <- MCSizes
    EntriesPerPage = 16
    BytesPerPage = 8
    Word = 65536
INVARIANTS NoFrameMappedTwice FreeFramesExact
PROPERTY BootEnds
