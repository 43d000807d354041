SPECIFICATION Spec
CONSTANTS
    TablePages = 9
    TableCount = 8
    PAGE_POOL_THRESHOLD = 4
    ENTRY_THRESHOLD = 8
    PageEntries = 16
    FRAME_ORDERS = 4
    g_frame_order_sizes <- MCSizes
    FreeLists <- Blocks
    EntryCounts = {8, 9, 11}
    Requests = {1, 9}
    UserTables = 1
INVARIANT EntryMapsTrue
