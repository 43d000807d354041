SPECIFICATION FairSpec
CONSTANTS
    FRAME_ORDERS = 3
    g_frame_order_sizes <- MCSizes
    PAGE_POOL_THRESHOLD = 2
    BlockCount = 2
    Unusable <- MCUnusable
    Requests = {1, 3, 5}
    EntryPoolRunsLow = TRUE
INVARIANTS TypeOK FramesPartitioned BuddyBitsExact AssertionsHold AllocationExact
PROPERTIES GivesUpOnlyWhenEmpty EveryCallReturns
