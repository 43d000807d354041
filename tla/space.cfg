SPECIFICATION Spec
CONSTANTS
    Base = 1
    Limit = 8
    Mappings = {m1, m2}
    Chains <- MCChains
    Blocks <- MCBlocks
    Requests = {2, 3}
    Targets = {3}
    Flags = {{"WRITABLE", "CACHE_DISABLE"}, {"EXECUTABLE"}}
    Registers = {20}
    MaxBlock = 4
    Touched = {2}
    MaxCuts = 1
INVARIANTS SpacePartitioned TranslationExact NoStaleTranslation LiveFramesKept
