SPECIFICATION Spec
CONSTANTS
    Base = 1
    Limit = 8
    Mappings = {m1, m2, m3}
    Chains <- MCSingle
    Blocks <- MCBlocks
    Requests = {2, 3}
    Targets = {}
    Flags = {{"WRITABLE"}}
    Registers = {}
    MaxBlock = 4
    Touched = {}
    MaxCuts = 1
INVARIANT MappingsDisjoint
