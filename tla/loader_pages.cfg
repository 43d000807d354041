SPECIFICATION Spec
CONSTANTS
    PageSize = 2
    Memories <- MCMemories
    Kernels <- MCTightKernels
    Modes <- MCModes
    Tables <- MCTables
    MaxEvents = 1
INVARIANT PagesRequired
