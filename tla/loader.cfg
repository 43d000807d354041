SPECIFICATION Spec
CONSTANTS
    PageSize = 2
    Memories <- MCMemories
    Kernels <- MCKernels
    Modes <- MCModes
    Tables <- MCTables
    MaxEvents = 1
INVARIANTS MapHandedOver KernelLoaded LoaderAloneBoots
