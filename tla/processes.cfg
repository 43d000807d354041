SPECIFICATION Spec
CONSTANTS
    PageSize = 2
    Limit = 9
    MaxCuts = 1
    Proc = {1, 2, 3}
    Images <- MCImages
    Frames = {1, 9}
    StackPages = 1
    Requests = {4}
    Calls = {0, 1, 2}
    Touched = {6}
    Builds = {TRUE, FALSE}
INVARIANTS OwnPagesCached LoadedAsDescribed
PROPERTIES TakesTurns EveryProcessRuns
