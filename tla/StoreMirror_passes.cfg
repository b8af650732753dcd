SPECIFICATION FairSpec
CONSTANTS
    None = None
    Size = 3
    Unnamed = {2}
    Newcomers = {1}
    PageSize = 2
    Window = 4
    Gap = 1
    MaxPass = 1
    Caps = {0, 1}
    MaxChanges = 2
    MaxTroubles = 1
INVARIANT NothingSlips
PROPERTY PassIsComplete
PROPERTY MirrorCatchesUp
CHECK_DEADLOCK FALSE
