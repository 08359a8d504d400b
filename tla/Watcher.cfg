SPECIFICATION FairSpec
CONSTANTS
    f = f
    g = g
    Files = {f, g}
    Hot = {}
    Unreported = {f}
    MaxPaths = 1
    Quiet = 1
    BatchAge = 2
    Interval = 3
    Debounce = 1
    RetryCap = 2
    MaxFailures = 2
    MaxEdits = 1
INVARIANTS
    TypeOK
    NothingForgotten
PROPERTIES
    LostChangeReconciled
