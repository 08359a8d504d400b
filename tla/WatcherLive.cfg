SPECIFICATION FairSpec
CONSTANTS
    f = f
    g = g
    Files = {f, g}
    Hot = {g}
    Unreported = {}
    MaxPaths = 1
    Quiet = 2
    BatchAge = 2
    Interval = 2
    Debounce = 1
    RetryCap = 1
    MaxFailures = 1
    MaxEdits = 1
PROPERTIES
    ReportedChangeIndexed
    StopsWhenUnwatched
