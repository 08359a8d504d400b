SPECIFICATION Spec
CONSTANTS
    x1 = x1
    x2 = x2
    d1 = d1
    d2 = d2
    h1 = h1
    h2 = h2
    Files = {x1, x2}
    Dirs = {d1, d2}
    DirOf <- MCDirOf
    NameOf <- MCNameOf
    Parsed = {x1}
    Pending = {x2}
    Hashes = {h1}
    Odd = {}
    Deniable = {x1, d2}
    Batches <- MCReports
    MaxEdits = 3
    MaxGeneration = 3
    CommitMayFail = FALSE
INVARIANTS
    ServedRowsFollowRules
    ReconciledMeansReadable
