SPECIFICATION Spec
CONSTANTS
    x1 = x1
    x2 = x2
    d1 = d1
    d2 = d2
    h1 = h1
    h2 = h2
    Files = {x1, x2}
    Dirs = {d1, d2}
    DirOf <- MCDirOf
    NameOf <- MCNameOf
    Parsed = {x1, x2}
    Pending = {}
    Hashes = {h1, h2}
    Odd = {"broken"}
    Deniable = {x1, d2}
    Batches <- MCBatches
    MaxEdits = 2
    MaxGeneration = 3
    CommitMayFail = TRUE
SYMMETRY Symmetry
INVARIANTS
    TypeOK
    NoSilentStaleness
PROPERTIES
    LiveRowsStay
