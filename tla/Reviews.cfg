SPECIFICATION Spec
CONSTANTS
    w1 = w1
    w2 = w2
    f1 = f1
    f2 = f2
    p1 = p1
    p2 = p2
    Writers = {w1, w2}
    Findings = {f1}
    Prints = {p1, p2}
    States = {"unreviewed", "dismissed"}
    Clock = {1, 2}
    Latest = 3
    MaxRows = 2
    MaxDrafts = 1
SYMMETRY Symmetry
INVARIANTS
    TypeOK
    RowsFollowHistory
    TemporaryKept
    CopyOneBehind
PROPERTIES
    SavedDecisionApplies
    BrokenFilesKept
    LogSpec
    OnlySeenDecisionsReplaced
