SPECIFICATION Spec
CONSTANTS
    s1 = s1
    s2 = s2
    q1 = q1
    q2 = q2
    t1 = t1
    t2 = t2
    Processes = {s1, s2}
    Paths = {q1, q2}
    Texts = {t1, t2}
    Mine = Mine
    Absent = Absent
    NoTree = NoTree
    NoOne = NoOne
    Left = Left
    MaxRuns = 2
    MaxEdits = 2
SYMMETRY Symmetry
INVARIANT
    ExitLeavesNoLock
