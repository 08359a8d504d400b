SPECIFICATION Spec
CONSTANTS
    c1 = c1
    c2 = c2
    Files = {"x", "y"}
    Texts = {"a", "b"}
    Ids = {1, 2}
    Queries = {"q1", "q2"}
    Calls = {c1, c2}
    None = None
    Lexical <- LexicalMatches
    Near <- NearMatches
    Similar <- AlikeQueries
    MaxEntries = 1
    MaxRuns = 2
    MaxEdits = 1
    MaxAsked = 2
SYMMETRY Symmetry
INVARIANTS
    TypeOK
    VectorsOfTheirSymbols
    HitsMatchIndex
    ExactHitsAreCurrent
