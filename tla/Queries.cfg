SPECIFICATION AllSpec
CONSTANTS
    Corpora <- AllCorpora
    Tokens <- TokensOf
    NoteTokens <- NoteTokensOf
    Limits = {0, 1, 3, 4, 5, 8, 11, 12}
    Sizes = {1, 2, 3}
    NameOf <- SymbolNames
    FileOf <- SymbolFiles
    Indexes <- SomeIndexes
    Asked <- AllAsked
    Tables <- AllTables
    RootFiles <- Roots
    Symbols = {1, 2, 3, 4, 5, 6}
    Tests = {4, 5}
    Modules = {5}
    MaxQueryDepth = 4
    MinFirstHopPage = 1
    None = None
    Files = {1, 2, 3, 4}
    Depths = {0, 2, 5}
    GraphLimits = {2, 9}
INVARIANTS
    AllTypesOK
    PagesInOrder
    LeastRelevantFirst
    NothingToSpare
    PagesAddUp
    DepthIsShortest
    GraphIsNeighbourhood
    CyclesAreComponents
PROPERTIES
    AnswersEnd
