SPECIFICATION SSpec
CONSTANTS
    p1 = p1
    p2 = p2
    h1 = h1
    h2 = h2
    Paths = {p1, p2}
    Hashes = {h1, h2}
    Modes = {"prefix", "substring"}
    MaxId = 2
    MaxInode = 1
    Empty = Empty
    None = None
    Environments <- MCEnvironments
    Under <- MCUnder
    Queries <- MCQueries
    Matching <- MCMatching
    Short <- MCShort
    KindOf <- MCKindOf
    SizeOf <- MCSizeOf
    NamesOf <- MCNamesOf
    MtimeOf <- MCMtimeOf
    Vocabulary <- MCVocabulary
    Now = 5
    Day = 2
    Tick = 2
    Limit = 1
    Budget = 1
    CommonDf = 1
INVARIANTS RowsInStep HitsMatch QuietSearchExact
PROPERTIES Refines
CHECK_DEADLOCK FALSE
