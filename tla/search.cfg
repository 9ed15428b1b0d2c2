SPECIFICATION FairSpec
CONSTANTS
    Queries <- OneQuery
    Empty = ""
    MaxHits = 1
    MaxKeys = 2
    Environments <- Usual
INVARIANTS FreshResults ActsOnShown
PROPERTIES LastQueryAnswered JoinEnds
CHECK_DEADLOCK FALSE
