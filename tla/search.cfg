\* ResultLimit = 1: two documents may be more than what is asked for.
CONSTANTS
    City <- MCCity
    Corpora <- MCCorpora
    Searches <- MCSearches
    ResultLimit = 1
    Radius = 2
SPECIFICATION SearchSpec
INVARIANTS OnlyAsked AllAsked
CHECK_DEADLOCK FALSE
