SPECIFICATION EditSpec
CONSTANTS
    MaxDepth = 3
    MaxVisited = 8
    MaxExpanded = 16
    MaxPairs = 20
    Files <- MCFiles
    Requests <- MCRequests
INVARIANTS
    TypeOK
    ListedIsReached
    NothingMissingSilently
    OnlySelectedPagesChange
    PrivateStreamIsEditable
    EveryStreamReported
CHECK_DEADLOCK FALSE
