SPECIFICATION Spec
CONSTANTS
    MaxSections = 3
    MaxEntries = 2
    Files <- MCFiles
    Starts <- MCStarts
INVARIANTS
    TypeOK
    ChainIsNewestWins
    BuiltExactlyWhenAcceptable
PROPERTY Termination
CHECK_DEADLOCK FALSE
