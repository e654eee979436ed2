SPECIFICATION Spec
CONSTANTS
    MaxSections = 3
    MaxReferences = 5
    MaxDecodes = 1
    MaxNumber = 8
    MaxGeneration = 1
    MaxEntry = 9
    InitialDocs <- MCClassicDocs
    DirtyRequests <- MCDirtyRequests
    FreshRequests <- MCFresh
    Counts <- MCCounts
PROPERTY OutputStaysReadable
