SPECIFICATION Spec
CONSTANTS
    MaxSections = 3
    MaxReferences = 5
    MaxDecodes = 1
    MaxNumber = 8
    MaxGeneration = 1
    MaxEntry = 9
    InitialDocs <- MCStreamDocs
    DirtyRequests <- MCDirtyRequests
    FreshRequests <- MCFresh
    Counts <- MCCounts
PROPERTY PlainRewriteIsSemanticNoOp
