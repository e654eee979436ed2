SPECIFICATION Spec
CONSTANTS
    MaxDepth = 2
    MaxExpansions = 4
    Documents <- MCDocuments
INVARIANTS
    ExpandedAsPainted
    RewriteIsLocal
    EveryCallAnswered
CHECK_DEADLOCK FALSE
