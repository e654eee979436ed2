SPECIFICATION Spec
CONSTANTS
    Documents <- FormDocuments
    Budgets <- Allowances
    MaxNestedFormDepth = 4
    MaxDemands = 2
INVARIANTS
    PublishedIsTrue
    AnswersAreOrderFree
    CountedCauseIsGenuine
PROPERTIES
    PublishedSlotsStay
    DeepeningPays
CHECK_DEADLOCK FALSE
