SPECIFICATION Spec
CONSTANTS
    Documents <- DeepeningDocuments
    Budgets <- Allowances
    MaxNestedFormDepth = 4
    MaxDemands = 2
PROPERTIES
    PublicationNeverShrinks
CHECK_DEADLOCK FALSE
