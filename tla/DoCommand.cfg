SPECIFICATION Spec
CONSTANTS
    NoModel = NoModel
    Catalog <- MCCatalog
    Capable <- MCCapable
    Setups <- MCSetups
    Histories <- MCHistories
    Qualified <- MCQualified
    Window = 4
    MaxAttempts = 3
    MaxEdits = 2
    MaxPicks = 1
CHECK_DEADLOCK FALSE
INVARIANTS TypeOK StaysWhereTheUserIs ToolUsersHaveTools ApprovedModelsAreAuthoritative AttemptsAreBounded
