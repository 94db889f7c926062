\* The limits are those of the code.
CONSTANTS
    NoFile = NoFile
    Files <- MCFiles
    Outside = {}
    Covers <- MCCovers
    MaxCalls = 2
    EditorRounds = 20
    QueryRounds = 3
    ReviewRounds = 5
    ValidatorRounds = 3
    ToolLoop = 3
    ContentLoop = 2
SPECIFICATION Spec
INVARIANTS TypeOK RequestsAreAnswered ReportsItsWrites NoCallIsRepeated
PROPERTY IsATurn
\* The loop returns.
CHECK_DEADLOCK FALSE
