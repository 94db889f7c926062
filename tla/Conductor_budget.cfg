\* The caller gives no limit, so the intent's own one and the progress check
\* apply; silent failures are enough (they never plateau), since the question
\* is how long a task can last.
SPECIFICATION FairSpec
CONSTANTS
    Failures = {}
    NoOutput = none
    MaxAttempts = 0
    MaxErrors = 5
    Plateau = 3
INVARIANTS
    AttemptsAreBounded
PROPERTIES
    Terminates
