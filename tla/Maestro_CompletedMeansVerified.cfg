SPECIFICATION Spec
CONSTANTS
    NumSteps = 2
    MaxRetries = 2
    Lint = FALSE
    MaxRuns = 2
    MaxPauses = 0
INVARIANTS
    CompletedMeansVerified
