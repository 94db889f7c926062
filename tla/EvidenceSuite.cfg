\* Two runs of two checks.  The suite stops at its end, or where it fails.
SPECIFICATION Spec
CONSTANTS
    NumRuns = 2
    NumChecks = 2
CHECK_DEADLOCK FALSE
INVARIANTS
    TypeOK
    EvidenceIsComplete
    PassesAreEarned
