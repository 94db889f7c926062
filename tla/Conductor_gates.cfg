\* Two distinct failures and four attempts: a plateau, a changed failure
\* between equal ones, and a pass after failures all occur.
SPECIFICATION FairSpec
CONSTANTS
    Failures = {f1, f2}
    NoOutput = none
    MaxAttempts = 4
    MaxErrors = 5
    Plateau = 3
INVARIANTS
    TypeOK
    EditsPassTheGates
    PlateauIsExact
    FeedbackIsHonest
    EveryRetryIsExplained
