\* Two steps, both verifiers, two processes: a death in the first step, in the
\* second and between them, and a resume after each; one pause at any moment.
SPECIFICATION FairSpec
CONSTANTS
    NumSteps = 2
    MaxRetries = 2
    Lint = TRUE
    MaxRuns = 2
    MaxPauses = 1
INVARIANTS
    TypeOK
    PromptsAreOfThisStep
    CheckpointsAreVerified
    PauseHolds
    CallsAreBounded
PROPERTIES
    StepsGetTheirAttempts
    UsesTheGate
    Terminates
