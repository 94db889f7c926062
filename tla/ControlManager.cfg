SPECIFICATION FairSpec
CONSTANTS
    a1 = a1
    a2 = a2
    a3 = a3
    Agents = {a1, a2, a3}
    NoAgent = NoAgent
INVARIANTS
    TypeOK
PROPERTIES
    KeepsTheGate
    RepeatedResumeReleases
