SPECIFICATION FairSpec
CONSTANTS
    a1 = a1
    Agents = {a1}
    NoAgent = NoAgent
PROPERTY
    ResumeContinues
