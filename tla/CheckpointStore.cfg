SPECIFICATION Spec
CONSTANTS
    f1 = f1
    f2 = f2
    Files = {f1, f2}
    empty = empty
    c1 = c1
    Contents = {empty, c1}
    Empty = empty
    Gone = Gone
    Torn = Torn
    MaxSaves = 2
    EditsDuringSave = FALSE
INVARIANTS
    TypeOK
    CommittedAreComplete
    RestoreIsComplete
PROPERTIES
    IsSnapshotStore
