SPECIFICATION Spec
CONSTANTS
    MaxMessages = 5
    MaxPrompts = 2
    MaxSessions = 1
    Capacity = 2
    Subscribers = {u1}
    NoStream = NoStream
    Gone = Gone
CHECK_DEADLOCK FALSE
INVARIANT CancelledMeansAsked
