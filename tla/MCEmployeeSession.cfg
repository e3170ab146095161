CONSTANTS
    Client = {a, b, c}
    Parent = Parent
    MaxSends = 2
SPECIFICATION Spec
INVARIANT SessionSafe
PROPERTY BroadcastEndsAll
CHECK_DEADLOCK FALSE
