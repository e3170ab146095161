CONSTANTS
    Client = {a, b, c}
    Parent = Parent
    MaxSends = 1
SPECIFICATION Spec
PROPERTY TerminationReachesAll
CHECK_DEADLOCK FALSE
