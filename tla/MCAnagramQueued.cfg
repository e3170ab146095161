CONSTANTS
    Client = {a, b}
    Word = {v, w}
    MaxRounds = 1
SPECIFICATION Spec
INVARIANT PauseSeparatesReads
CHECK_DEADLOCK FALSE
