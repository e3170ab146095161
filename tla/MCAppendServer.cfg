CONSTANTS
    Client = {a, b, c, d}
    Careless = {a, b}
    Manipal = Manipal
    Nothing = Nothing
SPECIFICATION Spec
INVARIANTS FileIntact ServedNotTerminated
PROPERTIES EveryClientEnds AcceptedStringStored
CHECK_DEADLOCK FALSE
