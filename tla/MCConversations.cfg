SPECIFICATION Spec
CONSTANTS
    Procs = {"server", "client", "server_reader", "client_reader"}
    Varied = {"server", "client"}
    MaxConns = 1
    MaxTyped = 3
    MaxRounds = 4
INVARIANTS
    ExitLeavesReaders
    TurnsKept
PROPERTIES
    EndSeen
    LastWordsShown
    StopEndsBoth
CHECK_DEADLOCK FALSE
