SPECIFICATION Spec
CONSTANTS
    Procs = {"server", "alice", "bob", "w1", "w2", "w3", "query"}
    Clients = {"alice", "bob"}
    Workers = {"w1", "w2", "w3"}
    Varied = {"alice"}
    MaxConns = 2
    MaxRuns = 3
    MaxTyped = 2
    FileCap = 4
    StdioCap = 1
    MAXSIZE = 6
    MaxChoices = 3
INVARIANTS
    AnswersOwn
    LecturesInOrder
    ConnectionsReleased
PROPERTIES
    ServerOutlivesClients
    EveryoneServed
    LecturesHeard
CHECK_DEADLOCK FALSE
