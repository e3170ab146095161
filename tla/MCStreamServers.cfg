SPECIFICATION Spec
CONSTANTS
    Procs = {"server", "alice", "bob", "w1", "w2"}
    Clients = {"alice", "bob"}
    Workers = {"w1", "w2"}
    Varied = {"alice"}
    MaxConns = 2
    MaxTyped = 2
    FileCap = 4
INVARIANTS
    AnswersOwn
    FieldsInStep
    FilesKept
    ServerOutlivesClients
PROPERTIES
    RequestsAnswered
    SessionsEnd
CHECK_DEADLOCK FALSE
