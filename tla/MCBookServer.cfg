CONSTANTS
    Accession = {1001, 1003}
    Term = {"C", "code", "K", "Martin"}
    Initially <- MCInitially
    Typed <- MCTyped
    MAX_BOOKS = 3
    MaxRequests = 5
SPECIFICATION Spec
INVARIANTS ServerInStep RepliesAgree
PROPERTY RequestAnswered
CHECK_DEADLOCK FALSE
