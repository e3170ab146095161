CONSTANTS
    Child = {c1, c2}
    MaxEmp = 6
    Employee <- MCEmployees
    Id <- MCIds
    MaxRequests = 3
SPECIFICATION FairSpec
INVARIANTS MutualExclusion RemovalLeavesOne NothingLost
PROPERTIES ImplementsEmployeeDB EveryRequestAnswered
CHECK_DEADLOCK FALSE
