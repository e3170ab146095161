CONSTANTS
    Child = {c1, c2}
    MaxEmp = 5
    Employee <- MCEmployees
    Id <- MCIds
    MaxRequests = 2
SPECIFICATION Spec
INVARIANT RemovedRecordsStored
CHECK_DEADLOCK FALSE
