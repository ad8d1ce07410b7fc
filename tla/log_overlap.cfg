SPECIFICATION Spec
CONSTANTS
    Requests = {1, 2, 3}
    Capacity = 2
    MaxRows = 2
    MaxFaults = 0
    MaxRestarts = 0
    MaxExpired = 0
INVARIANT RowsBounded
