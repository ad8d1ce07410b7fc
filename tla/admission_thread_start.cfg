SPECIFICATION Spec
CONSTANTS
    Requests = {r1, r2, r3, r4}
    Capacity = 2
    Burst = 3
    MaxRefills = 1
    MaxStartFailures = 1
INVARIANT CommandsHoldSlots
