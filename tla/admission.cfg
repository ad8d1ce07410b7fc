SPECIFICATION FairSpec
CONSTANTS
    Requests = {r1, r2, r3, r4}
    Capacity = 2
    Burst = 2
    MaxRefills = 2
    MaxStartFailures = 1
INVARIANTS TypeOK SlotsAccounted NoQueueing
PROPERTIES SlotsComeBack ImplementsCommandService
