SPECIFICATION FairSpec
CONSTANTS
    Requests = {1, 2, 3}
    Capacity = 2
    MaxRows = 1
    MaxFaults = 1
    MaxRestarts = 1
    MaxExpired = 1
INVARIANTS TypeOK UnfinishedBounded SavedIsStored WindowKept
PROPERTIES SavesEnd ImplementsSaveService
