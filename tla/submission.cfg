SPECIFICATION FairSpec
CONSTANTS
    Requests = {1, 2}
    Revisions = {p1, p2}
    Revision = p1
    None = none
    Capacity = 1
    RunnerCapacity = 1
    MaxStartFailures = 1
    MaxRunnerStarts = 2
INVARIANTS TypeOK BusyNeverRan LogFollowsExecution
PROPERTY RequestsAreAnswered
