SPECIFICATION Spec
CONSTANTS
    Codes = {0, 1}
    MaxCommits = 3
    MaxFaults = 2
    MaxRestarts = 1
INVARIANTS ChangesAreMarked BackendMatchesSchema FailureStopsReception RecordedIsDeployed
