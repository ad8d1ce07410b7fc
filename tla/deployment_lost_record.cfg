SPECIFICATION Spec
CONSTANTS
    Codes = {0, 1}
    MaxCommits = 3
    MaxFaults = 0
    MaxRestarts = 0
PROPERTY SkippedIsDeployed
