SPECIFICATION FairSpec
CONSTANTS
    Workers = {w1, w2}
    Main = main
    Names = {c1, c2, c3}
    PoolSize = 2
    WaitForWorkers = TRUE
    MaxFaults = 1
    MaxRestarts = 0
    None = none
PROPERTY LifespanSettles
