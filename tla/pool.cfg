SPECIFICATION Spec
CONSTANTS
    Workers = {w1, w2}
    Main = main
    Names = {c1, c2, c3, c4}
    PoolSize = 2
    WaitForWorkers = FALSE
    MaxFaults = 2
    MaxRestarts = 1
    None = none
SYMMETRY Symmetry
INVARIANTS TypeOK SlotLedger LeasesAreFresh HealthyPoolServesEveryWorker RunningBound RunningIsManaged CleanStop
PROPERTIES QuietShutdown ImplementsLease
