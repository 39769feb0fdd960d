\* Two runners that may be stalled for longer than a lease; one statement may fail.
CONSTANTS
    Runner = {a, b}
    Nobody = Nobody
    MaxTask = 2
    TTL = 1
    MaxTime = 2
    MaxCrashes = 0
    MaxFaults = 1
    Stalls = TRUE
SYMMETRY RunnerSymmetry
SPECIFICATION Spec
INVARIANTS
    TypeOK
    OneRunnerPerTask
    OverlapOnlyAfterExpiry
PROPERTIES
    FinishedForGood
    LeaseRespected
