\* Runners that crash and whose statements fail, but that are never stalled
\* for longer than a lease.
CONSTANTS
    Runner = {a, b}
    Nobody = Nobody
    MaxTask = 2
    TTL = 1
    MaxTime = 1
    MaxCrashes = 1
    MaxFaults = 1
    Stalls = FALSE
SPECIFICATION FairSpec
INVARIANT RunningIsLeased
PROPERTY EveryTaskEnds
