SPECIFICATION MCSpec
CONSTANTS
    Tabs = {t1, t2}
    Sids = {s1, s2}
    None = None
    HasLocks = TRUE
    Derived = {TRUE, FALSE}
    RaceRetries = 1
    MaxGen = 2
    MaxWork = 3
    MaxFaults = 1
INVARIANTS
    TypeOK
    SignOutSticks
    JarAtMostOneBehind
    ReuseOnlyIfUndelivered
    MismatchAnsweredOnce
PROPERTIES
    SwitchOnlyBySignIn
    RefreshEnds
CHECK_DEADLOCK FALSE
