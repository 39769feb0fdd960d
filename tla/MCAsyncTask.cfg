\* Two passes on one task of any kind; a statement fails and a pass dies.
CONSTANTS
    Poller = {a, b}
    Fetcher = {}
    Hold = 2
    Amounts = {1, 3}
    Billing = {"tiered", "usage"}
    Ages = {"legacy", "recent"}
    Progress = {"part"}
    MaxFailures = 2
    MaxFaults = 1
    MaxCrashes = 1
SPECIFICATION FairSpec
INVARIANTS
    TypeOK
    NeverOverRefunded
    RowTellsThePrice
    FailedIsRefunded
PROPERTIES
    EndedForGood
    Escrowed
    EveryTaskEnds
CHECK_DEADLOCK FALSE
