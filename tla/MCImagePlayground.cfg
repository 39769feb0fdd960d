SPECIFICATION Spec
CONSTANTS
    Tabs = {t1, t2}
    Runs = {r1, r2}
    Fresh = {r1}
    Outcomes = {"b64", "lost"}
    RefKinds = {"none"}
    Expiry = 2
    MaxTime = 2
    MaxClears = 1
    MaxMoves = 2
    MaxLag = 0
SYMMETRY Symmetry
INVARIANTS
    TypeOK
    QuietTabsAgree
    PaidResultKept
PROPERTIES
    ReplayOnlyAfterFailure
    EndedStaysEnded
    MemoryResultStays
CHECK_DEADLOCK FALSE
