SPECIFICATION Spec
CONSTANTS
    Tabs = {t1}
    Runs = {r1}
    Fresh = {r1}
    Outcomes = {"url"}
    RefKinds = {"none"}
    Expiry = 2
    MaxTime = 2
    MaxClears = 1
    MaxMoves = 1
    MaxLag = 0
INVARIANTS
    ClearSparesActive
CHECK_DEADLOCK FALSE
