SPECIFICATION FairSpec
CONSTANTS
    Tabs = {t1, t2}
    Runs = {r1, r2}
    Fresh = {r1}
    Outcomes = {"url", "error"}
    RefKinds = {"none", "held"}
    Expiry = 2
    MaxTime = 2
    MaxClears = 0
    MaxMoves = 1
    MaxLag = 1
PROPERTIES
    RunsEnd
CHECK_DEADLOCK FALSE
