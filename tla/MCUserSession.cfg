SPECIFICATION Spec
CONSTANTS
    Request = {p1, p2}
    Revoker = {r1}
    TTL = 2
    Expiry = 4
    MaxTime = 4
    MaxVersion = 2
    MaxFaults = 1
SYMMETRY Symmetry
INVARIANTS
    TypeOK
    StalenessBounded
    DeniedAtOnce
CHECK_DEADLOCK FALSE
