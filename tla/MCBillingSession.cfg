\* Two concurrent requests on one wallet, token and subscription.
CONSTANTS
    r1 = r1
    r2 = r2
    Request = {r1, r2}
    Image = {r2}
    Playground = {}
    Preference <- MixedPreference
    Quota = {2, 3}
    TrustQuota = 4
    TokenUnlimited = FALSE
    InitWallet = 5
    InitToken = 6
    SubTotal = 2
    SubActive = TRUE
    AllowOverflow = TRUE
    SQLite = FALSE
    RetryTimes = 1
    ViolationFee = 1
    MaxFaults = 1
SPECIFICATION Spec
INVARIANTS
    TypeOK
    RefundReturnsAll
    ServedPaysActual
    NeverOverRefunded
    NoOverdraft
    NeverRefundServed
PROPERTY
    RefundSeesFrozenSession
