\* A playground request on the subscription of an SQLite database, and a wallet request below the trust threshold.
CONSTANTS
    r1 = r1
    r2 = r2
    Request = {r1, r2}
    Image = {}
    Playground = {r1}
    Preference <- PurePreference
    Quota = {0, 1, 2}
    TrustQuota = 4
    TokenUnlimited = TRUE
    InitWallet = 4
    InitToken = 6
    SubTotal = 0
    SubActive = TRUE
    AllowOverflow = TRUE
    SQLite = TRUE
    RetryTimes = 1
    ViolationFee = 1
    MaxFaults = 1
SPECIFICATION FairSpec
INVARIANT
    ServedPaysActual
PROPERTY
    EveryRequestFinishes
