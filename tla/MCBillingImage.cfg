\* One image request whose retry is dearer than its first attempt.
CONSTANTS
    r1 = r1
    r2 = r2
    Request = {r1}
    Image = {r1}
    Playground = {}
    Preference <- WalletPreference
    Quota = {2, 3}
    TrustQuota = 4
    TokenUnlimited = FALSE
    InitWallet = 5
    InitToken = 6
    SubTotal = 3
    SubActive = TRUE
    AllowOverflow = TRUE
    SQLite = FALSE
    RetryTimes = 1
    ViolationFee = 1
    MaxFaults = 0
SPECIFICATION Spec
INVARIANT
    RefundReturnsEveryHold
