SPECIFICATION WalletsSpec
CONSTANTS
    Workers = {w1, w2}
    Withdrawals = {r1, r2}
    Amounts = {1, 2}
    Opening = 3
    Unit = 1
    MaxOther = 2
    MaxPayouts = 2
    UnlockedOps = {"release", "fee"}
    Clerks = {v1, v2}
    Agreements = {b1, b2}
    Agreed = 25
    ActivationRate = 10
    CommissionRate = 10
    ServiceRate = 5
    ClientOpening = 60
    TechnicianOpening = 4
    Refunds = {10}
    Reversals = {4, 9}
    MaxResolutions = 1
SYMMETRY WalletsSymmetry
INVARIANTS TypeOK PayoutIsDeducted LockedLedgerExplainsBalance PlatformBooksAgree ReconciliationIsExplained
CHECK_DEADLOCK FALSE
