SPECIFICATION Spec
CONSTANTS
    Requests = {r1, r2}
    Clients = {c1}
    Guarantees = {g1}
    RechargeAmounts <- SignedAmounts
    CashoutAmounts = {2}
    Keys = {k1, k2}
    InitialBalance = 2
    GuaranteeLimit = 2
    SingleLimit = 2
    DailyLimit = 4
    FeePercent = 50
    MinFee = 1
    MaxFee = 2
    MaxRecharges = 2
    MaxCashouts = 1
    MaxSettlements = 1
SYMMETRY DealershipSymmetry
INVARIANTS TypeOK BooksAgree LimitHolds
CHECK_DEADLOCK FALSE
