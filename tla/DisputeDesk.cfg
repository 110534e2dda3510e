SPECIFICATION DeskSpec
CONSTANTS
    Disputes = {d1, d2}
    Chargebacks = {c1}
    Workers = {w1, w2}
    Principal = 2
    TechnicianNet = 1
    Savings = 1
    Entered = {1, 3}
    MaxUpholds = 2
    Intents = {}
    MaxCompletions = 0
    Stages = {}
    Amounts = {2}
    MaxRewritten = 0
    StartStatus = "draft"
    RefundAmounts = {}
INVARIANTS DeskMoneyAddsUp ResolutionsAgree RefundsAreResolved
PROPERTY RetriedRefundsEnd
CHECK_DEADLOCK FALSE
