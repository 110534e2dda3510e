SPECIFICATION DisputeSpec
CONSTANTS
    Workers = {w1, w2}
    Intents = {i1}
    MaxCompletions = 1
    Stages = {}
    Amounts <- SomeAmounts
    MaxRewritten = 2
    StartStatus = "draft"
    Disputes = {d1, d2}
    RefundAmounts = {0, 1, 3}
SYMMETRY DisputeSymmetry
INVARIANTS PrincipalSurvivesDisputes PayoutsAreBacked
CHECK_DEADLOCK FALSE
