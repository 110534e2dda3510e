SPECIFICATION Spec
CONSTANTS
    Workers = {w1, w2, w3}
    Intents = {i1}
    MaxCompletions = 1
    Stages = {s1}
    Amounts = {2}
    MaxRewritten = 2
    StartStatus = "draft"
SYMMETRY WorkerSymmetry
INVARIANTS TypeOK ChargedOnce SettledEscrowStaysEmpty WorkIsFunded NoLostPrincipal
PROPERTY KeepsPromise
CHECK_DEADLOCK FALSE
