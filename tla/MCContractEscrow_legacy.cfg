SPECIFICATION Spec
CONSTANTS
    Workers = {w1, w2}
    Intents = {i1, i2}
    MaxCompletions = 1
    Stages = {s1, s2}
    Amounts = {2}
    MaxRewritten = 2
    StartStatus = "in_progress"
SYMMETRY WorkerSymmetry
INVARIANT SettledOnce
CHECK_DEADLOCK FALSE
