SPECIFICATION Spec
CONSTANTS
    Workers = {w1}
    Intents = {i1}
    MaxCompletions = 1
    Stages = {s1}
    Amounts = {2}
    MaxRewritten = 2
    StartStatus = "draft"
INVARIANT NoDuplicateRelease
CHECK_DEADLOCK FALSE
