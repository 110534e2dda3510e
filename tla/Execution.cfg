SPECIFICATION WorkSpec
CONSTANTS
    Workers = {w1, w2}
    Milestones = {m1, m2}
    Extensions = {x1}
    MaxSequence = 2
    MaxDeliveries = 2
    MaxCompletions = 1
    Requests = {r1, r2}
    Prices = {5, 7}
    Counts = {2}
    MaxPayments = 3
SYMMETRY WorkSymmetry
INVARIANTS TypeOK SubmissionsAreNumbered CompletionCoversMilestones StagesAddUp StagesArePaidOnce
CHECK_DEADLOCK FALSE
