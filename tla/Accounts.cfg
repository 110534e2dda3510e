SPECIFICATION AccountsSpec
CONSTANTS
    Clerks = {s1, s2}
    MaxPasswords = 1
    Applicants = {a1, a2}
    Codes = {k1, k2, k3}
    Desks = {d1, d2}
    Attempts = 2
    MaxFailures = 2
    Workers = {}
    Senders = {}
    Plain = {}
    Shared = {}
    Detached = {}
    Keyed = {}
    MaxRetries = 0
    MaxCrashes = 0
    MaxDeleted = 0
SYMMETRY AccountsSymmetry
INVARIANTS CompletenessIsCurrent RulesHoldWithoutRaces
PROPERTY DecisionsStand
CHECK_DEADLOCK FALSE
