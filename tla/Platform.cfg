SPECIFICATION PlatformSpec
CONSTANTS
    Workers = {w1, w2, w3}
    Senders = {s1, s2}
    Plain = {p1}
    Shared = {p1}
    Detached = {d1}
    Keyed = {k1}
    MaxRetries = 2
    MaxCrashes = 2
    MaxDeleted = 1
INVARIANTS DeadlocksAreOutOfOrder NoticesAreFaithful
PROPERTY WorkEnds
CHECK_DEADLOCK FALSE
