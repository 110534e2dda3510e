SPECIFICATION MarketSpec
CONSTANTS
    Workers = {w1, w2}
    OfferIds = {o1, o2}
    Amounts = {a1, a2}
    NoAmount = NoAmount
    MaxContracts = 2
    MaxSaves = 1
    ServiceRequests = {q1}
    NoRequest = NoRequest
    MaxRooms = 2
    MaxMessages = 2
    Contracts = {c1}
    Voters = {u1, u2}
    Ratings = {1}
    ReportThreshold = 2
    MaxEdits = 1
SYMMETRY MarketSymmetry
INVARIANTS ContractsFollowOffers UnreadMatchesMessages RoomsAreUnique ReviewsAreKept CachesMatchReviews
CHECK_DEADLOCK FALSE
