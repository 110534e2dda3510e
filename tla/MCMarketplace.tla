--------------------------- MODULE MCMarketplace ---------------------------
(***************************************************************************)
(* What a client and a technician do around a contract: the offers before  *)
(* it, the chat, and the reviews after it.  The three components share no  *)
(* state, so a behaviour exercises one of them and the others keep their   *)
(* initial state.                                                          *)
(***************************************************************************)
EXTENDS Offers, FiniteSets, TLC

CONSTANTS
    ServiceRequests, NoRequest, MaxRooms, MaxMessages,        \* of Chat
    Contracts, Voters, Ratings, ReportThreshold, MaxEdits     \* of Reviews

ASSUME NoRequestAssumption == NoRequest \notin ServiceRequests
ASSUME PartiesAssumption ==
    IsFiniteSet(Workers) /\ IsFiniteSet(Contracts) /\ IsFiniteSet(Voters)
ASSUME ReviewLimitsAssumption ==
    /\ Ratings \subseteq Nat \ {0}
    /\ ReportThreshold \in Nat \ {0} /\ MaxEdits \in Nat

VARIABLES
    part,      \* the component that is exercised
    rooms, contract, messages, unread, lastRead, work, crossed, reopened,
    review, votes, reporters, moderated, snapshot, rate, excused, job

C == INSTANCE Chat
R == INSTANCE Reviews

chatVars == <<rooms, contract, messages, unread, lastRead, work, crossed, reopened>>
reviewVars == <<review, votes, reporters, moderated, snapshot, rate, excused, job>>

MarketInit ==
    /\ part \in {"offers", "chat", "reviews"}
    /\ Init /\ C!Init /\ R!Init

MarketNext ==
    \/ part = "offers" /\ Next /\ UNCHANGED <<part, chatVars, reviewVars>>
    \/ part = "chat" /\ C!Next /\ UNCHANGED <<part, vars, reviewVars>>
    \/ part = "reviews" /\ R!Next /\ UNCHANGED <<part, vars, chatVars>>

MarketSpec == MarketInit /\ [][MarketNext]_<<part, vars, chatVars, reviewVars>>

MarketSymmetry ==
    Permutations(Workers) \cup Permutations(OfferIds) \cup Permutations(Amounts)
        \cup Permutations(Voters)

-----------------------------------------------------------------------------
\* Chat: the rows are well-typed, and the unread counters agree with the messages
\* (_update_unread_counts).
UnreadMatchesMessages == C!TypeOK /\ C!UnreadMatchesMessages
\* Chat: conversations are unique but for overlaps and late saves
\* (get_or_create_chat_room, mark_contract_linked).
RoomsAreUnique == C!RoomsAreUnique
\* Reviews: no review is edited more often than allowed, and moderation, votes and
\* reports survive requests in flight (update_contract_review, moderate_review,
\* ReviewHelpfulView, ReviewReportView).
ReviewsAreKept == R!TypeOK /\ R!ReviewsAreKept
\* Reviews: snapshot and rate count the public reviews
\* (recalculate_user_reputation).
CachesMatchReviews == R!CachesMatchReviews
=============================================================================
