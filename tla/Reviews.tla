------------------------------ MODULE Reviews ------------------------------
(***************************************************************************)
(* The clients' reviews of one technician and what is derived from them    *)
(* (ratereview/services.py, views.py, models.py).                          *)
(*                                                                         *)
(* Views fetch a review without a lock.  An edit then saves every column   *)
(* of the row that was fetched; a vote, a report, a response and a         *)
(* moderation save only the columns they change.  The reputation snapshot  *)
(* and the technician's rate are recomputed by the saves, in their         *)
(* transaction or after it.                                                *)
(*                                                                         *)
(* Creations, edits and moderations write the technician's profile and     *)
(* hold its row lock to their commit: each is one step.  Who may review    *)
(* (the contract's status and disputes) and the edit window are left to    *)
(* the environment.  Saving under Django's admin site is not modelled.     *)
(***************************************************************************)
EXTENDS Integers, FiniteSets

CONSTANTS Contracts,        \* completed contracts: each has at most one review
          Voters,           \* users who vote for and report reviews
          Workers,          \* requests in flight at once
          Ratings,          \* the ratings clients give
          ReportThreshold,  \* REPORT_THRESHOLD
          MaxEdits          \* MAX_REVIEW_EDITS

VARIABLES review,     \* each contract's review
          votes,      \* ReviewHelpful: who found it helpful
          reporters,  \* ReviewReport: who reported it
          moderated,  \* its latest ReviewModerationAction
          snapshot,   \* UserReputationSnapshot: reviews counted per rating
          rate,       \* the reviews averaged in the technician's rate
          excused,    \* which of the two may be wrong: the reviews changed under
                      \* an aggregate in flight, or without a recalculation
          job         \* each request's fetched values

rowVars == <<votes, reporters, moderated>>
cacheVars == <<snapshot, rate, excused>>
vars == <<review, rowVars, cacheVars, job>>

NoReview == [rating |-> 0, public |-> FALSE, edits |-> 0, flagged |-> FALSE,
             reports |-> 0, helpful |-> 0]
NewReview(n) == [NoReview EXCEPT !.rating = n, !.public = TRUE]
Exists(c) == review[c] # NoReview
Idle == [op |-> "idle"]

Init ==
    /\ review = [c \in Contracts |-> NoReview]
    /\ votes = [c \in Contracts |-> {}]
    /\ reporters = [c \in Contracts |-> {}]
    /\ moderated = [c \in Contracts |-> "none"]
    /\ snapshot = [n \in Ratings |-> 0]
    /\ rate = [n \in Ratings |-> 0]
    /\ excused = {}
    /\ job = [w \in Workers |-> Idle]

Begin(w, j) ==
    /\ job[w] = Idle
    /\ job' = [job EXCEPT ![w] = j]
    /\ UNCHANGED <<review, rowVars, cacheVars>>

InFlight(w, op) == job[w].op = op
Finish(w) == job' = [job EXCEPT ![w] = Idle]

\* A transaction is refused, or its insert meets a unique constraint.
Rollback(w) ==
    /\ job[w].op \in {"create", "edit", "edit checked"}
    /\ Finish(w)
    /\ UNCHANGED <<review, rowVars, cacheVars>>

-----------------------------------------------------------------------------
(***************************************************************************)
(* What is derived from the reviews                                        *)
(***************************************************************************)
AnyRow(row) == row.rating > 0
Counted(row) == row.public

\* The aggregate of a set of rows.
Tally(rows) ==
    [n \in Ratings |->
        Cardinality({c \in Contracts : Counted(rows[c]) /\ rows[c].rating = n})]

\* What is written later from an aggregate that the new rows make old.
Overtaken(rows) ==
    IF Tally(rows) = Tally(review) THEN {}
    ELSE UNION {CASE job[w].op = "recalculate" -> {"snapshot", "rate"}
                  [] job[w].op = "rate"        -> {"rate"}
                  [] OTHER                     -> {} : w \in Workers}

\* A transaction that changes the rows writes both caches.
SaveAndRecalculate(rows) ==
    /\ review' = rows
    /\ snapshot' = Tally(rows) /\ rate' = Tally(rows)
    /\ excused' = excused \cup Overtaken(rows)

\* A read of the reputation recalculates it: aggregate first, write later.
BeginRecalculate(w) == Begin(w, [op |-> "recalculate", tally |-> Tally(review)])

CommitRecalculate(w) ==
    /\ InFlight(w, "recalculate")
    /\ snapshot' = job[w].tally /\ rate' = job[w].tally
    /\ Finish(w)
    /\ UNCHANGED <<review, rowVars, excused>>

\* A save outside a transaction averages the rows, and then writes the rate
\* (update_rating); an average read later than the save is only fresher.
SaveThenRate(w, c, row) ==
    LET rows == [review EXCEPT ![c] = row]
    IN  /\ review' = rows
        /\ job' = [job EXCEPT ![w] = [op |-> "rate", tally |-> Tally(rows)]]

CommitRate(w) ==
    /\ InFlight(w, "rate")
    /\ rate' = job[w].tally
    /\ Finish(w)
    /\ UNCHANGED <<review, rowVars, snapshot, excused>>

-----------------------------------------------------------------------------
(***************************************************************************)
(* Creating and editing                                                    *)
(***************************************************************************)
BeginCreate(w, c, n, endpoint) ==
    /\ ~Exists(c)
    /\ Begin(w, [op |-> "create", on |-> c, rating |-> n, endpoint |-> endpoint])

ReviewContract(w, c, n) == BeginCreate(w, c, n, "contract")
PostReview(w, c, n) == BeginCreate(w, c, n, "reviews")

\* The contract endpoint recalculates in its transaction; the older one saves
\* the row and leaves the snapshot as it is.
CommitCreate(w) ==
    LET c == job[w].on
        rows == [review EXCEPT ![c] = NewReview(job[w].rating)]
    IN  /\ InFlight(w, "create") /\ ~Exists(c)
        /\ \/ /\ job[w].endpoint = "contract"
              /\ SaveAndRecalculate(rows)
              /\ Finish(w)
           \/ /\ job[w].endpoint = "reviews"
              /\ SaveThenRate(w, c, rows[c])
              /\ excused' = excused \cup {"snapshot"} \cup Overtaken(rows)
              /\ UNCHANGED <<snapshot, rate>>
        /\ UNCHANGED rowVars

BeginEdit(w, c, n) ==
    Exists(c) /\ Begin(w, [op |-> "edit", on |-> c, row |-> review[c], rating |-> n])

EditedOften(row) == TRUE
EditsLeft(row) == row.edits < MaxEdits

\* _is_editable: the columns as fetched, the moderation actions as they are.
CheckEdit(w) ==
    LET row == job[w].row
    IN  /\ InFlight(w, "edit")
        /\ row.public /\ ~row.flagged /\ EditsLeft(row)
        /\ moderated[job[w].on] = "none"
        /\ job' = [job EXCEPT ![w].op = "edit checked"]
        /\ UNCHANGED <<review, rowVars, cacheVars>>

\* Every column is saved as it was fetched, but for the rating and the edits.
CommitEdit(w) ==
    LET row == [job[w].row EXCEPT !.rating = job[w].rating, !.edits = @ + 1]
    IN  /\ InFlight(w, "edit checked")
        /\ SaveAndRecalculate([review EXCEPT ![job[w].on] = row])
        /\ Finish(w)
        /\ UNCHANGED rowVars

\* A hide or restore sets the status and the visibility; verifying or
\* unverifying changes nothing, since save() verifies a contract's review.
Moderate(c, action) ==
    /\ Exists(c)
    /\ SaveAndRecalculate(
          CASE action = "hide"    -> [review EXCEPT ![c].public = FALSE]
            [] action = "restore" -> [review EXCEPT ![c].public = TRUE]
            [] OTHER              -> review)
    /\ moderated' = [moderated EXCEPT ![c] = action]
    /\ UNCHANGED <<votes, reporters, job>>

Publish(c) == Moderate(c, "restore")
Hide(c) == Moderate(c, "hide")
VerifyOrUnverify(c) == Moderate(c, "verify")

\* The dashboard has endpoints of its own for the same actions.
AdminModerates(c) == Hide(c) \/ Publish(c) \/ VerifyOrUnverify(c)

-----------------------------------------------------------------------------
(***************************************************************************)
(* Responses, votes and reports                                            *)
(***************************************************************************)
BeginRespond(w, c) ==
    review[c].public /\ Begin(w, [op |-> "respond", on |-> c, row |-> review[c]])

AsFetched(row, fetched) == fetched
\* Only the response's own column is saved.
Responded(row, fetched) == row

CommitRespond(w) ==
    /\ InFlight(w, "respond")
    /\ SaveThenRate(w, job[w].on, Responded(review[job[w].on], job[w].row))
    /\ UNCHANGED <<rowVars, cacheVars>>

AnyVoter(c, u) == TRUE
VoteFree(c, u) == u \notin votes[c]

\* get_or_create the vote; only its creator raises the count.
Vote(w, c, u) ==
    /\ job[w] = Idle /\ Exists(c) /\ VoteFree(c, u)
    /\ votes' = [votes EXCEPT ![c] = @ \cup {u}]
    /\ job' = [job EXCEPT ![w] = [op |-> "vote", on |-> c]]
    /\ UNCHANGED <<review, reporters, moderated, cacheVars>>

CountVote(w) ==
    /\ InFlight(w, "vote")
    /\ SaveThenRate(w, job[w].on, [review[job[w].on] EXCEPT !.helpful = @ + 1])
    /\ UNCHANGED <<rowVars, cacheVars>>

Report(w, c, u) ==
    /\ job[w] = Idle /\ Exists(c) /\ u \notin reporters[c]
    /\ reporters' = [reporters EXCEPT ![c] = @ \cup {u}]
    /\ job' = [job EXCEPT ![w] =
                  [op |-> "report", on |-> c, flagged |-> review[c].flagged]]
    /\ UNCHANGED <<review, votes, moderated, cacheVars>>

PassesThreshold(n) == n > ReportThreshold
ReachesThreshold(n) == n >= ReportThreshold

\* flag() raises the count; a request that reads it at the threshold, and
\* fetched the review without its flag, goes on to set the flag.
CountReport(w) ==
    LET c == job[w].on
        rows == [review EXCEPT ![c].reports = @ + 1]
    IN  /\ InFlight(w, "report")
        /\ review' = rows
        /\ job' = [job EXCEPT ![w] =
              IF ReachesThreshold(rows[c].reports) /\ ~job[w].flagged
              THEN [op |-> "flag", on |-> c]
              ELSE [op |-> "rate", tally |-> Tally(rows)]]
        /\ UNCHANGED <<rowVars, cacheVars>>

SetFlag(w) ==
    /\ InFlight(w, "flag")
    /\ SaveThenRate(w, job[w].on, [review[job[w].on] EXCEPT !.flagged = TRUE])
    /\ UNCHANGED <<rowVars, cacheVars>>

-----------------------------------------------------------------------------
Next ==
    \/ \E c \in Contracts :
          Publish(c) \/ Hide(c) \/ VerifyOrUnverify(c) \/ AdminModerates(c)
    \/ \E w \in Workers :
          \/ BeginRecalculate(w) \/ CommitRecalculate(w) \/ CommitRate(w)
          \/ \E c \in Contracts, n \in Ratings :
                \/ ReviewContract(w, c, n)
                \/ PostReview(w, c, n)
                \/ BeginEdit(w, c, n)
          \/ CommitCreate(w) \/ CheckEdit(w) \/ CommitEdit(w) \/ Rollback(w)
          \/ \E c \in Contracts : BeginRespond(w, c)
          \/ CommitRespond(w) \/ CountVote(w) \/ CountReport(w) \/ SetFlag(w)
          \/ \E c \in Contracts, u \in Voters : Vote(w, c, u) \/ Report(w, c, u)

Spec == Init /\ [][Next]_vars

-----------------------------------------------------------------------------
\* Rows stay well-typed; in particular no interleaving of edits takes a review
\* past the edits it may have, since each adds one to the count it fetched and
\* tested (update_contract_review).
TypeOK ==
    /\ \A c \in Contracts :
          /\ review[c].rating \in Ratings \cup {0}
          /\ review[c].public \in BOOLEAN /\ review[c].flagged \in BOOLEAN
          /\ review[c].edits \in 0 .. MaxEdits
          /\ {review[c].reports, review[c].helpful} \subseteq 0 .. Cardinality(Voters)
          /\ votes[c] \subseteq Voters /\ reporters[c] \subseteq Voters
          /\ moderated[c] \in {"none", "hide", "restore", "verify"}
    /\ {snapshot, rate} \subseteq [Ratings -> 0 .. Cardinality(Contracts)]

\* A review whose latest moderation hid it is public again only through an edit
\* that passed its test before the moderation and saved the old visibility over
\* it; no response, vote or report in flight restores it (moderate_review,
\* update_contract_review).
HiddenReturnsByEditOnly ==
    \A c \in Contracts :
        moderated[c] = "hide" /\ review[c].public => review[c].edits > 0

\* The helpful count never exceeds the votes, whatever votes, repeated votes and
\* edits that write an older count back are in flight (ReviewHelpfulView).
HelpfulNeverOverstated ==
    \A c \in Contracts : review[c].helpful <= Cardinality(votes[c])

\* A review that was never edited and whose counted reports reach the threshold
\* is flagged once the reports in flight have ended, whichever of them read the
\* count that reached it (ReviewReportView).
FlaggedAtThreshold ==
    \A c \in Contracts :
        /\ review[c].reports >= ReportThreshold
        /\ review[c].edits = 0
        /\ \A w \in Workers : job[w].op = "flag" => job[w].on # c
        => review[c].flagged

\* The snapshot, and when no save is about to write it the technician's rate,
\* count exactly the public reviews, unless the reviews changed under the
\* aggregate of a reputation read or of a save in flight, or at the endpoint
\* that does not recalculate (recalculate_user_reputation, update_rating).
CachesMatchReviews ==
    LET public == [n \in Ratings |->
            Cardinality({c \in Contracts : review[c].public /\ review[c].rating = n})]
    IN  /\ "snapshot" \notin excused => snapshot = public
        /\ "rate" \notin excused /\ (\A w \in Workers : job[w].op # "rate")
              => rate = public

\* Moderation, votes and reports survive the other requests for their review
\* that are in flight (moderate_review, ReviewHelpfulView, ReviewReportView).
ReviewsAreKept ==
    HiddenReturnsByEditOnly /\ HelpfulNeverOverstated /\ FlaggedAtThreshold

-----------------------------------------------------------------------------
(***************************************************************************)
(* Why they hold.                                                          *)
(***************************************************************************)
Rows == [rating : Ratings, public : BOOLEAN, edits : 0 .. MaxEdits,
         flagged : BOOLEAN, reports : Nat, helpful : Nat]
Tallies == [Ratings -> 0 .. Cardinality(Contracts)]
Jobs ==
    [op : {"recalculate", "rate"}, tally : Tallies]
        \cup [op : {"create"}, on : Contracts, rating : Ratings,
              endpoint : {"contract", "reviews"}]
        \cup [op : {"edit", "edit checked"}, on : Contracts, row : Rows, rating : Ratings]
        \cup [op : {"respond"}, on : Contracts, row : Rows]
        \cup [op : {"vote", "flag"}, on : Contracts]
        \cup [op : {"report"}, on : Contracts, flagged : BOOLEAN]
        \cup {Idle}

Editing(w, c) == job[w].op \in {"edit", "edit checked"} /\ job[w].on = c
Working(op, c) == {w \in Workers : job[w].op = op /\ job[w].on = c}

\* Reviews stay, and only a review that exists is moderated or worked on.
WellTyped ==
    /\ review \in [Contracts -> Rows \cup {NoReview}]
    /\ votes \in [Contracts -> SUBSET Voters] /\ reporters \in [Contracts -> SUBSET Voters]
    /\ moderated \in [Contracts -> {"none", "hide", "restore", "verify"}]
    /\ snapshot \in Tallies /\ rate \in Tallies /\ excused \subseteq {"snapshot", "rate"}
    /\ job \in [Workers -> Jobs]
    /\ \A c \in Contracts : ~Exists(c) => moderated[c] = "none"
    /\ \A w \in Workers :
          job[w].op \in {"edit", "edit checked", "respond", "vote", "flag", "report"}
              => Exists(job[w].on)
    /\ \A w \in Workers : job[w].op = "edit checked" => job[w].row.edits < MaxEdits

\* Every vote and report is counted at most once: those that are stored cover
\* those that are counted and those that are about to be, also in the rows that
\* edits in flight will write back.
VotesCover(c, row) ==
    row.helpful + Cardinality(Working("vote", c)) <= Cardinality(votes[c])
ReportsCover(c, row) ==
    row.reports + Cardinality(Working("report", c)) <= Cardinality(reporters[c])
CountsCovered ==
    \A c \in Contracts :
        /\ VotesCover(c, review[c]) /\ ReportsCover(c, review[c])
        /\ \A w \in Workers : Editing(w, c) =>
              VotesCover(c, job[w].row) /\ ReportsCover(c, job[w].row)

\* A report that will not set the flag was made of a review that has it, until an
\* edit writes it back.
FlagsSeen ==
    \A w \in Workers : job[w].op = "report" /\ job[w].flagged =>
        review[job[w].on].flagged \/ review[job[w].on].edits > 0

\* An aggregate in flight is current, unless what it is written to is excused.
TalliesCurrent ==
    /\ \A w \in Workers : job[w].op = "recalculate" =>
          job[w].tally = Tally(review) \/ {"snapshot", "rate"} \subseteq excused
    /\ \A w \in Workers : job[w].op = "rate" =>
          job[w].tally = Tally(review) \/ "rate" \in excused

IInv ==
    /\ WellTyped /\ CountsCovered
    /\ HiddenReturnsByEditOnly
    /\ FlagsSeen /\ FlaggedAtThreshold
    /\ TalliesCurrent /\ CachesMatchReviews
=============================================================================
