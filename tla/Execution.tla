----------------------------- MODULE Execution -----------------------------
(***************************************************************************)
(* The work on a contract: milestones, deliverables, revision requests,    *)
(* completion and deadline extensions (contract/execution_views.py,        *)
(* contract/execution_services.py, contract/views.py).                     *)
(*                                                                         *)
(* Every view fetches its rows before the service opens a transaction, and *)
(* the service tests the fetched objects and saves single columns of them. *)
(* A request is therefore a fetch, a step in which the transaction reads   *)
(* what it counts or numbers, and a commit.                                *)
(***************************************************************************)
EXTENDS Naturals, Sequences, FiniteSets

CONSTANTS
    Workers,       \* concurrent requests in flight
    Milestones,    \* milestones that can be created
    Extensions,    \* extension requests that can be created
    MaxSequence,   \* bound on a sequence number
    MaxDeliveries, \* bound on the submissions and revisions of a milestone
    MaxCompletions \* bound on the completion requests

ASSUME BoundAssumption ==
    MaxSequence \in Nat /\ MaxDeliveries \in Nat /\ MaxCompletions \in Nat

VARIABLES
    contract,    \* status of the Contract
    completions, \* statuses of the CompletionRequests, oldest first
    milestone,   \* the ExecutionMilestone rows
    versions,    \* version numbers of the submissions of each milestone
    revisions,   \* the OPEN RevisionRequests of each milestone: number, version
    extension,   \* statuses of the TimeExtensionRequests
    counted,     \* milestones that the last completion request found approved
    reopened,    \* milestones whose approval another save has overwritten
    req          \* what each request in flight has read

workVars == <<milestone, versions, revisions, reopened>>
vars == <<contract, completions, workVars, extension, counted, req>>

ContractStatus ==
    {"in_progress", "active", "completion_requested", "completed", "canceled"}
MilestoneStatus ==
    {"DRAFT", "PENDING", "IN_PROGRESS", "SUBMITTED", "REVISION_REQUESTED",
     "APPROVED"}

ExtensionStatus == {"none", "pending", "approved", "rejected"}
\* A RevisionRequest: its number, and the version it asks to revise.
Revision == [number : Nat \ {0}, version : Nat \ {0}]

NoMilestone == [status |-> "none", sequence |-> 0, revision_count |-> 0]
Existing == {m \in Milestones : milestone[m] # NoMilestone}
Approved == {m \in Existing : milestone[m].status = "APPROVED"}

Idle == [op |-> "idle"]

TypeOK ==
    /\ contract \in ContractStatus
    /\ completions \in Seq({"PENDING", "CONFIRMED", "REJECTED"})
    /\ \A m \in Existing :
          /\ milestone[m].status \in MilestoneStatus
          /\ milestone[m].sequence \in 1..MaxSequence
          /\ milestone[m].revision_count \in 0..MaxDeliveries
    /\ \A m, n \in Existing :
          m # n => milestone[m].sequence # milestone[n].sequence
    /\ versions \in [Milestones -> Seq(Nat \ {0})]
    /\ revisions \in [Milestones -> Seq(Revision)]
    /\ extension \in [Extensions -> ExtensionStatus]
    /\ counted \subseteq Existing /\ reopened \subseteq Existing

\* A contract that finalize has set in progress.  The milestones it has so far
\* were made PENDING by hand: no endpoint takes one out of DRAFT.
Init ==
    /\ contract = "in_progress" /\ completions = <<>>
    /\ \E ready \in SUBSET Milestones, place \in [Milestones -> 1..MaxSequence] :
          /\ \A m, n \in ready : m # n => place[m] # place[n]
          /\ milestone = [m \in Milestones |->
                 IF m \in ready
                 THEN [status |-> "PENDING", sequence |-> place[m],
                       revision_count |-> 0]
                 ELSE NoMilestone]
    /\ versions = [m \in Milestones |-> <<>>]
    /\ revisions = [m \in Milestones |-> <<>>]
    /\ extension = [x \in Extensions |-> "none"]
    /\ counted = {} /\ reopened = {}
    /\ req = [w \in Workers |-> Idle]

-----------------------------------------------------------------------------
Begin(w, r) ==
    /\ req[w] = Idle
    /\ req' = [req EXCEPT ![w] = r]
    /\ UNCHANGED <<contract, completions, workVars, extension, counted>>

InFlight(w, op) == req[w] # Idle /\ req[w].op = op
Finish(w) == req' = [req EXCEPT ![w] = Idle]

\* The number that a transaction has read, for those that read one.
ReadNumber(w, n) ==
    /\ req[w].number = 0
    /\ req' = [req EXCEPT ![w].number = n]
    /\ UNCHANGED <<contract, completions, workVars, extension, counted>>

\* A refused insert, a crash, a client that goes away.
Rollback(w) ==
    /\ req[w] # Idle
    /\ Finish(w)
    /\ UNCHANGED <<contract, completions, workVars, extension, counted>>

\* The status column of a milestone is saved, whatever it is by now.
SaveStatus(m, status, count) ==
    /\ milestone' = [milestone EXCEPT ![m].status = status,
                                      ![m].revision_count = count]
    /\ reopened' = IF milestone[m].status = "APPROVED" /\ status # "APPROVED"
                   THEN reopened \cup {m} ELSE reopened

-----------------------------------------------------------------------------
(***************************************************************************)
(* Milestones                                                              *)
(***************************************************************************)
BeginCreate(w, m) ==
    /\ contract \in {"in_progress", "active"}
    /\ m \notin Existing
    /\ Begin(w, [op |-> "create", on |-> m, number |-> 0])

LastSequence ==
    CHOOSE n \in 0..MaxSequence :
        /\ n = 0 \/ \E m \in Existing : milestone[m].sequence = n
        /\ \A m \in Existing : milestone[m].sequence <= n

\* The number the client gave, or the one after the last.
ReadSequence(w) ==
    /\ InFlight(w, "create")
    /\ \E n \in {LastSequence + 1} \cup 1..MaxSequence :
          n <= MaxSequence /\ ReadNumber(w, n)

AnySequence(n) == TRUE
SequenceFree(n) == \A m \in Existing : milestone[m].sequence # n

CommitCreate(w) ==
    LET m == req[w].on
    IN  /\ InFlight(w, "create") /\ req[w].number # 0
        /\ m \notin Existing /\ SequenceFree(req[w].number)
        /\ milestone' = [milestone EXCEPT ![m] =
               [status |-> "DRAFT", sequence |-> req[w].number,
                revision_count |-> 0]]
        /\ Finish(w)
        /\ UNCHANGED <<contract, completions, versions, revisions, reopened,
                       extension, counted>>

\* The listed milestones get the first places and must not meet one that was
\* not listed.
Orders(listed) ==
    {place \in [listed -> 1..Cardinality(listed)] :
        /\ \A m, n \in listed : m # n => place[m] # place[n]
        /\ \A m \in listed, n \in Existing \ listed :
              milestone[n].sequence # place[m]}

\* One transaction, its updates hold the rows.
Reorder ==
    \E listed \in SUBSET Existing \ {{}} :
        \E place \in Orders(listed) :
            /\ milestone' = [m \in Milestones |->
                   IF m \in listed THEN [milestone[m] EXCEPT !.sequence = place[m]]
                   ELSE milestone[m]]
            /\ UNCHANGED <<contract, completions, versions, revisions, reopened,
                           extension, counted, req>>

\* An edit of a draft saves the whole row that it fetched.
BeginEdit(w, m) ==
    /\ m \in Existing /\ milestone[m].status = "DRAFT"
    /\ Begin(w, [op |-> "edit", on |-> m, saves |-> milestone[m]])

CommitEdit(w) ==
    LET m == req[w].on
    IN  /\ InFlight(w, "edit")
        /\ \A n \in Existing \ {m} : milestone[n].sequence # req[w].saves.sequence
        /\ milestone' = [milestone EXCEPT ![m] = req[w].saves]
        /\ Finish(w)
        /\ UNCHANGED <<contract, completions, versions, revisions, reopened,
                       extension, counted>>

BeginStart(w, m) ==
    /\ m \in Existing /\ milestone[m].status = "PENDING"
    /\ Begin(w, [op |-> "start", on |-> m])

CommitStart(w) ==
    /\ InFlight(w, "start")
    /\ SaveStatus(req[w].on, "IN_PROGRESS", milestone[req[w].on].revision_count)
    /\ Finish(w)
    /\ UNCHANGED <<contract, completions, versions, revisions, extension, counted>>

CanSubmit(m) == milestone[m].status \in {"IN_PROGRESS", "REVISION_REQUESTED"}
CanApprove(m) == milestone[m].status = "SUBMITTED"

BeginApprove(w, m) ==
    /\ m \in Existing /\ CanApprove(m)
    /\ Begin(w, [op |-> "approve", on |-> m])

CommitApprove(w) ==
    /\ InFlight(w, "approve")
    /\ SaveStatus(req[w].on, "APPROVED", milestone[req[w].on].revision_count)
    /\ Finish(w)
    /\ UNCHANGED <<contract, completions, versions, revisions, extension, counted>>

-----------------------------------------------------------------------------
(***************************************************************************)
(* Deliverables and revisions                                              *)
(***************************************************************************)
BeginSubmit(w, m) ==
    /\ m \in Existing /\ CanSubmit(m)
    /\ Begin(w, [op |-> "submit", on |-> m, number |-> 0])

Holds(s, n) == \E i \in DOMAIN s : s[i] = n

Latest(m) ==
    CHOOSE n \in 0..MaxDeliveries :
        /\ n = 0 \/ Holds(versions[m], n)
        /\ \A i \in DOMAIN versions[m] : versions[m][i] <= n

ReadVersion(w) ==
    /\ InFlight(w, "submit") /\ Latest(req[w].on) < MaxDeliveries
    /\ ReadNumber(w, Latest(req[w].on) + 1)

AnyVersion(m, n) == TRUE
VersionFree(m, n) == ~Holds(versions[m], n)

CommitSubmit(w) ==
    LET m == req[w].on
    IN  /\ InFlight(w, "submit") /\ req[w].number # 0
        /\ VersionFree(m, req[w].number)
        /\ versions' = [versions EXCEPT ![m] = Append(@, req[w].number)]
        /\ SaveStatus(m, "SUBMITTED", milestone[m].revision_count)
        /\ Finish(w)
        /\ UNCHANGED <<contract, completions, revisions, extension, counted>>

\* The view reads the milestone and then its latest submission.
BeginRevise(w, m) ==
    /\ m \in Existing /\ CanApprove(m) /\ versions[m] # <<>>
    /\ Begin(w, [op |-> "revise", on |-> m, number |-> 0, version |-> Latest(m),
                 count |-> milestone[m].revision_count])

ReadRevisionNumber(w) ==
    /\ InFlight(w, "revise") /\ Len(revisions[req[w].on]) < MaxDeliveries
    /\ ReadNumber(w, Len(revisions[req[w].on]) + 1)

CountOnTop(w) == milestone[req[w].on].revision_count + 2
\* revision_count += 1 on the object that the view fetched.
RevisionCount(w) == req[w].count + 1

\* The new request is OPEN, and nothing ever resolves it.
CommitRevise(w) ==
    LET m == req[w].on
    IN  /\ InFlight(w, "revise") /\ req[w].number # 0
        /\ Len(revisions[m]) < MaxDeliveries
        /\ revisions' = [revisions EXCEPT ![m] =
               Append(@, [number |-> req[w].number, version |-> req[w].version])]
        /\ SaveStatus(m, "REVISION_REQUESTED", RevisionCount(w))
        /\ Finish(w)
        /\ UNCHANGED <<contract, completions, versions, extension, counted>>

-----------------------------------------------------------------------------
(***************************************************************************)
(* The contract                                                            *)
(***************************************************************************)
\* Activation needs a milestone; its funding is in ContractEscrow.
BeginActivate(w) ==
    /\ contract = "in_progress" /\ Existing # {}
    /\ Begin(w, [op |-> "activate"])

BeginRequestCompletion(w) ==
    /\ contract = "active"
    /\ Begin(w, [op |-> "request_completion", checked |-> FALSE, seen |-> {}])

SomeApproved == Approved # {}
\* check_completion_eligibility, and again Contract.request_completion.
AllApproved == Existing # {} /\ Approved = Existing
NothingOpen == \A m \in Existing : revisions[m] = <<>>

CheckCompletion(w) ==
    /\ InFlight(w, "request_completion") /\ ~req[w].checked
    /\ AllApproved /\ NothingOpen
    /\ req' = [req EXCEPT ![w].checked = TRUE, ![w].seen = Existing]
    /\ UNCHANGED <<contract, completions, workVars, extension, counted>>

PendingCompletion(i) == i \in DOMAIN completions /\ completions[i] = "PENDING"

\* The status of the fetched object is looked at by confirm, not by reject.
BeginRespond(w, op, i) ==
    /\ PendingCompletion(i)
    /\ op = "confirm" => contract = "completion_requested"
    /\ Begin(w, [op |-> op, on |-> i])

BeginCancel(w) ==
    /\ contract \notin {"completed", "canceled"}
    /\ Begin(w, [op |-> "cancel"])

SavedContractStatus(w) ==
    CASE InFlight(w, "activate") -> "active"
      [] InFlight(w, "request_completion") -> "completion_requested"
      [] InFlight(w, "confirm") -> "completed"
      [] InFlight(w, "reject") -> "active"
      [] InFlight(w, "cancel") -> "canceled"

CommitContract(w) ==
    /\ \E op \in {"activate", "request_completion", "confirm", "reject", "cancel"} :
          InFlight(w, op)
    /\ contract' = SavedContractStatus(w)
    /\ IF InFlight(w, "request_completion")
       THEN /\ req[w].checked /\ Len(completions) < MaxCompletions
            /\ completions' = Append(completions, "PENDING")
            /\ counted' = req[w].seen
       ELSE /\ completions' =
                  CASE InFlight(w, "confirm") ->
                           [completions EXCEPT ![req[w].on] = "CONFIRMED"]
                    [] InFlight(w, "reject") ->
                           [completions EXCEPT ![req[w].on] = "REJECTED"]
                    [] OTHER -> completions
            /\ UNCHANGED counted
    /\ Finish(w)
    /\ UNCHANGED <<workVars, extension>>

-----------------------------------------------------------------------------
(***************************************************************************)
(* Deadline extensions                                                     *)
(***************************************************************************)
\* full_clean tests the contract that the view fetched.  It looks for another
\* pending request only for an object without a key, and the key is a default of
\* the object: it never looks.
Extendable == contract = "in_progress"

BeginExtension(w, x) ==
    /\ Extendable /\ extension[x] = "none"
    /\ Begin(w, [op |-> "extend", on |-> x])

SaveExtension(w, status) ==
    /\ extension' = [extension EXCEPT ![req[w].on] = status]
    /\ Finish(w)
    /\ UNCHANGED <<contract, completions, workVars, counted>>

CommitExtension(w) ==
    /\ InFlight(w, "extend") /\ extension[req[w].on] = "none"
    /\ SaveExtension(w, "pending")

BeginAnswer(w, x, answer) ==
    /\ extension[x] = "pending"
    /\ Begin(w, [op |-> "answer", on |-> x, answer |-> answer])

\* approve and reject test the fetched request, and save its status.
CommitAnswer(w) == InFlight(w, "answer") /\ SaveExtension(w, req[w].answer)

-----------------------------------------------------------------------------
Fetch(w) ==
    \/ \E m \in Milestones :
          \/ BeginCreate(w, m)
          \/ BeginEdit(w, m)
          \/ BeginStart(w, m)
          \/ BeginApprove(w, m)
          \/ BeginSubmit(w, m)
          \/ BeginRevise(w, m)
    \/ BeginActivate(w)
    \/ BeginRequestCompletion(w)
    \/ \E op \in {"confirm", "reject"}, i \in DOMAIN completions :
          BeginRespond(w, op, i)
    \/ BeginCancel(w)
    \/ \E x \in Extensions : BeginExtension(w, x)
    \/ \E x \in Extensions, answer \in {"approved", "rejected"} :
          BeginAnswer(w, x, answer)

Read(w) ==
    \/ ReadSequence(w)
    \/ ReadVersion(w)
    \/ ReadRevisionNumber(w)
    \/ CheckCompletion(w)

Commit(w) ==
    \/ CommitCreate(w)
    \/ CommitEdit(w)
    \/ CommitStart(w)
    \/ CommitApprove(w)
    \/ CommitSubmit(w)
    \/ CommitRevise(w)
    \/ CommitContract(w)
    \/ CommitExtension(w)
    \/ CommitAnswer(w)

Next ==
    \/ \E w \in Workers : Fetch(w) \/ Read(w) \/ Commit(w) \/ Rollback(w)
    \/ Reorder

Spec == Init /\ [][Next]_vars

-----------------------------------------------------------------------------
(***************************************************************************)
(* Properties                                                              *)
(***************************************************************************)

\* The submissions of a milestone are numbered 1, 2, ... without a gap or a
\* repetition, in the order they came in, although the next number is read
\* before the insert and two technicians' tabs read the same one
\* (submit_deliverable, unique_together).
VersionsAreConsecutive ==
    \A m \in Milestones : \A i \in DOMAIN versions[m] : versions[m][i] = i

\* Once completion has been asked for, every milestone it was asked for is still
\* approved, except where a save that read it earlier has overwritten the
\* approval; and what is approved had been handed in
\* (check_completion_eligibility, Contract.request_completion, approve_milestone).
CompletionCoversMilestones ==
    /\ contract \in {"completion_requested", "completed"} =>
           counted \subseteq Approved \cup reopened
    /\ \A m \in Approved : versions[m] # <<>>

\* A revision asks to revise a version that had been submitted, and the counter
\* of a milestone never runs ahead of its revision requests, although both are
\* computed from objects read earlier (RevisionRequestView, request_revision).
RevisionsFollowSubmissions ==
    \A m \in Milestones :
        /\ milestone[m].revision_count <= Len(revisions[m])
        /\ \A i \in DOMAIN revisions[m] :
              /\ Holds(versions[m], revisions[m][i].version)
              /\ revisions[m][i].number <= i

\* Submissions and revision requests are numbered by what was handed in
\* (submit_deliverable, request_revision).
SubmissionsAreNumbered == VersionsAreConsecutive /\ RevisionsFollowSubmissions

-----------------------------------------------------------------------------
(***************************************************************************)
(* Why they hold.                                                          *)
(***************************************************************************)
Rows == [status : MilestoneStatus, sequence : 1..MaxSequence,
         revision_count : 0..MaxDeliveries]
OfMilestone == {"edit", "start", "approve", "submit", "revise"}

\* What each kind of request has read.
Jobs ==
    [op : {"create"}, on : Milestones, number : 0..MaxSequence]
        \cup [op : {"edit"}, on : Milestones, saves : Rows]
        \cup [op : {"start", "approve"}, on : Milestones]
        \cup [op : {"submit"}, on : Milestones, number : 0..MaxDeliveries]
        \cup [op : {"revise"}, on : Milestones, number : Nat, version : Nat \ {0},
              count : Nat]
        \cup [op : {"activate", "cancel"}]
        \cup [op : {"request_completion"}, checked : BOOLEAN, seen : SUBSET Milestones]
        \cup [op : {"confirm", "reject"}, on : Nat]
        \cup [op : {"extend"}, on : Extensions]
        \cup [op : {"answer"}, on : Extensions, answer : {"approved", "rejected"}]
        \cup {Idle}

WellTyped ==
    /\ milestone \in [Milestones -> Rows \cup {NoMilestone}]
    /\ req \in [Workers -> Jobs]
    /\ \A m \in Milestones :
          Len(versions[m]) <= MaxDeliveries /\ Len(revisions[m]) <= MaxDeliveries

\* A draft is only edited: nothing else that is in flight is about it.
DraftOnlyEdited(j) ==
    /\ j.op \in OfMilestone => j.on \in Existing
    /\ j.op = "edit" =>
          /\ milestone[j.on].status = "DRAFT" /\ j.saves.status = "DRAFT"
          /\ j.saves.revision_count <= Len(revisions[j.on])
    /\ j.op \in OfMilestone \ {"edit"} => milestone[j.on].status # "DRAFT"

\* Submissions, revisions and completions only grow, so that what a request has
\* read of them is still there, and what it has counted is no more than there is.
StillThere(j) ==
    /\ j.op = "approve" => versions[j.on] # <<>>
    /\ j.op = "submit" => j.number <= Len(versions[j.on]) + 1
    /\ j.op = "revise" =>
          /\ Holds(versions[j.on], j.version)
          /\ j.count <= Len(revisions[j.on])
          /\ j.number <= Len(revisions[j.on]) + 1
    /\ j.op = "request_completion" /\ j.checked => j.seen \subseteq Approved \cup reopened
    /\ j.op \in {"confirm", "reject"} => j.on \in DOMAIN completions

Founded(j) == DraftOnlyEdited(j) /\ StillThere(j)
RequestsFounded == \A w \in Workers : Founded(req[w])

\* What was once found approved stays so or is reopened, whatever the contract's
\* status, and what was handed in has a version.
ApprovalsKept ==
    /\ counted \subseteq Approved \cup reopened
    /\ \A m \in Existing :
          milestone[m].status \in {"SUBMITTED", "APPROVED"} => versions[m] # <<>>

IInv ==
    /\ TypeOK /\ WellTyped /\ RequestsFounded
    /\ ApprovalsKept /\ SubmissionsAreNumbered
=============================================================================
