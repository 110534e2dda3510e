---------------------------- MODULE DisputeDesk ----------------------------
(***************************************************************************)
(* The records that staff keep of the disputes over one contract:          *)
(* resolutions, refund records, liabilities and chargebacks                *)
(* (dispute/services.py, dispute/views.py).                                *)
(*                                                                         *)
(* Handlers that lock the dispute they change are one action.  Upholding a *)
(* chargeback finds its dispute without a lock, and the refund endpoints   *)
(* save in statements of their own: those take several.                    *)
(***************************************************************************)
EXTENDS Integers, Sequences, FiniteSets

CONSTANTS
    Disputes,      \* ContractDispute rows of this contract
    Chargebacks,   \* ChargebackEvent rows of this contract
    Workers,       \* requests of staff in flight
    Principal,     \* escrow at the start
    TechnicianNet, \* ContractPaymentBreakdown.technician_net_amount
    Savings,       \* on the technician's wallet at the start
    Entered,       \* amounts that staff and the provider may enter
    MaxUpholds     \* bound on the decisions on one chargeback

VARIABLES
    settled,       \* the contract has been settled
    escrow,        \* held for the contract
    technician,    \* on the technician's wallet
    client,        \* come back to the client's wallet
    dispute,       \* status of each dispute, "none" before it exists
    resolutions,   \* amounts of the DisputeResolutions of each dispute
    refund,        \* the RefundRecord of each dispute, and what it moved
    liability,     \* amounts of the UserFinancialLiabilities of each dispute
    chargeback,    \* status, and decisions taken, of each chargeback
    desk           \* what each request in flight has read

moneyVars == <<settled, escrow, technician, client>>
recordVars == <<dispute, resolutions, refund, liability, chargeback>>
vars == <<moneyVars, recordVars, desk>>

DisputeStatus == {"none", "open", "awaiting_response", "under_review",
                  "mediation", "resolution_proposed", "resolved", "rejected",
                  "closed", "canceled"}
RefundStatus == {"none", "processing", "completed", "failed"}
ChargebackStatus == {"none", "received", "under_review", "evidence_submitted",
                     "upheld", "rejected", "partially_upheld"}

NoRefund == [status |-> "none", amount |-> 0, moved |-> 0]
NoChargeback == [status |-> "none", decided |-> 0]
NoRequest == [op |-> "none"]

RefundRecord == [status : RefundStatus, amount : Nat, moved : Nat]
ChargebackEvent == [status : ChargebackStatus, decided : Nat]
Request == {NoRequest} \cup [op : {"confirm", "retry"}, on : Disputes]
               \cup [op : {"uphold"}, chargeback : Chargebacks, on : Disputes]

TypeOK ==
    /\ settled \in BOOLEAN
    /\ {escrow, technician, client} \subseteq Nat
    /\ dispute \in [Disputes -> DisputeStatus]
    /\ resolutions \in [Disputes -> Seq(Nat)]
    /\ refund \in [Disputes -> RefundRecord]
    /\ liability \in [Disputes -> Seq(Nat)]
    /\ chargeback \in [Chargebacks -> ChargebackEvent]
    /\ desk \in [Workers -> Request]

\* A dispute is opened, and a settlement made, on a contract that holds escrow.
Init ==
    /\ settled = FALSE
    /\ escrow = Principal /\ technician = Savings /\ client = 0
    /\ dispute = [d \in Disputes |-> "none"]
    /\ resolutions = [d \in Disputes |-> <<>>]
    /\ refund = [d \in Disputes |-> NoRefund]
    /\ liability = [d \in Disputes |-> <<>>]
    /\ chargeback = [c \in Chargebacks |-> NoChargeback]
    /\ desk = [w \in Workers |-> NoRequest]

InFlight(w, op) == desk[w].op = op
Finish(w) == desk' = [desk EXCEPT ![w] = NoRequest]

\* A chargeback that is being upheld keeps the contract locked.
ContractLocked == \E w \in Workers : InFlight(w, "uphold")

-----------------------------------------------------------------------------
(***************************************************************************)
(* The contract and its disputes                                           *)
(***************************************************************************)
\* The settlement pays the net amount of the breakdown, whatever refunds have
\* left of the escrow, and clears the escrow.  Wallet.save refuses a balance
\* below zero.
Settle ==
    /\ ~settled /\ ~ContractLocked /\ escrow > 0
    /\ technician + TechnicianNet >= 0
    /\ settled' = TRUE /\ escrow' = 0
    /\ technician' = technician + TechnicianNet
    /\ UNCHANGED <<client, recordVars, desk>>

ActiveOmitted == {"open", "awaiting_response", "mediation"}
ActiveStatus == {"open", "awaiting_response", "under_review", "mediation"}

OpenDispute(d) ==
    /\ dispute[d] = "none" /\ ~ContractLocked
    /\ escrow > 0 \/ settled
    /\ \A e \in Disputes : dispute[e] \notin ActiveStatus
    /\ dispute' = [dispute EXCEPT ![d] = "open"]
    /\ UNCHANGED <<moneyVars, resolutions, refund, liability, chargeback, desk>>

Move(d, from, to) ==
    /\ dispute[d] \in from
    /\ dispute' = [dispute EXCEPT ![d] = to]
    /\ UNCHANGED <<moneyVars, resolutions, refund, liability, chargeback, desk>>

\* Statements of the opener, evidence and assignment change none of this.
Respond(d) == Move(d, {"open"}, "awaiting_response")
Cancel(d) == Move(d, {"open", "awaiting_response"}, "canceled")
StartReview(d) == Move(d, {"open", "awaiting_response"}, "under_review")
StartMediation(d) == Move(d, {"under_review", "resolution_proposed"}, "mediation")
Propose(d) == Move(d, {"under_review", "mediation"}, "resolution_proposed")
Close(d) == Move(d, {"resolved", "rejected"}, "closed")

AnyResolution(d) == TRUE
\* DisputeResolution.dispute is one to one.
ResolutionFree(d) == resolutions[d] = <<>>

Reject(d) ==
    /\ dispute[d] = "under_review" /\ ResolutionFree(d)
    /\ dispute' = [dispute EXCEPT ![d] = "rejected"]
    /\ resolutions' = [resolutions EXCEPT ![d] = Append(@, 0)]
    /\ UNCHANGED <<moneyVars, refund, liability, chargeback, desk>>

Resolvable(d) == dispute[d] \in {"resolution_proposed", "under_review", "mediation"}

AllHeld(a, b) == b
AsEntered(a, b) == a
AtMost(a, b) == IF a < b THEN a ELSE b

\* The UserFinancialLiability rows of a dispute once staff entered `owed`.
Liable(d, owed) == IF owed = 0 THEN liability[d] ELSE Append(liability[d], owed)

\* Staff enter the refund and the liability.  Before the settlement the refund
\* is capped by the escrow; after it the record keeps the amount that was
\* entered, whatever the technician's wallet could give.
Resolve(d, a, owed) ==
    LET moved == AtMost(a, IF settled THEN technician ELSE escrow)
    IN  /\ Resolvable(d) /\ ResolutionFree(d) /\ ~ContractLocked
        /\ dispute' = [dispute EXCEPT ![d] = "resolved"]
        /\ resolutions' = [resolutions EXCEPT ![d] = Append(@, a)]
        /\ refund' = IF a = 0 THEN refund
                     ELSE [refund EXCEPT ![d] =
                              [status |-> "completed", moved |-> moved,
                               amount |-> IF settled THEN a ELSE moved]]
        /\ liability' = [liability EXCEPT ![d] = Liable(d, owed)]
        /\ client' = client + moved
        /\ IF settled
           THEN technician' = technician - moved /\ UNCHANGED escrow
           ELSE escrow' = escrow - moved /\ UNCHANGED technician
        /\ UNCHANGED <<settled, chargeback, desk>>

\* AdminDisputeRefundCreateView: the same resolution, for an amount alone.
RefundInFull(d, a) == a > 0 /\ Resolve(d, a, 0)

-----------------------------------------------------------------------------
(***************************************************************************)
(* Refund records                                                          *)
(***************************************************************************)
\* Only the fixtures make a refund fail.
FailRefund(d) ==
    /\ refund[d].status = "completed"
    /\ refund' = [refund EXCEPT ![d].status = "failed"]
    /\ UNCHANGED <<moneyVars, dispute, resolutions, liability, chargeback, desk>>

\* AdminRefundSandboxConfirmView: fetch, then save.
BeginConfirm(w, d) ==
    /\ desk[w] = NoRequest
    /\ refund[d].status \notin {"none", "completed"}
    /\ desk' = [desk EXCEPT ![w] = [op |-> "confirm", on |-> d]]
    /\ UNCHANGED <<moneyVars, recordVars>>

SaveConfirm(w) ==
    /\ InFlight(w, "confirm")
    /\ refund' = [refund EXCEPT ![desk[w].on].status = "completed"]
    /\ Finish(w)
    /\ UNCHANGED <<moneyVars, dispute, resolutions, liability, chargeback>>

\* AdminRefundRetryView saves "processing", and only then resolves again.
BeginRetry(w, d) ==
    /\ desk[w] = NoRequest /\ refund[d].status = "failed"
    /\ refund' = [refund EXCEPT ![d].status = "processing"]
    /\ desk' = [desk EXCEPT ![w] = [op |-> "retry", on |-> d]]
    /\ UNCHANGED <<moneyVars, dispute, resolutions, liability, chargeback>>

LeftProcessing == "processing"
\* resolve_dispute refuses a dispute that is resolved.
AfterRetry == "failed"

EndRetry(w) ==
    /\ InFlight(w, "retry") /\ ~Resolvable(desk[w].on)
    /\ refund' = [refund EXCEPT ![desk[w].on].status = AfterRetry]
    /\ Finish(w)
    /\ UNCHANGED <<moneyVars, dispute, resolutions, liability, chargeback>>

-----------------------------------------------------------------------------
(***************************************************************************)
(* Chargebacks                                                             *)
(***************************************************************************)
ReceiveChargeback(c) ==
    /\ chargeback[c].status = "none" /\ ~ContractLocked
    /\ chargeback' = [chargeback EXCEPT ![c].status = "received"]
    /\ UNCHANGED <<moneyVars, dispute, resolutions, refund, liability, desk>>

MoveChargeback(c, from, to) ==
    /\ chargeback[c].status = from
    /\ \A w \in Workers : InFlight(w, "uphold") => desk[w].chargeback # c
    /\ chargeback' = [chargeback EXCEPT ![c].status = to]
    /\ UNCHANGED <<moneyVars, dispute, resolutions, refund, liability, desk>>

ReviewChargeback(c) == MoveChargeback(c, "received", "under_review")
SubmitEvidence(c) == MoveChargeback(c, "under_review", "evidence_submitted")

\* A decision is taken from any status, again and again.
Decide(c, decision) ==
    /\ chargeback[c].status # "none" /\ chargeback[c].decided < MaxUpholds
    /\ \A w \in Workers : InFlight(w, "uphold") => desk[w].chargeback # c
    /\ chargeback' = [chargeback EXCEPT ![c] =
                         [status |-> decision, decided |-> @.decided + 1]]
    /\ UNCHANGED <<moneyVars, dispute, resolutions, refund, liability, desk>>

RejectChargeback(c) == Decide(c, "rejected")
UpholdPartly(c) == Decide(c, "partially_upheld")

UnderReview == {d \in Disputes : dispute[d] = "under_review"}

\* get_or_create(contract, UNDER_REVIEW): the dispute there is, which is not
\* locked, or a new row; two of them would be an error.
BeginUphold(w, c) ==
    /\ desk[w] = NoRequest /\ ~ContractLocked
    /\ chargeback[c].status # "none" /\ chargeback[c].decided < MaxUpholds
    /\ Cardinality(UnderReview) < 2
    /\ \E d \in IF UnderReview # {} THEN UnderReview
                ELSE {e \in Disputes : dispute[e] = "none"} :
          desk' = [desk EXCEPT ![w] = [op |-> "uphold", chargeback |-> c, on |-> d]]
    /\ UNCHANGED <<moneyVars, recordVars>>

\* The resolution is inserted and the dispute saved as resolved, whatever its
\* status has become; no money moves.
CommitUphold(w, a) ==
    LET d == desk[w].on
        c == desk[w].chargeback
    IN  /\ InFlight(w, "uphold") /\ ResolutionFree(d)
        /\ chargeback' = [chargeback EXCEPT ![c] =
                             [status |-> "upheld", decided |-> @.decided + 1]]
        /\ resolutions' = [resolutions EXCEPT ![d] = Append(@, a)]
        /\ dispute' = [dispute EXCEPT ![d] = "resolved"]
        /\ Finish(w)
        /\ UNCHANGED <<moneyVars, refund, liability>>

\* A unique constraint, a deadlock with resolve_dispute: all is rolled back.
FailUphold(w) ==
    /\ InFlight(w, "uphold")
    /\ Finish(w)
    /\ UNCHANGED <<moneyVars, recordVars>>

-----------------------------------------------------------------------------
DisputeStep(d) ==
    \/ OpenDispute(d) \/ Respond(d) \/ Cancel(d) \/ StartReview(d)
    \/ StartMediation(d) \/ Propose(d) \/ Reject(d) \/ Close(d)
    \/ \E a, owed \in Entered \cup {0} : Resolve(d, a, owed)
    \/ \E a \in Entered : RefundInFull(d, a)
    \/ FailRefund(d)

ChargebackStep(c) ==
    \/ ReceiveChargeback(c) \/ ReviewChargeback(c) \/ SubmitEvidence(c)
    \/ RejectChargeback(c) \/ UpholdPartly(c)

Finishing(w) ==
    \/ SaveConfirm(w)
    \/ EndRetry(w)
    \/ \E a \in Entered : CommitUphold(w, a)
    \/ FailUphold(w)

Next ==
    \/ Settle
    \/ \E d \in Disputes : DisputeStep(d)
    \/ \E c \in Chargebacks : ChargebackStep(c)
    \/ \E w \in Workers :
          \/ \E d \in Disputes : BeginConfirm(w, d) \/ BeginRetry(w, d)
          \/ \E c \in Chargebacks : BeginUphold(w, c)
          \/ Finishing(w)

\* A request that has begun runs to its end.
Fairness == \A w \in Workers : WF_vars(Finishing(w))

Spec == Init /\ [][Next]_vars /\ Fairness

-----------------------------------------------------------------------------
(***************************************************************************)
(* Properties                                                              *)
(***************************************************************************)

\* Before the settlement every dinar is in escrow or has come back to the client.
\* The settlement may pay again what refunds had taken from the escrow, and no
\* more than that; refunds after it move what the technician has, and make none
\* (_execute_refund, settle_completed_contract).
MoneyAddsUp ==
    IF settled
    THEN /\ escrow = 0
         /\ technician + client >= Savings + TechnicianNet
         /\ technician + client <= Savings + TechnicianNet + Principal
    ELSE /\ technician = Savings
         /\ escrow + client = Principal

\* A dispute has one resolution when it is resolved, rejected or closed after
\* either, and none before, although a chargeback resolves a dispute that it
\* did not lock (resolve_dispute, reject_dispute, sandbox_uphold_chargeback).
ResolutionMatchesStatus ==
    \A d \in Disputes :
        Len(resolutions[d]) =
            IF dispute[d] \in {"resolved", "rejected", "closed"} THEN 1 ELSE 0

\* At most one dispute of a contract is under review, so upholding a chargeback
\* never finds two (check_dispute_eligibility, start_review,
\* sandbox_uphold_chargeback).
OneUnderReview == Cardinality(UnderReview) <= 1

\* Money comes back to the client only with a refund record of at least that
\* amount, on a dispute that its staff resolved for as much: neither chargebacks
\* nor retries move any (_execute_refund, AdminRefundRetryView).
RefundsAreResolved ==
    /\ \A d \in Disputes :
          refund[d] # NoRefund =>
              /\ dispute[d] \in {"resolved", "closed"}
              /\ refund[d].moved <= refund[d].amount
              /\ refund[d].amount <= resolutions[d][1]
    /\ (\A d \in Disputes : refund[d] = NoRefund) => client = 0

\* A refund that is being retried comes to an end: nothing is left in
\* processing, which no endpoint would retry (AdminRefundRetryView).
RetriedRefundsEnd ==
    \A d \in Disputes :
        refund[d].status = "processing" ~> refund[d].status # "processing"

\* Resolutions agree with the status of their disputes, of which one at most is
\* under review (resolve_dispute, sandbox_uphold_chargeback).
ResolutionsAgree == ResolutionMatchesStatus /\ OneUnderReview

-----------------------------------------------------------------------------
(***************************************************************************)
(* Why they hold.                                                          *)
(***************************************************************************)

\* Until it has been reviewed, a dispute keeps others from being opened; a
\* mediation may have a newer dispute beside it.
BeforeDecision == {"open", "awaiting_response", "under_review"}

OneBeforeDecision ==
    \A d, e \in Disputes :
        dispute[d] \in BeforeDecision /\ dispute[e] \in BeforeDecision => d = e

\* A refund record that exists has a status, and is never removed under the
\* request that confirms or retries it.
RefundsStay ==
    /\ \A d \in Disputes : refund[d].status = "none" => refund[d] = NoRefund
    /\ \A w \in Workers :
          InFlight(w, "confirm") \/ InFlight(w, "retry")
              => refund[desk[w].on].status # "none"

\* The inductive invariant.
IInv ==
    /\ TypeOK
    /\ MoneyAddsUp
    /\ ResolutionMatchesStatus
    /\ OneBeforeDecision
    /\ RefundsStay
    /\ RefundsAreResolved
=============================================================================
