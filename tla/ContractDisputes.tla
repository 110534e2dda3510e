-------------------------- MODULE ContractDisputes --------------------------
(***************************************************************************)
(* Disputes over the contract of ContractEscrow (dispute/services.py): the *)
(* dispute's life and the refunds its resolution takes from the escrow or, *)
(* after the settlement, from the technician's wallet.                     *)
(*                                                                         *)
(* Every handler re-reads its dispute under select_for_update, and the two *)
(* that use the contract lock it too, so each is one action; they run      *)
(* between the fetch and the commit of the contract's own endpoints.       *)
(***************************************************************************)
EXTENDS ContractEscrow

CONSTANTS
    Disputes,       \* ContractDispute rows of this contract
    RefundAmounts   \* client_refund_amount values staff may enter

ASSUME RefundAssumption == RefundAmounts \subseteq Nat

VARIABLES
    dispute,        \* ContractDispute.status, "none" before the row exists
    escrowRefunds,  \* part of refunded that resolutions took from the escrow
    reversed        \* total taken back from the technician's wallet

disputeVars == <<dispute, escrowRefunds, reversed>>
allVars == <<vars, disputeVars>>

DisputeStatus == {"none", "open", "awaiting_response", "under_review",
                  "mediation", "resolution_proposed", "resolved", "rejected",
                  "closed", "canceled"}

DisputeTypeOK ==
    /\ TypeOK
    /\ dispute \in [Disputes -> DisputeStatus]
    /\ escrowRefunds \in Int
    /\ reversed \in Nat

DisputeInit ==
    /\ Init
    /\ dispute = [d \in Disputes |-> "none"]
    /\ escrowRefunds = 0
    /\ reversed = 0

-----------------------------------------------------------------------------
\* The statuses that check_dispute_eligibility counts as an active dispute.
Active == {"open", "awaiting_response", "under_review", "mediation"}

NoActiveDispute == \A d \in Disputes : dispute[d] \notin Active

DisputeEligible ==
    /\ escrow > 0 \/ settlements > 0
    /\ status \in {"active", "in_progress", "completion_requested", "completed"}
    /\ NoActiveDispute

OpenDispute(d) ==
    /\ dispute[d] = "none"
    /\ DisputeEligible
    /\ dispute' = [dispute EXCEPT ![d] = "open"]
    /\ UNCHANGED <<vars, escrowRefunds, reversed>>

Move(d, from, to) ==
    /\ dispute[d] \in from
    /\ dispute' = [dispute EXCEPT ![d] = to]
    /\ UNCHANGED <<vars, escrowRefunds, reversed>>

\* add_dispute_statement by the respondent; any other statement moves nothing.
Respond(d) == Move(d, {"open"}, "awaiting_response")

CancelDispute(d) == Move(d, {"open", "awaiting_response"}, "canceled")

StartReview(d) == Move(d, {"open", "awaiting_response"}, "under_review")

StartMediation(d) ==
    Move(d, {"under_review", "resolution_proposed"}, "mediation")

ProposeResolution(d) ==
    Move(d, {"under_review", "mediation"}, "resolution_proposed")

RejectDispute(d) == Move(d, {"under_review"}, "rejected")

CloseDispute(d) == Move(d, {"resolved", "rejected"}, "closed")

-----------------------------------------------------------------------------
(***************************************************************************)
(* resolve_dispute with _execute_refund.  Staff may enter any amount; it   *)
(* is capped by the escrow before the settlement and, after it, by the     *)
(* technician's balance, which other contracts change as well.             *)
(***************************************************************************)
Resolvable(d) ==
    dispute[d] \in {"resolution_proposed", "under_review", "mediation"}

AmountAsEntered(a) == a

\* An amount of 0 executes no refund; a negative escrow is given back, too.
RefundFromEscrow(a) == IF a > 0 /\ escrow < a THEN escrow ELSE a

EscrowAlwaysEmptied(a) == 0
EscrowUntouched(a) == escrow

EscrowAfterRefund(a) == escrow - RefundFromEscrow(a)

ResolveFromEscrow(d, a) ==
    /\ Resolvable(d)
    /\ settlements = 0
    /\ dispute' = [dispute EXCEPT ![d] = "resolved"]
    /\ refunded' = refunded + RefundFromEscrow(a)
    /\ escrowRefunds' = escrowRefunds + RefundFromEscrow(a)
    /\ escrow' = EscrowAfterRefund(a)
    /\ UNCHANGED <<status, agreed, staged, signed, ledgerVars, fundingVars,
                   completion, stageVars, payoutVars, req, reversed>>

ResolveFromWallet(d, a) ==
    /\ Resolvable(d)
    /\ settlements > 0
    /\ dispute' = [dispute EXCEPT ![d] = "resolved"]
    /\ \E recoverable \in 0 .. a : reversed' = reversed + recoverable
    /\ UNCHANGED <<vars, escrowRefunds>>

-----------------------------------------------------------------------------
DisputeStep ==
    \E d \in Disputes :
        \/ OpenDispute(d) \/ Respond(d) \/ CancelDispute(d)
        \/ StartReview(d) \/ StartMediation(d) \/ ProposeResolution(d)
        \/ RejectDispute(d) \/ CloseDispute(d)
        \/ \E a \in RefundAmounts :
              ResolveFromEscrow(d, a) \/ ResolveFromWallet(d, a)

DisputeNext ==
    \/ Next /\ UNCHANGED disputeVars
    \/ DisputeStep

DisputeSpec == DisputeInit /\ [][DisputeNext]_allVars

-----------------------------------------------------------------------------
\* Every dinar of refund that resolutions take from the escrow is still covered
\* when a cancellation, working from the escrow it read before the resolution,
\* zeroes the escrow, and when a late payment confirmation fills it up again
\* (_execute_refund, Contract.cancel, confirm_sandbox_payment).
PrincipalSurvivesDisputes == NoLostPrincipal

\* What resolutions and the settlement took out of the escrow, together with
\* what is left in it, was booked into it by the activation or a confirmed
\* payment, or put back by the save of an older row: refilling the escrow after
\* a refund, or entering a refund twice its size, never creates money.  And an
\* intent counts as paid exactly when its deposit was made, although mark-paid
\* does not lock it (_execute_refund, settle_completed_contract,
\* mark_payment_intent_paid).
PayoutsAreBacked ==
    /\ Positive(escrow) + escrowRefunds + released <= booked + restored
    /\ \A i \in Intents : intent[i] = "paid" <=> deposits[i] > 0
=============================================================================
