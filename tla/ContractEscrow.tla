--------------------------- MODULE ContractEscrow ---------------------------
(***************************************************************************)
(* One contract from its draft to its settlement: the Contract row, its    *)
(* funding PaymentIntents, its completion requests, its stages and the     *)
(* escrow that all of them move (contract/services.py, contract/models.py, *)
(* contract/execution_services.py, wallet/services.py,                     *)
(* wallet/settlement_services.py).                                         *)
(*                                                                         *)
(* A view fetches its row without a lock, outside any transaction; the     *)
(* service then tests the fetched object inside transaction.atomic.  Such  *)
(* an endpoint is two actions: Begin<Op> is the fetch together with the    *)
(* tests on the fetched object, Commit<Op> is the transaction's writes.    *)
(* An endpoint that re-reads its row under select_for_update is one        *)
(* action.  A test on something that can only become true is evaluated at  *)
(* commit, one on something that can only become false at the fetch: both  *)
(* are the last (first) moment the code can read it.                       *)
(*                                                                         *)
(* Proposal and acceptance save every column of the object their view      *)
(* fetched, the amount and the escrow among them, over whatever the        *)
(* contract has become since.  Whose acceptances and signatures they are   *)
(* is in ContractSigning.                                                  *)
(*                                                                         *)
(* Money is kept as the contract's own ledger: wallets are in Withdrawals. *)
(***************************************************************************)
EXTENDS Integers

CONSTANTS
    Workers,        \* concurrent requests in flight
    Intents,        \* PaymentIntent rows of this contract
    MaxCompletions, \* bound: CompletionRequest rows of this contract
    Stages,         \* ContractStage rows (empty: paid by settlement only)
    Amounts,        \* values of Contract.agreed_amount: no endpoint tests its sign
    MaxRewritten,   \* bound: escrow that saves of whole rows change
    StartStatus     \* the status the contract starts from, see Init

ASSUME AmountsAssumption == Amounts \subseteq Int \ {0}
ASSUME MaxRewrittenAssumption == MaxRewritten \in Nat
ASSUME MaxCompletionsAssumption == MaxCompletions \in Nat
ASSUME StartAssumption == StartStatus \in {"draft", "in_progress"}

VARIABLES
    status,       \* Contract.status
    agreed,       \* Contract.agreed_amount
    escrow,       \* Contract.escrow_amount
    staged,       \* whether the ContractStage rows have been created
    signed,       \* whether the second signature has found the first
    charges,      \* PlatformAttestation rows = times the activation was charged
    principal,    \* what the activation took from the client into escrow
    booked,       \* total of the ESCROW transactions that brought money in
    lost,         \* history: escrow that a save has written away
    restored,     \* history: escrow that a save of an older row has put back
    intent,       \* PaymentIntent.status, "none" before the row exists
    deposits,     \* DEPOSIT transactions written for each intent
    completion,   \* CompletionRequest.status, "none" before the row exists
    submitted,    \* stages with ContractStage.completed_at set
    releases,     \* RELEASE transactions written for each stage
    settlements,  \* ContractSettlement rows in status completed
    released,     \* ContractSettlement.released_principal, summed
    refunded,     \* total of the REFUND transactions to the client
    req           \* what each request in flight read from its fetched row

rowVars      == <<status, agreed, escrow>>
ledgerVars   == <<charges, principal, booked, lost, restored>>
contractVars == <<rowVars, staged, signed, ledgerVars>>
fundingVars  == <<intent, deposits>>
stageVars    == <<submitted, releases>>
payoutVars   == <<settlements, released>>
vars == <<contractVars, fundingVars, completion, stageVars, payoutVars,
          refunded, req>>

Completions == 1 .. MaxCompletions

ContractStatus == {"draft", "pending_acceptance", "pending_signatures",
                   "pending_finalization", "in_progress", "active",
                   "completion_requested", "completed", "canceled"}
IntentStatus == {"none", "pending", "paid", "failed"}
CompletionStatus == {"none", "PENDING", "CONFIRMED", "REJECTED"}

Ops == {"propose", "accept", "sign", "finalize", "create_intent", "confirm",
        "mark_paid", "activate", "request_completion", "confirm_completion",
        "reject_completion", "cancel", "approve_stage"}

NoRow == 0
Rows == Intents \cup Completions \cup Stages \cup {NoRow}

\* No amount named yet, or one of 0.00: Contract.save treats them alike.
NoAmount == 0
Agreements == Amounts \cup {NoAmount}

\* What the escrow can hold: an amount, or what a refund has left of one.
Escrows == {e \in Int : e = 0 \/ \E a \in Amounts : e = a \/ (0 < e /\ e < a)}

Positive(n) == IF n > 0 THEN n ELSE 0

\* A request: its operation, the other row it fetched, and of the contract
\* object it holds the columns that its operation goes on to use.
Idle == [op |-> "idle", row |-> NoRow, escrow |-> 0, agreed |-> NoAmount]
Request == [op : Ops \cup {"idle"}, row : Rows, escrow : Escrows,
            agreed : Agreements]

UsesEscrow == {"propose", "accept", "finalize", "cancel"}
UsesAgreed == {"accept", "finalize", "confirm"}

TypeOK ==
    /\ status \in ContractStatus
    /\ agreed \in Agreements
    /\ escrow \in Escrows
    /\ staged \in BOOLEAN
    /\ signed \in BOOLEAN
    /\ charges \in Nat
    /\ principal \in Int
    /\ booked \in Nat
    /\ lost \in Nat
    /\ restored \in Nat
    /\ intent \in [Intents -> IntentStatus]
    /\ deposits \in [Intents -> Nat]
    /\ completion \in [Completions -> CompletionStatus]
    /\ submitted \subseteq Stages
    /\ releases \in [Stages -> Nat]
    /\ settlements \in Nat
    /\ released \in Nat
    /\ refunded \in Int
    /\ req \in [Workers -> Request]

(***************************************************************************)
(* create_contract makes a draft without terms.  A contract that predates  *)
(* electronic signing (wallet/tests/test_funding_base.py and the seed data *)
(* build them) starts in_progress with an amount and stages, unfunded,     *)
(* with no intent.                                                         *)
(***************************************************************************)
Init ==
    /\ status = StartStatus
    /\ IF StartStatus = "draft" THEN agreed = NoAmount ELSE agreed \in Amounts
    /\ escrow = 0
    /\ staged = (StartStatus # "draft")
    /\ signed = FALSE
    /\ charges = 0
    /\ principal = 0
    /\ booked = 0
    /\ lost = 0
    /\ restored = 0
    /\ intent = [i \in Intents |-> "none"]
    /\ deposits = [i \in Intents |-> 0]
    /\ completion = [c \in Completions |-> "none"]
    /\ submitted = {}
    /\ releases = [s \in Stages |-> 0]
    /\ settlements = 0
    /\ released = 0
    /\ refunded = 0
    /\ req = [w \in Workers |-> Idle]

-----------------------------------------------------------------------------
(***************************************************************************)
(* Requests                                                                *)
(***************************************************************************)

\* Worker w fetches the contract (and row r) for operation op.
Fetch(w, op, r) ==
    /\ req[w] = Idle
    /\ req' = [req EXCEPT ![w] =
                  [op |-> op, row |-> r,
                   escrow |-> IF op \in UsesEscrow THEN escrow ELSE 0,
                   agreed |-> IF op \in UsesAgreed THEN agreed ELSE NoAmount]]
    /\ UNCHANGED <<contractVars, fundingVars, completion, stageVars,
                   payoutVars, refunded>>

Finish(w) == req' = [req EXCEPT ![w] = Idle]

\* transaction.atomic rolls the whole request back: a ValueError from a wallet
\* short of funds, a database error, or a worker that dies.
Rollback(w) ==
    /\ req[w] # Idle
    /\ Finish(w)
    /\ UNCHANGED <<contractVars, fundingVars, completion, stageVars,
                   payoutVars, refunded>>

\* get_contract_funding_status(contract) = "funded".
Funded == \E i \in Intents : intent[i] = "paid"

NoIntent == \A i \in Intents : intent[i] = "none"

-----------------------------------------------------------------------------
(***************************************************************************)
(* Proposal, acceptance and signatures                                     *)
(***************************************************************************)

\* Contract.save of the object that w holds, with status s and amount a: all
\* columns of the fetched row.
SaveRow(w, s, a) ==
    /\ req[w].escrow # escrow => lost + restored <= MaxRewritten
    /\ status' = s
    /\ agreed' = a
    /\ escrow' = req[w].escrow
    /\ lost' = lost + Positive(escrow - req[w].escrow)
    /\ restored' = restored + Positive(req[w].escrow - escrow)
    /\ Finish(w)
    /\ UNCHANGED <<signed, charges, principal, booked, fundingVars, completion,
                   stageVars, payoutVars, refunded>>

BeginPropose(w) ==
    /\ status = "draft"
    /\ Fetch(w, "propose", NoRow)

\* The draft moves on when the other terms are complete, too; the first save
\* with an amount, a start and a duration creates the stages.
CommitPropose(w) ==
    /\ req[w].op = "propose"
    /\ \E a \in Agreements :
          /\ \/ SaveRow(w, "draft", a)
             \/ a # NoAmount /\ SaveRow(w, "pending_acceptance", a)
          /\ staged' = (staged \/ a # NoAmount)

BeginAccept(w) ==
    /\ status = "pending_acceptance"
    /\ Fetch(w, "accept", NoRow)

\* The second party to accept moves the contract on.
CommitAccept(w) ==
    /\ req[w].op = "accept"
    /\ \E s \in {"pending_acceptance", "pending_signatures"} :
          SaveRow(w, s, req[w].agreed)
    /\ UNCHANGED staged

BeginSign(w) ==
    /\ status = "pending_signatures"
    /\ Fetch(w, "sign", NoRow)

\* The second signature, whose transaction finds the first, writes the status.
\* A role signs a version once.
CommitSign(w) ==
    /\ req[w].op = "sign"
    /\ ~signed
    /\ signed' = TRUE
    /\ status' = "pending_finalization"
    /\ Finish(w)
    /\ UNCHANGED <<agreed, escrow, staged, ledgerVars, fundingVars, completion,
                   stageVars, payoutVars, refunded>>

-----------------------------------------------------------------------------
(***************************************************************************)
(* Finalization: charge both parties, hold the escrow, open the funding    *)
(* intent.  The OneToOne PlatformAttestation of the frozen version makes a *)
(* second commit fail, whatever the second request had read.  An object    *)
(* without an amount, or with escrow, is not charged.                      *)
(***************************************************************************)
\* A check that has been left out of the code.
Unchecked == TRUE

AttestationFree == charges = 0

Charged(w) == IF req[w].escrow = 0 THEN req[w].agreed ELSE 0

BeginFinalize(w) ==
    /\ status = "pending_finalization"
    /\ Fetch(w, "finalize", NoRow)

CommitFinalize(w) ==
    /\ req[w].op = "finalize"
    /\ AttestationFree
    /\ charges' = charges + 1
    /\ principal' = principal + Charged(w)
    /\ booked' = booked + Positive(Charged(w))
    /\ status' = "in_progress"
    /\ escrow' = req[w].escrow + Charged(w)
    /\ IF NoIntent
       THEN \E i \in Intents : intent' = [intent EXCEPT ![i] = "pending"]
       ELSE UNCHANGED intent
    /\ Finish(w)
    /\ UNCHANGED <<agreed, staged, signed, lost, restored, deposits, completion,
                   stageVars, payoutVars, refunded>>

-----------------------------------------------------------------------------
(***************************************************************************)
(* Funding                                                                 *)
(***************************************************************************)

\* create_contract_payment_intent returns an intent that is not paid, and
\* refuses a contract that has a paid one: it inserts only when there is none.
MayInsertIntent == NoIntent

BeginCreateIntent(w) ==
    /\ status = "in_progress"
    /\ agreed > 0
    /\ MayInsertIntent
    /\ Fetch(w, "create_intent", NoRow)

CommitCreateIntent(w) ==
    /\ req[w].op = "create_intent"
    /\ \E i \in Intents : /\ intent[i] = "none"
                          /\ intent' = [intent EXCEPT ![i] = "pending"]
    /\ Finish(w)
    /\ UNCHANGED <<contractVars, deposits, completion, stageVars, payoutVars,
                   refunded>>

\* confirm_sandbox_payment locks the intent, tests it, reads the contract, and
\* then writes both.
Locked(i) == \E w \in Workers : req[w].op = "confirm" /\ req[w].row = i

ConfirmableIfExists(i) == intent[i] # "none"

Confirmable(i) == intent[i] \in {"pending", "failed"}

BeginConfirm(w, i) ==
    /\ ~Locked(i)
    /\ Confirmable(i)
    /\ Fetch(w, "confirm", i)

CommitConfirm(w) ==
    /\ req[w].op = "confirm"
    /\ intent' = [intent EXCEPT ![req[w].row] = "paid"]
    /\ deposits' = [deposits EXCEPT ![req[w].row] = @ + 1]
    /\ escrow' = req[w].agreed
    /\ booked' = booked + Positive(req[w].agreed)
    /\ lost' = lost + Positive(escrow - req[w].agreed)
    /\ Finish(w)
    /\ UNCHANGED <<status, agreed, staged, signed, charges, principal, restored,
                   completion, stageVars, payoutVars, refunded>>

DeclinePayment(i) ==
    /\ ~Locked(i)
    /\ Confirmable(i)
    /\ intent' = [intent EXCEPT ![i] = "failed"]
    /\ UNCHANGED <<contractVars, deposits, completion, stageVars, payoutVars,
                   refunded, req>>

BeginMarkPaid(w, i) ==
    /\ intent[i] \in {"pending", "failed"}
    /\ Fetch(w, "mark_paid", i)

CommitMarkPaid(w) ==
    /\ req[w].op = "mark_paid"
    /\ ~Locked(req[w].row)
    /\ intent' = [intent EXCEPT ![req[w].row] = "paid"]
    /\ deposits' = [deposits EXCEPT ![req[w].row] = @ + 1]
    /\ Finish(w)
    /\ UNCHANGED <<contractVars, completion, stageVars, payoutVars, refunded>>

-----------------------------------------------------------------------------
(***************************************************************************)
(* Execution and completion.  Whether the milestones are approved is the   *)
(* environment's choice here.                                              *)
(***************************************************************************)
BeginActivate(w) ==
    /\ status = "in_progress"
    /\ Fetch(w, "activate", NoRow)

FundedForActivation == Funded

CommitActivate(w) ==
    /\ req[w].op = "activate"
    /\ FundedForActivation
    /\ status' = "active"
    /\ Finish(w)
    /\ UNCHANGED <<agreed, escrow, staged, signed, ledgerVars, fundingVars,
                   completion, stageVars, payoutVars, refunded>>

BeginRequestCompletion(w) ==
    /\ status = "active"
    /\ Fetch(w, "request_completion", NoRow)

CommitRequestCompletion(w) ==
    /\ req[w].op = "request_completion"
    /\ \E c \in Completions :
          /\ completion[c] = "none"
          /\ \A d \in Completions : d < c => completion[d] # "none"
          /\ completion' = [completion EXCEPT ![c] = "PENDING"]
    /\ status' = "completion_requested"
    /\ Finish(w)
    /\ UNCHANGED <<agreed, escrow, staged, signed, ledgerVars, fundingVars,
                   stageVars, payoutVars, refunded>>

\* completion_requests.filter(status=PENDING).first(), newest first.
FirstPending(c) ==
    /\ completion[c] = "PENDING"
    /\ \A d \in Completions : completion[d] = "PENDING" => d <= c

BeginConfirmCompletion(w, c) ==
    /\ FirstPending(c)
    /\ status = "completion_requested"
    /\ Fetch(w, "confirm_completion", c)

CommitConfirmCompletion(w) ==
    /\ req[w].op = "confirm_completion"
    /\ status' = "completed"
    /\ completion' = [completion EXCEPT ![req[w].row] = "CONFIRMED"]
    /\ Finish(w)
    /\ UNCHANGED <<agreed, escrow, staged, signed, ledgerVars, fundingVars,
                   stageVars, payoutVars, refunded>>

\* The contract's own status is never looked at.
BeginRejectCompletion(w, c) ==
    /\ FirstPending(c)
    /\ Fetch(w, "reject_completion", c)

CommitRejectCompletion(w) ==
    /\ req[w].op = "reject_completion"
    /\ status' = "active"
    /\ completion' = [completion EXCEPT ![req[w].row] = "REJECTED"]
    /\ Finish(w)
    /\ UNCHANGED <<agreed, escrow, staged, signed, ledgerVars, fundingVars,
                   stageVars, payoutVars, refunded>>

-----------------------------------------------------------------------------
(***************************************************************************)
(* Cancellation refunds, and then zeroes, the escrow of the fetched row.   *)
(***************************************************************************)
BeginCancel(w) ==
    /\ status \notin {"completed", "canceled"}
    /\ Fetch(w, "cancel", NoRow)

EscrowAlwaysCleared(w) == 0
EscrowReduced(w) == escrow - req[w].escrow

EscrowAfterCancel(w) == IF req[w].escrow > 0 THEN 0 ELSE escrow

CommitCancel(w) ==
    /\ req[w].op = "cancel"
    /\ status' = "canceled"
    /\ refunded' = refunded + Positive(req[w].escrow)
    /\ escrow' = EscrowAfterCancel(w)
    /\ Finish(w)
    /\ UNCHANGED <<agreed, staged, signed, ledgerVars, fundingVars, completion,
                   stageVars, payoutVars>>

-----------------------------------------------------------------------------
(***************************************************************************)
(* Stages.  Approval pays the technician and completes the contract with   *)
(* the last stage; neither handler looks at the contract's status, and the *)
(* escrow is not reduced.                                                  *)
(***************************************************************************)
Approved(s) == releases[s] > 0

SubmitStage(s) ==
    /\ staged
    /\ s \notin submitted
    /\ submitted' = submitted \cup {s}
    /\ UNCHANGED <<contractVars, fundingVars, completion, releases,
                   payoutVars, refunded, req>>

BeginApproveStage(w, s) ==
    /\ s \in submitted
    /\ ~Approved(s)
    /\ Fetch(w, "approve_stage", s)

CommitApproveStage(w) ==
    /\ req[w].op = "approve_stage"
    /\ releases' = [releases EXCEPT ![req[w].row] = @ + 1]
    /\ status' = IF \A s \in Stages \ {req[w].row} : Approved(s)
                 THEN "completed" ELSE status
    /\ Finish(w)
    /\ UNCHANGED <<agreed, escrow, staged, signed, ledgerVars, fundingVars,
                   completion, submitted, payoutVars, refunded>>

-----------------------------------------------------------------------------
(***************************************************************************)
(* Settlement, with the contract, the breakdown and both wallets locked.   *)
(* The filter for a pending completion request compares with "pending",    *)
(* while the rows hold "PENDING".                                          *)
(***************************************************************************)
NotSettled == settlements = 0

FundedForSettlement == Funded

NoPendingCompletion == \A c \in Completions : completion[c] # "pending"

SettlementEligible ==
    /\ status = "completed"
    /\ FundedForSettlement
    /\ escrow > 0
    /\ NotSettled
    /\ NoPendingCompletion

Settle ==
    /\ SettlementEligible
    /\ settlements' = settlements + 1
    /\ released' = released + escrow
    /\ escrow' = 0
    /\ UNCHANGED <<status, agreed, staged, signed, ledgerVars, fundingVars,
                   completion, stageVars, refunded, req>>

-----------------------------------------------------------------------------
Begin(w) ==
    \/ BeginPropose(w)
    \/ BeginAccept(w)
    \/ BeginSign(w)
    \/ BeginFinalize(w)
    \/ BeginCreateIntent(w)
    \/ \E i \in Intents : BeginConfirm(w, i)
    \/ \E i \in Intents : BeginMarkPaid(w, i)
    \/ BeginActivate(w)
    \/ BeginRequestCompletion(w)
    \/ \E c \in Completions : BeginConfirmCompletion(w, c)
    \/ \E c \in Completions : BeginRejectCompletion(w, c)
    \/ BeginCancel(w)
    \/ \E s \in Stages : BeginApproveStage(w, s)

Commit(w) ==
    \/ CommitPropose(w)
    \/ CommitAccept(w)
    \/ CommitSign(w)
    \/ CommitFinalize(w)
    \/ CommitCreateIntent(w)
    \/ CommitConfirm(w)
    \/ CommitMarkPaid(w)
    \/ CommitActivate(w)
    \/ CommitRequestCompletion(w)
    \/ CommitConfirmCompletion(w)
    \/ CommitRejectCompletion(w)
    \/ CommitCancel(w)
    \/ CommitApproveStage(w)

Next ==
    \/ \E w \in Workers : Begin(w) \/ Commit(w) \/ Rollback(w)
    \/ \E i \in Intents : DeclinePayment(i)
    \/ \E s \in Stages : SubmitStage(s)
    \/ Settle

Spec == Init /\ [][Next]_vars

-----------------------------------------------------------------------------
(***************************************************************************)
(* Properties                                                              *)
(***************************************************************************)

\* However many finalize requests read the contract while it was pending, the
\* parties are charged for its activation at most once
\* (finalize_signed_contract, PlatformAttestation.contract_version).
ChargedOnce == charges <= 1

\* The escrow is paid out by at most one settlement, even when a second funding
\* intent is confirmed after the first settlement and fills the escrow again
\* (settle_completed_contract).
SettledOnce == settlements <= 1

\* A signed contract that has been settled holds no escrow but what a proposal
\* or an acceptance, saved over it from before the settlement, has put back: no
\* late payment confirmation, cancellation or finalization refills what has
\* been paid out (confirm_sandbox_payment, Contract.cancel, accept_contract).
SettledEscrowStaysEmpty == settlements > 0 => escrow <= restored

\* Work is under way only on a contract whose funding was received: no path
\* through activation, completion and its rejection gets around the funding
\* check (check_execution_eligibility, reject_completion).
WorkIsFunded == status \in {"active", "completion_requested"} => Funded

\* Until it is settled, the principal taken from the client at activation is in
\* escrow or has gone back to the client, although a cancellation works with
\* the escrow it read before its transaction.  What is missing was written away
\* by the save of a row that a proposal or an acceptance had fetched, or by the
\* confirmation of a payment after such a save changed the amount
\* (Contract.cancel, update_contract_proposal, accept_contract).
NoLostPrincipal ==
    charges > 0 /\ settlements = 0 => escrow + refunded + lost >= principal

\* The endpoints implement the promise: activation, funding and release happen
\* once each and in that order.
Promise == INSTANCE EscrowPromise
             WITH charged <- charges > 0,
                  funded <- Funded,
                  released <- settlements > 0

KeepsPromise == Promise!Spec

-----------------------------------------------------------------------------
(***************************************************************************)
(* Why the properties hold of a signed contract.                           *)
(***************************************************************************)

\* Before the activation is charged nothing else has started: no escrow, no
\* intent, no completion request, and no request in flight that could make one.
NothingBeforeCharge ==
    charges = 0 =>
        /\ status \notin {"in_progress", "active", "completion_requested"}
        /\ escrow = 0
        /\ refunded = 0
        /\ principal = 0
        /\ NoIntent
        /\ settlements = 0
        /\ \A c \in Completions : completion[c] = "none"
        /\ \A w \in Workers :
              /\ req[w].op \in {"idle", "propose", "accept", "sign", "finalize",
                                "cancel", "approve_stage"}
              /\ req[w].escrow = 0

\* The activation opens the contract's only intent, so no second one follows.
OneIntent ==
    /\ charges > 0 => ~NoIntent
    /\ \A i, j \in Intents : intent[i] # "none" /\ intent[j] # "none" => i = j
    /\ \A w \in Workers : req[w].op # "create_intent"
    /\ \A w \in Workers :
          req[w].op = "mark_paid" => /\ req[w].row \in Intents
                                     /\ intent[req[w].row] # "none"

\* A confirmation in flight holds the lock of an intent it may confirm.
LockHolds ==
    /\ \A w \in Workers :
          req[w].op = "confirm" => /\ req[w].row \in Intents
                                   /\ Confirmable(req[w].row)
    /\ \A v, w \in Workers :
          req[v].op = "confirm" /\ req[w].op = "confirm" /\ v # w
             => req[v].row # req[w].row

\* Completion is requested, and answered, on funded contracts only.
CompletionIsFunded ==
    /\ \A c \in Completions : completion[c] # "none" => Funded
    /\ \A w \in Workers :
          req[w].op \in {"request_completion", "confirm_completion",
                         "reject_completion"} => Funded

SettledIsFunded == settlements > 0 => Funded

\* A cancellation in flight refunds what keeps the principal accounted for.
CancelCoversPrincipal ==
    charges > 0 /\ settlements = 0 =>
        \A w \in Workers :
            req[w].op = "cancel" /\ req[w].escrow > 0
                => req[w].escrow + refunded + lost - Positive(-escrow)
                       >= principal

\* The inductive invariant of a contract that starts as a draft.
IInv ==
    /\ TypeOK
    /\ ChargedOnce
    /\ SettledOnce
    /\ SettledEscrowStaysEmpty
    /\ SettledIsFunded
    /\ WorkIsFunded
    /\ NoLostPrincipal
    /\ NothingBeforeCharge
    /\ OneIntent
    /\ LockHolds
    /\ CompletionIsFunded
    /\ CancelCoversPrincipal
=============================================================================
