----------------------------- MODULE Withdrawals -----------------------------
(***************************************************************************)
(* One user's wallet and its withdrawal requests (wallet/services.py),     *)
(* with the other endpoints that write the same balance.                   *)
(*                                                                         *)
(* Every staff endpoint fetches its WithdrawalRequest without a lock and   *)
(* tests the status it fetched (Begin); the transaction then writes the    *)
(* new status whatever the row holds by now (Commit).  The wallet is       *)
(* re-read under select_for_update where it is deducted.  Stage releases   *)
(* and activation fees instead read the balance and later write back what  *)
(* they computed from it.                                                  *)
(***************************************************************************)
EXTENDS Naturals, FiniteSets, Functions

CONSTANTS
    Workers,      \* concurrent requests in flight
    Withdrawals,  \* WithdrawalRequest rows of the wallet
    Amounts,      \* withdrawal amounts, in units of WITHDRAWAL_MINIMUM
    Opening,      \* the balance to begin with
    Unit,         \* amount of every other movement of the wallet
    MaxOther,     \* bound: other movements
    MaxPayouts,   \* bound: no payout is begun for a request that has had these
    UnlockedOps   \* the writers of this wallet that do not lock it

ASSUME WithdrawalsAssumption == IsFiniteSet(Withdrawals)
ASSUME AmountsAssumption == Amounts \subseteq Nat \ {0}
ASSUME OpeningAssumption == Opening \in Nat
ASSUME UnitAssumption == Unit \in Nat \ {0}
ASSUME MaxOtherAssumption == MaxOther \in Nat
ASSUME MaxPayoutsAssumption == MaxPayouts \in Nat
ASSUME UnlockedAssumption == UnlockedOps \subseteq {"release", "fee"}

VARIABLES
    balance,     \* Wallet.balance
    request,     \* WithdrawalRequest.status, "none" before the row exists
    amount,      \* WithdrawalRequest.amount
    deductions,  \* WITHDRAWAL transactions written for each request
    payouts,     \* successful gateway calls for each request
    credited,    \* total of the wallet's other incoming transactions
    debited,     \* total of its other outgoing transactions
    other,       \* number of other movements begun
    req          \* what each request in flight has read

requestVars == <<request, amount, deductions, payouts>>
otherVars == <<credited, debited, other>>
vars == <<balance, requestVars, otherVars, req>>

Status == {"none", "pending", "approved", "processing", "paid", "failed",
           "rejected", "canceled"}
StatusOps == {"approve", "reject", "cancel", "process", "confirm", "retry"}

NoRow == 0
Idle == [op |-> "idle", row |-> NoRow, status |-> "none", balance |-> 0]
Request == [op : StatusOps \cup UnlockedOps \cup {"idle"},
            row : Withdrawals \cup {NoRow}, status : Status, balance : Nat]

\* In particular the balance is never negative.
TypeOK ==
    /\ balance \in Nat
    /\ request \in [Withdrawals -> Status]
    /\ amount \in [Withdrawals -> Amounts \cup {0}]
    /\ deductions \in [Withdrawals -> Nat]
    /\ payouts \in [Withdrawals -> Nat]
    /\ credited \in Nat
    /\ debited \in Nat
    /\ other \in Nat
    /\ req \in [Workers -> Request]

Init ==
    /\ balance = Opening
    /\ request = [r \in Withdrawals |-> "none"]
    /\ amount = [r \in Withdrawals |-> 0]
    /\ deductions = [r \in Withdrawals |-> 0]
    /\ payouts = [r \in Withdrawals |-> 0]
    /\ credited = 0
    /\ debited = 0
    /\ other = 0
    /\ req = [w \in Workers |-> Idle]

Finish(w) == req' = [req EXCEPT ![w] = Idle]

Rollback(w) ==
    /\ req[w] # Idle
    /\ Finish(w)
    /\ UNCHANGED <<balance, requestVars, otherVars>>

-----------------------------------------------------------------------------
(***************************************************************************)
(* create_withdrawal_request, with the wallet locked.                      *)
(***************************************************************************)
Reserved ==
    SumFunctionOnSet(amount,
                     {r \in Withdrawals :
                         request[r] \in {"pending", "approved", "processing"}})

Available == IF balance < Reserved THEN 0 ELSE balance - Reserved

Create(r, a) ==
    /\ request[r] = "none"
    /\ a <= Available
    /\ request' = [request EXCEPT ![r] = "pending"]
    /\ amount' = [amount EXCEPT ![r] = a]
    /\ UNCHANGED <<balance, deductions, payouts, otherVars, req>>

-----------------------------------------------------------------------------
(***************************************************************************)
(* The status endpoints: each may start from the statuses of MayStart.     *)
(***************************************************************************)
MayStart(op) ==
    CASE op \in {"approve", "reject"} -> {"pending"}
      [] op = "cancel"  -> {"pending", "approved"}
      [] op = "process" -> {"approved"}
      [] op = "confirm" -> {"approved", "processing"}
      [] op = "retry"   -> {"failed"}

BeginStatus(w, op, r) ==
    /\ req[w] = Idle
    /\ request[r] \in MayStart(op)
    /\ op \in {"confirm", "retry"} => payouts[r] < MaxPayouts
    /\ req' = [req EXCEPT ![w] = [op |-> op, row |-> r, status |-> request[r],
                                  balance |-> balance]]
    /\ UNCHANGED <<balance, requestVars, otherVars>>

SetStatus(w, s) == request' = [request EXCEPT ![req[w].row] = s]

CommitDecision(w) ==
    /\ \/ req[w].op = "approve" /\ SetStatus(w, "approved")
       \/ req[w].op = "reject" /\ SetStatus(w, "rejected")
       \/ req[w].op = "cancel" /\ SetStatus(w, "canceled")
    /\ Finish(w)
    /\ UNCHANGED <<balance, amount, deductions, payouts, otherVars>>

\* The balance a deduction starts from: the row re-read under its lock.
BalanceAtFetch(w) == req[w].balance
BalanceForDeduction(w) == balance

HasFundsUnchecked(w) == TRUE
HasFunds(w) == amount[req[w].row] <= BalanceForDeduction(w)

Deduct(w) ==
    /\ HasFunds(w)
    /\ balance' = BalanceForDeduction(w) - amount[req[w].row]
    /\ deductions' = [deductions EXCEPT ![req[w].row] = @ + 1]

CommitProcess(w) ==
    /\ req[w].op = "process"
    /\ Deduct(w)
    /\ SetStatus(w, "processing")
    /\ Finish(w)
    /\ UNCHANGED <<amount, payouts, otherVars>>

\* The sandbox gateway succeeds, or fails when asked to.
PayOut(w) ==
    \/ /\ payouts' = [payouts EXCEPT ![req[w].row] = @ + 1]
       /\ SetStatus(w, "paid")
    \/ /\ UNCHANGED payouts
       /\ SetStatus(w, "failed")

\* confirm_withdrawal_payout deducts when the fetched request was not processed.
NeverDeducts(w) == FALSE
DeductsOnConfirm(w) == req[w].status = "approved"

CommitConfirm(w) ==
    /\ req[w].op = "confirm"
    /\ IF DeductsOnConfirm(w)
       THEN Deduct(w)
       ELSE UNCHANGED <<balance, deductions>>
    /\ PayOut(w)
    /\ Finish(w)
    /\ UNCHANGED <<amount, otherVars>>

CommitRetry(w) ==
    /\ req[w].op = "retry"
    /\ PayOut(w)
    /\ Finish(w)
    /\ UNCHANGED <<balance, amount, deductions, otherVars>>

-----------------------------------------------------------------------------
(***************************************************************************)
(* The wallet's other writers.                                             *)
(***************************************************************************)

\* settle_completed_contract credits the locked wallet.
SettlementCredit ==
    /\ other < MaxOther
    /\ balance' = balance + Unit
    /\ credited' = credited + Unit
    /\ other' = other + 1
    /\ UNCHANGED <<requestVars, debited, req>>

\* _execute_refund takes back what the locked wallet holds, up to the amount.
Recoverable == IF balance < Unit THEN balance ELSE Unit

DisputeReversal ==
    /\ other < MaxOther
    /\ Recoverable > 0
    /\ balance' = balance - Recoverable
    /\ debited' = debited + Recoverable
    /\ other' = other + 1
    /\ UNCHANGED <<requestVars, credited, req>>

\* approve_by_client and _setup_contract_escrow read the wallet unlocked; the
\* fee needs the balance it read to cover it.
BeginUnlocked(w, op) ==
    /\ req[w] = Idle
    /\ other < MaxOther
    /\ op = "fee" => Unit <= balance
    /\ req' = [req EXCEPT ![w] = [op |-> op, row |-> NoRow, status |-> "none",
                                  balance |-> balance]]
    /\ other' = other + 1
    /\ UNCHANGED <<balance, requestVars, credited, debited>>

CommitRelease(w) ==
    /\ req[w].op = "release"
    /\ balance' = req[w].balance + Unit
    /\ credited' = credited + Unit
    /\ Finish(w)
    /\ UNCHANGED <<requestVars, debited, other>>

CommitFee(w) ==
    /\ req[w].op = "fee"
    /\ balance' = req[w].balance - Unit
    /\ debited' = debited + Unit
    /\ Finish(w)
    /\ UNCHANGED <<requestVars, credited, other>>

-----------------------------------------------------------------------------
WorkerStep(w) ==
    \/ \E op \in StatusOps, r \in Withdrawals : BeginStatus(w, op, r)
    \/ \E op \in UnlockedOps : BeginUnlocked(w, op)
    \/ CommitDecision(w)
    \/ CommitProcess(w)
    \/ CommitConfirm(w)
    \/ CommitRetry(w)
    \/ CommitRelease(w)
    \/ CommitFee(w)
    \/ Rollback(w)

Next ==
    \/ \E w \in Workers : WorkerStep(w)
    \/ \E r \in Withdrawals, a \in Amounts : Create(r, a)
    \/ SettlementCredit
    \/ DisputeReversal

Spec == Init /\ [][Next]_vars

\* Every writer in flight locks the wallet.
AllLock == \A w \in Workers : req[w].op \notin UnlockedOps

-----------------------------------------------------------------------------
(***************************************************************************)
(* Properties                                                              *)
(***************************************************************************)

\* Whatever stale statuses the endpoints act on, a request in processing, failed
\* or paid, and every payout, had its amount deducted first
\* (confirm_withdrawal_payout, retry_failed_withdrawal).
PayoutIsDeducted ==
    \A r \in Withdrawals :
        request[r] \in {"processing", "failed", "paid"} \/ payouts[r] > 0
            => deductions[r] > 0

\* The sum of the deductions of all requests.
Withdrawn == SumFunction([r \in Withdrawals |-> deductions[r] * amount[r]])

\* The transactions explain the balance to the last dinar as long as every
\* writer locks the wallet: two staff requests and a settlement at once lose
\* nothing (process_withdrawal_request, settle_completed_contract).
LedgerExplainsBalance == balance + Withdrawn + debited = Opening + credited

-----------------------------------------------------------------------------
(***************************************************************************)
(* Why they hold: what a request in flight has read stays true enough.     *)
(***************************************************************************)

\* A fee in flight computes from a balance that covered it.
FeeWasCovered ==
    \A w \in Workers : req[w].op = "fee" => Unit <= req[w].balance

\* A payout in flight either deducts or acts on a deducted request.
PayoutInFlightIsDeducted ==
    \A w \in Workers :
        \/ req[w].op = "retry"
        \/ req[w].op = "confirm" /\ req[w].status # "approved"
        => deductions[req[w].row] > 0

\* A staff request names the row it fetched.
RowWasFetched ==
    \A w \in Workers : req[w].op \in StatusOps => req[w].row \in Withdrawals

\* A request that does not exist yet has no deduction, and none in flight.
RowsComeFirst ==
    /\ \A r \in Withdrawals : request[r] = "none" => deductions[r] = 0
    /\ \A w \in Workers :
          req[w].op \in StatusOps => request[req[w].row] # "none"

\* The inductive invariant.
IInv ==
    /\ TypeOK
    /\ PayoutIsDeducted
    /\ FeeWasCovered
    /\ PayoutInFlightIsDeducted
    /\ RowWasFetched
    /\ RowsComeFirst
=============================================================================
