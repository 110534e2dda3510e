------------------------------ MODULE RowLocks ------------------------------
(***************************************************************************)
(* The row locks that the transactions on one contract take, in the order  *)
(* in which they take them: select_for_update locks a row against all      *)
(* others, an update of plain columns against other writers, and the check *)
(* of a foreign key, deferred to the commit, holds the row referred to     *)
(* against select_for_update.  The database ends a cycle of waits by       *)
(* failing one of its transactions.  References to a row that the          *)
(* transaction has written itself wait for nobody and are left out.        *)
(***************************************************************************)
EXTENDS Naturals, Sequences

CONSTANTS Workers    \* concurrent requests

VARIABLES
    running,   \* the transaction each worker is in, "none" between two
    taken      \* how many of its locks it has

vars == <<running, taken>>

ForUpdate(row) == [row |-> row, mode |-> "for_update"]
Update(row) == [row |-> row, mode |-> "update"]
Refer(row) == [row |-> row, mode |-> "key_share"]

SettleTechnicianFirst ==
    <<ForUpdate("technician_wallet"), ForUpdate("contract")>>

\* The first statement joins the contract with both profiles and both users, and
\* locks them all.
Settle ==
    <<ForUpdate("contract"), ForUpdate("client"), ForUpdate("client_user"),
      ForUpdate("technician"), ForUpdate("technician_user"),
      ForUpdate("breakdown"), ForUpdate("technician_wallet"),
      ForUpdate("platform_wallet")>>

\* Notices, audit entries and the records of who did what refer to users.
OpenDispute ==
    <<ForUpdate("contract"), Refer("client_user"), Refer("technician_user")>>

\* resolve_dispute and _execute_refund, before and after the settlement.
ResolveFromEscrow ==
    <<ForUpdate("dispute"), ForUpdate("contract"), ForUpdate("client_wallet"),
      Refer("client_user"), Refer("technician_user")>>
ResolveFromWallet ==
    <<ForUpdate("dispute"), ForUpdate("contract"),
      ForUpdate("technician_wallet"), ForUpdate("client_wallet"),
      ForUpdate("platform_wallet"), Refer("client_user"), Refer("technician_user")>>

MoveDispute ==
    <<ForUpdate("dispute"), Refer("client_user"), Refer("technician_user")>>

UpholdChargeback ==
    <<ForUpdate("chargeback"), ForUpdate("contract"), Update("dispute")>>

Finalize ==
    <<Update("client_wallet"), Update("technician_wallet"), Update("platform_wallet"),
      Update("technician"), Update("contract"),
      Refer("client_user"), Refer("technician_user")>>

\* accept_contract, and with it the signature and the request for completion.
ChangeContract ==
    <<Update("contract"), Refer("client_user"), Refer("technician_user")>>

CancelContract ==
    <<Update("technician"), Update("contract"), Update("client_wallet"),
      Refer("client_user"), Refer("technician_user")>>

ConfirmCompletion ==
    <<Update("technician"), Update("contract"), Update("completion_request"),
      Refer("client_user")>>

RejectCompletion ==
    <<Update("completion_request"), Update("contract"), Refer("client_user")>>

ApproveStage ==
    <<Update("technician_wallet"), Update("stage"), Update("contract"),
      Update("technician"), Refer("client_user"), Refer("technician_user")>>

ConfirmPayment ==
    <<ForUpdate("intent"), Update("client_wallet"), Update("contract")>>

MarkPaid ==
    <<Update("intent"), Update("client_wallet"), Refer("contract"),
      Refer("client_user")>>

RequestWithdrawal == <<ForUpdate("technician_wallet"), Refer("technician_user")>>

ReviewWithdrawal == <<Update("withdrawal"), Refer("technician_user")>>

ProcessWithdrawal == <<ForUpdate("technician_wallet"), Update("withdrawal")>>

ConfirmPayout ==
    <<ForUpdate("technician_wallet"), Update("withdrawal"), Refer("technician_user")>>

Locks == [
    settle |-> Settle, open_dispute |-> OpenDispute,
    resolve_escrow |-> ResolveFromEscrow, resolve_wallet |-> ResolveFromWallet,
    move_dispute |-> MoveDispute, uphold |-> UpholdChargeback,
    finalize |-> Finalize, change |-> ChangeContract, cancel |-> CancelContract,
    confirm_completion |-> ConfirmCompletion, reject_completion |-> RejectCompletion,
    approve_stage |-> ApproveStage, confirm_payment |-> ConfirmPayment,
    mark_paid |-> MarkPaid, withdraw |-> RequestWithdrawal,
    review |-> ReviewWithdrawal, process |-> ProcessWithdrawal,
    payout |-> ConfirmPayout]

Transactions == DOMAIN Locks

\* The handlers that reach the contract from a wallet or a request, or a dispute
\* from its contract, against the order of all others.
OutOfOrder ==
    {"finalize", "approve_stage", "confirm_payment", "mark_paid", "reject_completion",
     "uphold"}

\* Those that reach the contract from the technician, or a user from a row of the
\* wallet, where the settlement's first statement goes the other way.
AgainstSettlement ==
    {"cancel", "confirm_completion", "withdraw", "review", "payout"}

TypeOK ==
    /\ running \in [Workers -> Transactions \cup {"none"}]
    /\ taken \in [Workers -> Nat]
    /\ \A w \in Workers :
          taken[w] \in 0 .. IF running[w] = "none" THEN 0
                            ELSE Len(Locks[running[w]])

Init ==
    /\ running = [w \in Workers |-> "none"]
    /\ taken = [w \in Workers |-> 0]

-----------------------------------------------------------------------------
Conflict(m, n) ==
    \/ m = "for_update" \/ n = "for_update"
    \/ m = "update" /\ n = "update"

Held(w) == {Locks[running[w]][i] : i \in 1 .. taken[w]}

Waiting(w) == running[w] # "none" /\ taken[w] < Len(Locks[running[w]])
Wanted(w) == Locks[running[w]][taken[w] + 1]

Blocks(v, w) ==
    /\ v # w /\ running[v] # "none" /\ Waiting(w)
    /\ \E l \in Held(v) : l.row = Wanted(w).row /\ Conflict(l.mode, Wanted(w).mode)

\* Every transaction of the set waits for another of the set.
Deadlocked(set) ==
    /\ set # {}
    /\ \A w \in set : \E v \in set : Blocks(v, w)

Begin(w, t) ==
    /\ running[w] = "none"
    /\ running' = [running EXCEPT ![w] = t]
    /\ UNCHANGED taken

Acquire(w) ==
    /\ Waiting(w)
    /\ \A v \in Workers : ~Blocks(v, w)
    /\ taken' = [taken EXCEPT ![w] = @ + 1]
    /\ UNCHANGED running

End(w) ==
    /\ running' = [running EXCEPT ![w] = "none"]
    /\ taken' = [taken EXCEPT ![w] = 0]

Commit(w) ==
    /\ running[w] # "none" /\ ~Waiting(w)
    /\ End(w)

NeverDetected(w) == FALSE
DetectedIn(w) == \E set \in SUBSET Workers : w \in set /\ Deadlocked(set)

\* deadlock_timeout has passed: the database fails one transaction of the cycle.
Fail(w) ==
    /\ DetectedIn(w)
    /\ End(w)

-----------------------------------------------------------------------------
Step(w) == Acquire(w) \/ Commit(w) \/ Fail(w)

Arrive == \E w \in Workers, t \in Transactions : Begin(w, t)

Next == Arrive \/ \E w \in Workers : Step(w)

\* A transaction that has begun is driven on by its request.
Fairness == \A w \in Workers : WF_vars(Step(w))

Spec == Init /\ [][Next]_vars /\ Fairness

-----------------------------------------------------------------------------
(***************************************************************************)
(* Properties                                                              *)
(***************************************************************************)

\* Transactions wait for each other in a cycle only where one of the handlers named
\* out of order takes part, or a settlement with one that it crosses: opening,
\* moving and resolving disputes, cancelling, completing and withdrawing lock in one
\* common order, and so do settling, disputing and processing withdrawals
\* (settle_completed_contract, resolve_dispute, Contract.cancel).
DeadlocksAreOutOfOrder ==
    \A set \in SUBSET Workers :
        Deadlocked(set) =>
            \/ \E w \in set : running[w] \in OutOfOrder
            \/ \E v, w \in set : running[v] = "settle" /\ running[w] \in AgainstSettlement

\* Once no more requests come in, all that have begun end, by committing or by
\* being failed in a deadlock, whatever orders they lock in.  While others come,
\* one may wait for ever: rows referred to in shared mode by one transaction
\* after another are never free for an update
\* (resolve_dispute, sandbox_uphold_chargeback, confirm_sandbox_payment).
RequestsEnd ==
    []<><<Arrive>>_vars \/ <>[](\A w \in Workers : running[w] = "none")

-----------------------------------------------------------------------------
(***************************************************************************)
(* Why they hold.                                                          *)
(***************************************************************************)
\* The common order in which transactions lock rows: with a settlement among them
\* the technician comes after the contract, without one before it.  Rows that only
\* those out of order lock have no place in it.
Rank(row, settling) ==
    CASE row = "technician" -> IF settling THEN 6 ELSE 1
      [] row = "dispute" -> 2
      [] row = "contract" -> 3
      [] row = "client" -> 4
      [] row = "client_user" -> 5
      [] row = "technician_user" -> 7
      [] row = "breakdown" -> 8
      [] row = "technician_wallet" -> 9
      [] row = "client_wallet" -> 10
      [] row = "platform_wallet" -> 11
      [] row = "withdrawal" -> 12
      [] row = "completion_request" -> 13
      [] OTHER -> 0

\* Locks of two transactions on one row never exclude each other.  So whoever holds
\* the contract never waits for a user: only a settlement locks users, and it holds
\* the contract first.
Compatible ==
    \A v, w \in Workers :
        v # w => \A l \in Held(v), m \in Held(w) :
                     l.row = m.row => ~Conflict(l.mode, m.mode)

IInv == TypeOK /\ Compatible
=============================================================================
