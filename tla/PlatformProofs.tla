--------------------------- MODULE PlatformProofs ---------------------------
(***************************************************************************)
(* Theorems about what all components stand on, the row locks and the      *)
(* notifications, and about accounts: their profiles and registration.     *)
(***************************************************************************)
EXTENDS MCAccounts, SumLemmas

(***************************************************************************)
(* Row locks.                                                              *)
(***************************************************************************)
\* Each transaction takes its locks in a sequence.
LEMMA LockLists ==
    /\ "none" \notin Transactions
    /\ \A t \in Transactions : Len(Locks[t]) \in Nat
<1> USE DEF ForUpdate, Update, Refer
<1>1. DOMAIN Locks =
        {"settle", "open_dispute", "resolve_escrow", "resolve_wallet",
         "move_dispute", "uphold", "finalize", "change",
         "cancel", "confirm_completion", "reject_completion", "approve_stage",
         "confirm_payment", "mark_paid", "withdraw", "review",
         "process", "payout"}
  BY DEF Locks
<1>2. /\ Len(Settle) = 8
      /\ Len(OpenDispute) = 3
      /\ Len(ResolveFromEscrow) = 5
      /\ Len(ResolveFromWallet) = 7
      /\ Len(MoveDispute) = 3
      /\ Len(UpholdChargeback) = 3
  BY DEF Settle, OpenDispute, ResolveFromEscrow, ResolveFromWallet, MoveDispute, UpholdChargeback
<1>3. /\ Len(Finalize) = 7
      /\ Len(ChangeContract) = 3
      /\ Len(CancelContract) = 5
      /\ Len(ConfirmCompletion) = 4
      /\ Len(RejectCompletion) = 3
      /\ Len(ApproveStage) = 6
  BY DEF Finalize, ChangeContract, CancelContract, ConfirmCompletion, RejectCompletion, ApproveStage
<1>4. /\ Len(ConfirmPayment) = 3
      /\ Len(MarkPaid) = 4
      /\ Len(RequestWithdrawal) = 2
      /\ Len(ReviewWithdrawal) = 2
      /\ Len(ProcessWithdrawal) = 2
      /\ Len(ConfirmPayout) = 3
  BY DEF ConfirmPayment, MarkPaid, RequestWithdrawal, ReviewWithdrawal, ProcessWithdrawal, ConfirmPayout
<1> QED
  BY <1>1, <1>2, <1>3, <1>4 DEF Locks, Transactions

LEMMA Ranked ==
    \A row, settling : Rank(row, settling) \in Nat /\ Rank(row, settling) <= 13
BY DEF Rank

LEMMA RanksOfRows ==
    \A settling \in BOOLEAN :
        /\ Rank("technician", settling) = IF settling THEN 6 ELSE 1
        /\ Rank("dispute", settling) = 2
        /\ Rank("contract", settling) = 3
        /\ Rank("client", settling) = 4
        /\ Rank("client_user", settling) = 5
        /\ Rank("technician_user", settling) = 7
        /\ Rank("breakdown", settling) = 8
        /\ Rank("technician_wallet", settling) = 9
        /\ Rank("client_wallet", settling) = 10
        /\ Rank("platform_wallet", settling) = 11
        /\ Rank("withdrawal", settling) = 12
        /\ Rank("completion_request", settling) = 13
BY DEF Rank

\* Only a settlement locks users against being referred to, and the contract first.
LEMMA OnlySettlementLocksUsers ==
    /\ Locks["settle"][1] = ForUpdate("contract")
    /\ \A t \in Transactions : \A i \in 1 .. Len(Locks[t]) :
          /\ Locks[t][i].row \in {"client_user", "technician_user"}
          /\ Locks[t][i].mode = "for_update"
          => t = "settle"
<1> USE DEF ForUpdate, Update, Refer
<1>0. Locks["settle"][1] = ForUpdate("contract")
  BY DEF Locks, Settle
<1> SUFFICES ASSUME NEW t \in Transactions, NEW i \in 1 .. Len(Locks[t]), t # "settle"
             PROVE  \/ Locks[t][i].row \notin {"client_user", "technician_user"}
                    \/ Locks[t][i].mode # "for_update"
  BY <1>0
<1>1. CASE t = "open_dispute"
  BY <1>1 DEF Locks, OpenDispute
<1>2. CASE t = "resolve_escrow"
  BY <1>2 DEF Locks, ResolveFromEscrow
<1>3. CASE t = "resolve_wallet"
  BY <1>3 DEF Locks, ResolveFromWallet
<1>4. CASE t = "move_dispute"
  BY <1>4 DEF Locks, MoveDispute
<1>5. CASE t = "uphold"
  BY <1>5 DEF Locks, UpholdChargeback
<1>6. CASE t = "finalize"
  BY <1>6 DEF Locks, Finalize
<1>7. CASE t = "change"
  BY <1>7 DEF Locks, ChangeContract
<1>8. CASE t = "cancel"
  BY <1>8 DEF Locks, CancelContract
<1>9. CASE t = "confirm_completion"
  BY <1>9 DEF Locks, ConfirmCompletion
<1>10. CASE t = "reject_completion"
  BY <1>10 DEF Locks, RejectCompletion
<1>11. CASE t = "approve_stage"
  BY <1>11 DEF Locks, ApproveStage
<1>12. CASE t = "confirm_payment"
  BY <1>12 DEF Locks, ConfirmPayment
<1>13. CASE t = "mark_paid"
  BY <1>13 DEF Locks, MarkPaid
<1>14. CASE t = "withdraw"
  BY <1>14 DEF Locks, RequestWithdrawal
<1>15. CASE t = "review"
  BY <1>15 DEF Locks, ReviewWithdrawal
<1>16. CASE t = "process"
  BY <1>16 DEF Locks, ProcessWithdrawal
<1>17. CASE t = "payout"
  BY <1>17 DEF Locks, ConfirmPayout
<1> QED
  BY <1>1, <1>2, <1>3, <1>4, <1>5, <1>6, <1>7, <1>8, <1>9, <1>10, <1>11, <1>12, <1>13, <1>14, <1>15, <1>16, <1>17 DEF Transactions, Locks

\* A transaction that is not out of order wants a row after those it has locked,
\* or refers to a user; where it then holds no contract that a settlement may want,
\* it is one that goes against settlements.
LEMMA LocksInOrder ==
    ASSUME NEW t \in Transactions \ OutOfOrder, NEW settling \in BOOLEAN,
           settling => t \notin AgainstSettlement, t = "settle" => settling,
           NEW i \in Nat \ {0}, NEW j \in 1 .. Len(Locks[t]), i < j
    PROVE  \/ Rank(Locks[t][i].row, settling) < Rank(Locks[t][j].row, settling)
           \/ /\ Locks[t][j].row \in {"client_user", "technician_user"}
              /\ Locks[t][j].mode = "key_share"
              /\ \/ t \in AgainstSettlement
                 \/ Locks[t][2] = ForUpdate("contract") /\ 2 < j
<1> USE DEF ForUpdate, Update, Refer
<1>1. CASE t = "settle"
  <2>1. Len(Locks[t]) = 8
    BY <1>1 DEF Locks, Settle
  <2>2. \/ i = 1 /\ j \in 2 .. 8
        \/ i = 2 /\ j \in 3 .. 8
        \/ i = 3 /\ j \in 4 .. 8
        \/ i = 4 /\ j \in 5 .. 8
        \/ i = 5 /\ j \in 6 .. 8
        \/ i = 6 /\ j \in 7 .. 8
        \/ i = 7 /\ j \in 8 .. 8
    BY <2>1
  <2>3. /\ Rank(Locks[t][1].row, settling) = 3
        /\ Rank(Locks[t][2].row, settling) = 4
        /\ Rank(Locks[t][3].row, settling) = 5
        /\ Rank(Locks[t][4].row, settling) = 6
        /\ Rank(Locks[t][5].row, settling) = 7
        /\ Rank(Locks[t][6].row, settling) = 8
        /\ Rank(Locks[t][7].row, settling) = 9
        /\ Rank(Locks[t][8].row, settling) = 11
    BY <1>1, RanksOfRows DEF Locks, Settle
  <2>4. CASE i \in 1 .. 3
    <3>1. Rank(Locks[t][i].row, settling) = i + 2
      BY <2>3, <2>4
    <3>2. CASE j \in 2 .. 6
      <4>1. Rank(Locks[t][j].row, settling) = j + 2
        BY <2>3, <3>2
      <4> QED
        BY <3>1, <4>1
    <3>3. CASE j \in 7 .. 8
      <4>1. Rank(Locks[t][j].row, settling) \in 9 .. 11
        BY <2>3, <3>3
      <4> QED
        BY <2>4, <3>1, <4>1
    <3> QED
      BY <2>1, <3>2, <3>3
  <2>5. CASE i \in 4 .. 7
    <3>1. Rank(Locks[t][i].row, settling) = i + 2
      BY <2>3, <2>5
    <3>2. CASE j \in 5 .. 7
      <4>1. Rank(Locks[t][j].row, settling) = j + 2
        BY <2>3, <3>2
      <4> QED
        BY <3>1, <4>1
    <3>3. CASE j = 8
      BY <2>3, <2>5, <3>1, <3>3
    <3> QED
      BY <2>1, <2>5, <3>2, <3>3
  <2> QED
    BY <2>2, <2>4, <2>5
<1>2. CASE t = "open_dispute"
  <2>1. Len(Locks[t]) = 3
    BY <1>2 DEF Locks, OpenDispute
  <2>2. \/ i = 1 /\ j \in 2 .. 3
        \/ i = 2 /\ j \in 3 .. 3
    BY <2>1
  <2>3. /\ Rank(Locks[t][1].row, settling) = 3
        /\ Rank(Locks[t][2].row, settling) = 5
        /\ Rank(Locks[t][3].row, settling) = 7
    BY <1>2, RanksOfRows DEF Locks, OpenDispute
  <2> QED
    BY <1>2, <2>2, <2>3
<1>3. CASE t = "resolve_escrow"
  <2>1. Len(Locks[t]) = 5
    BY <1>3 DEF Locks, ResolveFromEscrow
  <2>2. \/ i = 1 /\ j \in 2 .. 5
        \/ i = 2 /\ j \in 3 .. 5
        \/ i = 3 /\ j \in 4 .. 5
        \/ i = 4 /\ j \in 5 .. 5
    BY <2>1
  <2>3. /\ Rank(Locks[t][1].row, settling) = 2
        /\ Rank(Locks[t][2].row, settling) = 3
        /\ Rank(Locks[t][3].row, settling) = 10
        /\ Rank(Locks[t][4].row, settling) = 5
        /\ Rank(Locks[t][5].row, settling) = 7
    BY <1>3, RanksOfRows DEF Locks, ResolveFromEscrow
  <2>4. /\ Locks[t][4] = Refer("client_user")
        /\ Locks[t][5] = Refer("technician_user")
        /\ Locks[t][2] = ForUpdate("contract")
    BY <1>3 DEF Locks, ResolveFromEscrow
  <2> QED
    BY <1>3, <2>2, <2>3, <2>4
<1>4. CASE t = "resolve_wallet"
  <2>1. Len(Locks[t]) = 7
    BY <1>4 DEF Locks, ResolveFromWallet
  <2>2. \/ i = 1 /\ j \in 2 .. 7
        \/ i = 2 /\ j \in 3 .. 7
        \/ i = 3 /\ j \in 4 .. 7
        \/ i = 4 /\ j \in 5 .. 7
        \/ i = 5 /\ j \in 6 .. 7
        \/ i = 6 /\ j \in 7 .. 7
    BY <2>1
  <2>3. /\ Rank(Locks[t][1].row, settling) = 2
        /\ Rank(Locks[t][2].row, settling) = 3
        /\ Rank(Locks[t][3].row, settling) = 9
        /\ Rank(Locks[t][4].row, settling) = 10
        /\ Rank(Locks[t][5].row, settling) = 11
        /\ Rank(Locks[t][6].row, settling) = 5
        /\ Rank(Locks[t][7].row, settling) = 7
    BY <1>4, RanksOfRows DEF Locks, ResolveFromWallet
  <2>4. /\ Locks[t][6] = Refer("client_user")
        /\ Locks[t][7] = Refer("technician_user")
        /\ Locks[t][2] = ForUpdate("contract")
    BY <1>4 DEF Locks, ResolveFromWallet
  <2>5. CASE j \in 6 .. 7
    BY <2>4, <2>5
  <2>6. CASE j \in 2 .. 5
    <3>1. i \in 1 .. 4
      BY <2>2, <2>6
    <3> QED
      BY <2>2, <2>3, <2>6, <3>1
  <2> QED
    BY <2>2, <2>5, <2>6
<1>5. CASE t = "move_dispute"
  <2>1. Len(Locks[t]) = 3
    BY <1>5 DEF Locks, MoveDispute
  <2>2. \/ i = 1 /\ j \in 2 .. 3
        \/ i = 2 /\ j \in 3 .. 3
    BY <2>1
  <2>3. /\ Rank(Locks[t][1].row, settling) = 2
        /\ Rank(Locks[t][2].row, settling) = 5
        /\ Rank(Locks[t][3].row, settling) = 7
    BY <1>5, RanksOfRows DEF Locks, MoveDispute
  <2> QED
    BY <1>5, <2>2, <2>3
<1>6. CASE t = "change"
  <2>1. Len(Locks[t]) = 3
    BY <1>6 DEF Locks, ChangeContract
  <2>2. \/ i = 1 /\ j \in 2 .. 3
        \/ i = 2 /\ j \in 3 .. 3
    BY <2>1
  <2>3. /\ Rank(Locks[t][1].row, settling) = 3
        /\ Rank(Locks[t][2].row, settling) = 5
        /\ Rank(Locks[t][3].row, settling) = 7
    BY <1>6, RanksOfRows DEF Locks, ChangeContract
  <2> QED
    BY <1>6, <2>2, <2>3
<1>7. CASE t = "cancel"
  <2>1. Len(Locks[t]) = 5
    BY <1>7 DEF Locks, CancelContract
  <2>2. \/ i = 1 /\ j \in 2 .. 5
        \/ i = 2 /\ j \in 3 .. 5
        \/ i = 3 /\ j \in 4 .. 5
        \/ i = 4 /\ j \in 5 .. 5
    BY <2>1
  <2>3. /\ ~settling
        /\ Rank(Locks[t][1].row, settling) = 1
        /\ Rank(Locks[t][2].row, settling) = 3
        /\ Rank(Locks[t][3].row, settling) = 10
        /\ Rank(Locks[t][4].row, settling) = 5
        /\ Rank(Locks[t][5].row, settling) = 7
    BY <1>7, RanksOfRows DEF Locks, CancelContract, AgainstSettlement
  <2>4. /\ Locks[t][4] = Refer("client_user")
        /\ Locks[t][5] = Refer("technician_user")
        /\ t \in AgainstSettlement
    BY <1>7 DEF Locks, CancelContract, AgainstSettlement
  <2> QED
    BY <1>7, <2>2, <2>3, <2>4
<1>8. CASE t = "confirm_completion"
  <2>1. Len(Locks[t]) = 4
    BY <1>8 DEF Locks, ConfirmCompletion
  <2>2. \/ i = 1 /\ j \in 2 .. 4
        \/ i = 2 /\ j \in 3 .. 4
        \/ i = 3 /\ j \in 4 .. 4
    BY <2>1
  <2>3. /\ ~settling
        /\ Rank(Locks[t][1].row, settling) = 1
        /\ Rank(Locks[t][2].row, settling) = 3
        /\ Rank(Locks[t][3].row, settling) = 13
        /\ Rank(Locks[t][4].row, settling) = 5
    BY <1>8, RanksOfRows DEF Locks, ConfirmCompletion, AgainstSettlement
  <2>4. /\ Locks[t][4] = Refer("client_user")
        /\ t \in AgainstSettlement
    BY <1>8 DEF Locks, ConfirmCompletion, AgainstSettlement
  <2> QED
    BY <1>8, <2>2, <2>3, <2>4
<1>9. CASE t = "withdraw"
  <2>1. Len(Locks[t]) = 2
    BY <1>9 DEF Locks, RequestWithdrawal
  <2>2. \/ i = 1 /\ j \in 2 .. 2
    BY <2>1
  <2>3. /\ ~settling
        /\ Rank(Locks[t][1].row, settling) = 9
        /\ Rank(Locks[t][2].row, settling) = 7
    BY <1>9, RanksOfRows DEF Locks, RequestWithdrawal, AgainstSettlement
  <2>4. /\ Locks[t][2] = Refer("technician_user")
        /\ t \in AgainstSettlement
    BY <1>9 DEF Locks, RequestWithdrawal, AgainstSettlement
  <2> QED
    BY <1>9, <2>2, <2>3, <2>4
<1>10. CASE t = "review"
  <2>1. Len(Locks[t]) = 2
    BY <1>10 DEF Locks, ReviewWithdrawal
  <2>2. \/ i = 1 /\ j \in 2 .. 2
    BY <2>1
  <2>3. /\ ~settling
        /\ Rank(Locks[t][1].row, settling) = 12
        /\ Rank(Locks[t][2].row, settling) = 7
    BY <1>10, RanksOfRows DEF Locks, ReviewWithdrawal, AgainstSettlement
  <2>4. /\ Locks[t][2] = Refer("technician_user")
        /\ t \in AgainstSettlement
    BY <1>10 DEF Locks, ReviewWithdrawal, AgainstSettlement
  <2> QED
    BY <1>10, <2>2, <2>3, <2>4
<1>11. CASE t = "process"
  <2>1. Len(Locks[t]) = 2
    BY <1>11 DEF Locks, ProcessWithdrawal
  <2>2. \/ i = 1 /\ j \in 2 .. 2
    BY <2>1
  <2>3. /\ Rank(Locks[t][1].row, settling) = 9
        /\ Rank(Locks[t][2].row, settling) = 12
    BY <1>11, RanksOfRows DEF Locks, ProcessWithdrawal
  <2> QED
    BY <1>11, <2>2, <2>3
<1>12. CASE t = "payout"
  <2>1. Len(Locks[t]) = 3
    BY <1>12 DEF Locks, ConfirmPayout
  <2>2. \/ i = 1 /\ j \in 2 .. 3
        \/ i = 2 /\ j \in 3 .. 3
    BY <2>1
  <2>3. /\ ~settling
        /\ Rank(Locks[t][1].row, settling) = 9
        /\ Rank(Locks[t][2].row, settling) = 12
        /\ Rank(Locks[t][3].row, settling) = 7
    BY <1>12, RanksOfRows DEF Locks, ConfirmPayout, AgainstSettlement
  <2>4. /\ Locks[t][3] = Refer("technician_user")
        /\ t \in AgainstSettlement
    BY <1>12 DEF Locks, ConfirmPayout, AgainstSettlement
  <2> QED
    BY <1>12, <2>2, <2>3, <2>4
<1> QED
  BY <1>1, <1>2, <1>3, <1>4, <1>5, <1>6, <1>7, <1>8, <1>9, <1>10, <1>11, <1>12
  DEF Transactions, Locks, OutOfOrder

\* What a worker holds: nothing between two transactions.
LEMMA HeldLocks ==
    ASSUME TypeOK, NEW w \in Workers
    PROVE  /\ taken[w] \in Nat
           /\ taken[w] = 0 => Held(w) = {}
           /\ running[w] = "none" => Held(w) = {}
           /\ \A l \in Held(w) : \E i \in 1 .. taken[w] : l = Locks[running[w]][i]
<1>1. running[w] \in Transactions => Len(Locks[running[w]]) \in Nat
  BY LockLists
<1> QED
  BY <1>1 DEF TypeOK, Held

LEMMA LocksInit == Init => IInv
BY DEF Init, IInv, TypeOK, Compatible, Held

\* Workers that hold no more than before stay compatible.
LEMMA FewerHeld ==
    ASSUME Compatible, \A w \in Workers : Held(w)' \subseteq Held(w)
    PROVE  Compatible'
BY DEF Compatible

LEMMA LocksStep == IInv /\ [Next]_vars => IInv'
<1> SUFFICES ASSUME IInv, [Next]_vars PROVE IInv'
  OBVIOUS
<1> USE DEF IInv
<1>1. ASSUME NEW w \in Workers, NEW t \in Transactions, Begin(w, t)
      PROVE  IInv'
  <2>1. /\ running' \in [Workers -> Transactions \cup {"none"}]
        /\ running'[w] = t /\ taken'[w] = 0 /\ taken[w] = 0
        /\ \A v \in Workers \ {w} : running'[v] = running[v] /\ taken'[v] = taken[v]
    BY <1>1 DEF Begin, TypeOK
  <2>2. TypeOK'
    <3>1. Len(Locks[t]) \in Nat /\ t # "none"
      BY LockLists
    <3>2. taken' = taken
      BY <1>1 DEF Begin
    <3>3. \A v \in Workers : taken'[v] \in 0 .. IF running'[v] = "none" THEN 0
                                                  ELSE Len(Locks[running'[v]])
      <4>1. taken'[w] \in 0 .. Len(Locks[running'[w]]) /\ running'[w] # "none"
        BY <2>1, <3>1
      <4>2. \A v \in Workers \ {w} :
                taken'[v] \in 0 .. IF running'[v] = "none" THEN 0
                                   ELSE Len(Locks[running'[v]])
        BY <2>1 DEF TypeOK
      <4> QED
        BY <4>1, <4>2
    <3> QED
      BY <2>1, <3>2, <3>3 DEF TypeOK
  <2>3. \A v \in Workers : Held(v)' \subseteq Held(v)
    BY <2>1 DEF Held
  <2> QED
    BY <2>2, <2>3, FewerHeld
<1>2. ASSUME NEW w \in Workers, Acquire(w) PROVE IInv'
  <2>1. running[w] \in Transactions /\ Len(Locks[running[w]]) \in Nat /\ taken[w] \in Nat
    BY <1>2, LockLists, HeldLocks DEF Acquire, Waiting, TypeOK
  <2>2. /\ running' = running /\ taken'[w] = taken[w] + 1
        /\ \A v \in Workers \ {w} : taken'[v] = taken[v]
    BY <1>2 DEF Acquire, TypeOK
  <2>3. TypeOK'
    BY <1>2, <2>1, <2>2 DEF TypeOK, Acquire, Waiting
  <2>4. Held(w)' = Held(w) \cup {Wanted(w)}
    <3>1. \A i : i \in 1 .. taken[w] + 1 <=> i \in 1 .. taken[w] \/ i = taken[w] + 1
      BY <2>1
    <3> QED
      BY <2>2, <3>1 DEF Held, Wanted
  <2>5. \A v \in Workers \ {w} : Held(v)' = Held(v)
    BY <2>2 DEF Held
  <2>6. \A v \in Workers \ {w} : \A l \in Held(v) :
            l.row = Wanted(w).row => ~Conflict(l.mode, Wanted(w).mode)
    BY <1>2, HeldLocks DEF Acquire, Blocks
  <2>7. \A m, n : Conflict(m, n) = Conflict(n, m)
    BY DEF Conflict
  <2>8. Compatible'
    BY <2>4, <2>5, <2>6, <2>7 DEF Compatible
  <2> QED
    BY <2>3, <2>8
<1>3. ASSUME NEW w \in Workers, End(w) PROVE IInv'
  <2>1. /\ running' \in [Workers -> Transactions \cup {"none"}]
        /\ running'[w] = "none" /\ taken'[w] = 0
        /\ \A v \in Workers \ {w} : running'[v] = running[v] /\ taken'[v] = taken[v]
    BY <1>3 DEF End, TypeOK
  <2>2. TypeOK'
    <3>1. taken' \in [Workers -> Nat]
      BY <1>3 DEF End, TypeOK
    <3>2. taken'[w] \in 0 .. 0
      BY <2>1
    <3>3. \A v \in Workers \ {w} :
              taken'[v] \in 0 .. IF running'[v] = "none" THEN 0
                                 ELSE Len(Locks[running'[v]])
      BY <2>1 DEF TypeOK
    <3> QED
      BY <2>1, <3>1, <3>2, <3>3 DEF TypeOK
  <2>3. \A v \in Workers : Held(v)' \subseteq Held(v)
    BY <2>1 DEF Held
  <2> QED
    BY <2>2, <2>3, FewerHeld
<1>4. CASE UNCHANGED vars
  BY <1>4 DEF vars, TypeOK, Compatible, Held
<1> QED
  BY <1>1, <1>2, <1>3, <1>4 DEF Next, Arrive, Step, Commit, Fail

\* In a deadlock of transactions in order, each waits for one that wants a later
\* row than it does itself.
LEMMA LaterRowWanted ==
    ASSUME IInv, NEW set \in SUBSET Workers, Deadlocked(set), NEW settling \in BOOLEAN,
           settling = (\E w \in set : running[w] = "settle"),
           \A w \in set : running[w] \notin OutOfOrder,
           settling => \A w \in set : running[w] \notin AgainstSettlement,
           NEW w \in set
    PROVE  \E v \in set : Rank(Wanted(w).row, settling) < Rank(Wanted(v).row, settling)
<1>1. PICK v \in set : Blocks(v, w)
  BY DEF Deadlocked
<1>2. PICK u \in set : Blocks(u, v)
  BY DEF Deadlocked
<1>3. PICK l \in Held(v) : l.row = Wanted(w).row
  BY <1>1 DEF Blocks
<1> DEFINE t == running[v]
           j == taken[v] + 1
<1>4. /\ t \in Transactions \ OutOfOrder /\ taken[v] \in Nat
      /\ Len(Locks[t]) \in Nat /\ taken[v] < Len(Locks[t])
  BY <1>2, LockLists, HeldLocks DEF Blocks, Waiting, IInv, TypeOK
<1>5. PICK i \in 1 .. taken[v] : l = Locks[t][i]
  BY <1>3, HeldLocks DEF IInv
<1>6. i \in Nat \ {0} /\ j \in 1 .. Len(Locks[t]) /\ i < j
  BY <1>4, <1>5
<1>7. CASE /\ Wanted(v).row \in {"client_user", "technician_user"}
           /\ Wanted(v).mode = "key_share"
           /\ \/ t \in AgainstSettlement
              \/ Locks[t][2] = ForUpdate("contract") /\ 2 < j
  <2>1. PICK k \in Held(u) : k.row = Wanted(v).row /\ k.mode = "for_update"
    BY <1>2, <1>7 DEF Blocks, Conflict
  <2>2. u # v /\ running[u] \in Transactions /\ taken[u] \in Nat
        /\ taken[u] <= Len(Locks[running[u]]) /\ Len(Locks[running[u]]) \in Nat
    BY <1>2, LockLists, HeldLocks DEF Blocks, IInv, TypeOK
  <2>3. PICK n \in 1 .. taken[u] : k = Locks[running[u]][n]
    BY <2>1, HeldLocks DEF IInv
  <2>4. running[u] = "settle" /\ 1 \in 1 .. taken[u]
    <3>1. n \in 1 .. Len(Locks[running[u]])
      BY <2>2, <2>3
    <3> QED
      BY <1>7, <2>1, <2>2, <2>3, <3>1, OnlySettlementLocksUsers
  <2>5. ForUpdate("contract") \in Held(u)
    BY <2>4, OnlySettlementLocksUsers DEF Held
  <2>6. settling /\ Locks[t][2] = ForUpdate("contract") /\ 2 < j
    BY <1>7, <2>4
  <2>7. ForUpdate("contract") \in Held(v)
    <3>1. 2 \in 1 .. taken[v]
      BY <1>4, <2>6
    <3> QED
      BY <2>6, <3>1 DEF Held
  <2> QED
    BY <2>2, <2>5, <2>7 DEF IInv, Compatible, Conflict, ForUpdate
<1>8. CASE Rank(Locks[t][i].row, settling) < Rank(Locks[t][j].row, settling)
  BY <1>3, <1>5, <1>8 DEF Wanted
<1>9. /\ settling => t \notin AgainstSettlement
      /\ t = "settle" => settling
  OBVIOUS
<1> QED
  BY <1>4, <1>6, <1>7, <1>8, <1>9, LocksInOrder DEF Wanted

\* So there is none: the ranks end.
LEMMA NoneInOrder == IInv => DeadlocksAreOutOfOrder
<1> SUFFICES ASSUME IInv, NEW set \in SUBSET Workers, Deadlocked(set),
                    \A w \in set : running[w] \notin OutOfOrder,
                    \A v, w \in set :
                        ~ (running[v] = "settle" /\ running[w] \in AgainstSettlement)
             PROVE  FALSE
  BY DEF DeadlocksAreOutOfOrder
<1> DEFINE settling == \E w \in set : running[w] = "settle"
           Left(w) == 13 - Rank(Wanted(w).row, settling)
           T == {Left(w) : w \in set}
<1>1. \A w \in set : Left(w) \in Nat
  <2>1. \A n \in Nat : n <= 13 => 13 - n \in Nat
    OBVIOUS
  <2>2. \A w \in set : /\ Rank(Wanted(w).row, settling) \in Nat
                       /\ Rank(Wanted(w).row, settling) <= 13
    BY Ranked, Zenon
  <2> HIDE DEF settling
  <2> QED
    BY <2>1, <2>2
<1>2. T \in SUBSET Nat /\ T # {}
  BY <1>1 DEF Deadlocked
<1>3. PICK n \in T : \A m \in T : n <= m
  BY <1>2, LeastNumber
<1>4. PICK w \in set : n = Left(w)
  BY <1>3
<1>5. PICK v \in set : Rank(Wanted(w).row, settling) < Rank(Wanted(v).row, settling)
  <2>1. settling \in BOOLEAN /\ (settling => \A x \in set : running[x] \notin AgainstSettlement)
    OBVIOUS
  <2> QED
    BY <2>1, LaterRowWanted
<1>6. Left(v) < Left(w)
  <2>1. \A x, y \in Nat : x < y => 13 - y < 13 - x
    OBVIOUS
  <2>2. Rank(Wanted(v).row, settling) \in Nat /\ Rank(Wanted(w).row, settling) \in Nat
    BY Ranked
  <2> HIDE DEF settling
  <2> QED
    BY <1>5, <2>1, <2>2
<1>7. n <= Left(v)
  BY <1>3
<1>8. Left(v) \in Nat /\ Left(w) \in Nat
  BY <1>1
<1> HIDE DEF settling, Left
<1> QED
  BY <1>4, <1>6, <1>7, <1>8

\* Transactions wait for each other in a cycle only where an activation, a stage
\* approval, a payment confirmation, a rejected completion or an upheld chargeback
\* takes part, or a settlement with a cancellation, a confirmed completion or a
\* withdrawal, for any number of concurrent requests (settle_completed_contract,
\* resolve_dispute, Contract.cancel).
THEOREM DeadlocksOutOfOrder == PlatformSpec => []DeadlocksAreOutOfOrder
<1>1. PlatformInit => IInv
  BY LocksInit DEF PlatformInit
<1>2. IInv /\ [PlatformNext]_<<part, vars, noticeVars>> => IInv'
  <2>1. [PlatformNext]_<<part, vars, noticeVars>> => [Next]_vars
    BY DEF PlatformNext, vars
  <2> QED
    BY <2>1, LocksStep
<1> QED
  BY <1>1, <1>2, NoneInOrder, PTL DEF PlatformSpec

-----------------------------------------------------------------------------
(***************************************************************************)
(* Notifications.                                                          *)
(***************************************************************************)
Transaction ==
    [on : N!Changes, row : {"pending", "inserted", "skipped", "broken"}, others : Nat]

LEMMA BusyTransactions ==
    ASSUME N!TypeOK, NEW w \in Senders, N!Busy(w)
    PROVE  tx[w] \in Transaction
BY DEF N!TypeOK, N!Busy, Transaction

LEMMA NotIdle ==
    /\ N!Idle \notin Transaction
    /\ \A t : t.row \in {"pending", "inserted", "skipped", "broken"} => t # N!Idle
BY DEF N!Idle, Transaction

LEMMA RowCounts ==
    ASSUME N!TypeOK, NEW c \in N!Changes
    PROVE  /\ notices[c] \in [unread : Nat, read : Nat, deleted : Nat, others : Nat]
           /\ N!Rows(c) = notices[c].unread + notices[c].read + notices[c].deleted
           /\ N!Kept(c) = notices[c].unread + notices[c].read
           /\ N!Rows(c) \in Nat /\ N!Kept(c) \in Nat /\ N!Kept(c) <= N!Rows(c)
           /\ N!Others(c) \in Nat
<1>1. notices[c] \in [unread : Nat, read : Nat, deleted : Nat, others : Nat]
  BY DEF N!TypeOK
<1>2. PICK i \in Nat, j \in Nat, k \in Nat :
         notices[c].unread = i /\ notices[c].read = j /\ notices[c].deleted = k
  BY <1>1
<1> QED
  BY <1>1, <1>2 DEF N!Rows, N!Kept, N!Others

LEMMA NoticesInit == N!Init => N!IInv
<1> SUFFICES ASSUME N!Init PROVE N!IInv
  OBVIOUS
<1> USE DEF N!Init
<1>1. N!TypeOK
  BY DEF N!TypeOK, N!NoRows
<1>2. \A c \in N!Changes : N!Rows(c) = 0 /\ N!Kept(c) = 0 /\ notices[c].others = 0
  BY DEF N!Rows, N!Kept, N!NoRows
<1>3. N!PlainNoticesAreAtomic /\ N!OncePerKey
  BY <1>2 DEF N!PlainNoticesAreAtomic, N!OncePerKey, N!Changes
<1>4. N!EventsFollowCommits /\ N!RowsExplained
  BY DEF N!EventsFollowCommits, N!RowsExplained
<1>5. N!PlainIsAlone /\ N!AfterwardsIsAlone /\ N!InsertedIsAlone
  BY DEF N!PlainIsAlone, N!AfterwardsIsAlone, N!InsertedIsAlone, N!Busy
<1> QED
  BY <1>1, <1>3, <1>4, <1>5 DEF N!IInv

\* A transaction that begins, inserts a row, fails or is rolled back.
LEMMA TransactionMoves ==
    ASSUME N!IInv, NEW w \in Senders, NEW t \in {N!Idle} \cup Transaction,
           tx' = [tx EXCEPT ![w] = t], UNCHANGED <<done, notices, wire, seen, task>>,
           t # N!Idle /\ t.on \in Plain =>
               /\ t.on \notin done /\ t.row # "skipped"
               /\ \A v \in Senders \ {w} : N!Busy(v) => tx[v].on # t.on,
           t # N!Idle => t.on \notin Detached,
           t # N!Idle /\ t.on \in Keyed /\ t.row = "inserted" =>
               /\ N!Kept(t.on) = 0
               /\ \A v \in Senders \ {w} :
                     N!Busy(v) /\ tx[v].on = t.on => tx[v].row # "inserted"
    PROVE  N!IInv'
<1>1. /\ tx'[w] = t
      /\ \A v \in Senders \ {w} : tx'[v] = tx[v]
  BY DEF N!IInv, N!TypeOK
<1>2. N!TypeOK'
  BY DEF N!IInv, N!TypeOK, Transaction
<1>3. N!PlainIsAlone'
  <2> SUFFICES ASSUME NEW u \in Senders, N!Busy(u)', tx'[u].on \in Plain
               PROVE  /\ tx'[u].on \notin done' /\ tx'[u].row # "skipped"
                      /\ \A v \in Senders :
                            N!Busy(v)' /\ tx'[v].on = tx'[u].on => v = u
    BY DEF N!PlainIsAlone
  <2>1. CASE u = w
    BY <1>1, <2>1 DEF N!Busy
  <2>2. CASE u # w
    <3>1. N!Busy(u) /\ tx'[u] = tx[u]
      BY <1>1, <2>2 DEF N!Busy
    <3>2. N!Busy(w)' => tx'[w].on # tx[u].on
      BY <1>1, <2>2, <3>1 DEF N!Busy
    <3> QED
      BY <1>1, <3>1, <3>2 DEF N!IInv, N!PlainIsAlone, N!Busy
  <2> QED
    BY <2>1, <2>2
<1>4. N!InsertedIsAlone'
  <2>0. \A c : N!Kept(c)' = N!Kept(c)
    BY DEF N!Kept
  <2> SUFFICES ASSUME NEW u \in Senders, N!Busy(u)', tx'[u].on \in Keyed,
                      tx'[u].row = "inserted"
               PROVE  /\ N!Kept(tx'[u].on) = 0
                      /\ \A v \in Senders :
                            N!Busy(v)' /\ tx'[v].on = tx'[u].on /\ tx'[v].row = "inserted"
                                => v = u
    BY <2>0 DEF N!InsertedIsAlone, N!Kept
  <2>1. CASE u = w
    BY <1>1, <2>1 DEF N!Busy
  <2>2. CASE u # w
    <3>1. N!Busy(u) /\ tx'[u] = tx[u]
      BY <1>1, <2>2 DEF N!Busy
    <3>2. N!Busy(w)' /\ tx'[w].on = tx[u].on => tx'[w].row # "inserted"
      BY <1>1, <2>2, <3>1 DEF N!Busy
    <3> QED
      BY <1>1, <3>1, <3>2 DEF N!IInv, N!InsertedIsAlone, N!Busy
  <2> QED
    BY <2>1, <2>2
<1>5. N!PlainNoticesAreAtomic' /\ N!OncePerKey'
  BY DEF N!IInv, N!PlainNoticesAreAtomic, N!OncePerKey, N!Rows, N!Kept
<1>6. N!EventsFollowCommits' /\ N!RowsExplained'
  BY DEF N!IInv, N!EventsFollowCommits, N!RowsExplained
<1>7. N!AfterwardsIsAlone'
  <2> SUFFICES ASSUME NEW u \in Senders, NEW d, N!Busy(u)', tx'[u].on = d, d \in Detached
               PROVE  /\ d \in done' /\ tx'[u].row = "pending" /\ N!Rows(d)' = 0
                      /\ \A v \in Senders : N!Busy(v)' /\ tx'[v].on = d => v = u
    BY DEF N!AfterwardsIsAlone, N!Rows
  <2>1. u # w /\ N!Busy(u) /\ tx'[u] = tx[u] /\ done' = done
    BY <1>1 DEF N!Busy
  <2>2. /\ tx[u].on \in done /\ tx[u].row = "pending" /\ N!Rows(tx[u].on) = 0
        /\ \A v \in Senders : N!Busy(v) /\ tx[v].on = tx[u].on => v = u
    BY <2>1 DEF N!IInv, N!AfterwardsIsAlone
  <2>3. N!Rows(d)' = 0
    BY <2>1, <2>2 DEF N!Rows
  <2>4. ASSUME NEW v \in Senders, N!Busy(v)', tx'[v].on = d PROVE v = u
    <3>1. v # w
      BY <1>1, <2>4 DEF N!Busy
    <3>2. tx'[v] = tx[v] /\ N!Busy(v)
      BY <1>1, <2>4, <3>1 DEF N!Busy
    <3> QED
      BY <2>1, <2>2, <2>4, <3>2
  <2> QED
    BY <2>1, <2>2, <2>3, <2>4
<1> QED
  BY <1>2, <1>3, <1>4, <1>5, <1>6, <1>7 DEF N!IInv

\* Rows that are read, unread or cleaned up are as many as before.
LEMMA RowsMove ==
    ASSUME N!IInv, UNCHANGED <<done, tx, wire, seen, task>>, N!TypeOK',
           \A c \in N!Changes :
               /\ notices'[c].others = notices[c].others
               /\ N!Rows(c)' = N!Rows(c) /\ N!Kept(c)' <= N!Kept(c)
    PROVE  N!IInv'
<1>1. \A c \in N!Changes : N!Kept(c)' \in Nat /\ N!Kept(c) \in Nat
  <2> SUFFICES ASSUME NEW c \in N!Changes PROVE N!Kept(c)' \in Nat /\ N!Kept(c) \in Nat
    OBVIOUS
  <2>1. N!Kept(c) \in Nat
    BY RowCounts DEF N!IInv
  <2>2. notices'[c] \in [unread : Nat, read : Nat, deleted : Nat, others : Nat]
    BY DEF N!TypeOK
  <2>3. notices'[c].unread \in Nat /\ notices'[c].read \in Nat
    BY <2>2
  <2> QED
    BY <2>1, <2>3 DEF N!Kept
<1>2. N!PlainNoticesAreAtomic'
  BY DEF N!IInv, N!PlainNoticesAreAtomic
<1>3. N!OncePerKey'
  <2> SUFFICES ASSUME NEW c \in Keyed PROVE N!Kept(c)' <= 1
    BY DEF N!OncePerKey
  <2>1. c \in N!Changes /\ N!Kept(c) <= 1 /\ N!Kept(c)' <= N!Kept(c)
    BY DEF N!IInv, N!OncePerKey, N!Changes
  <2> QED
    BY <1>1, <2>1
<1>4. N!PlainIsAlone' /\ N!EventsFollowCommits' /\ N!RowsExplained'
  BY DEF N!IInv, N!PlainIsAlone, N!EventsFollowCommits, N!RowsExplained, N!Busy
<1>5. N!InsertedIsAlone'
  <2> SUFFICES ASSUME NEW u \in Senders, N!Busy(u), tx[u].on \in Keyed,
                      tx[u].row = "inserted"
               PROVE  /\ N!Kept(tx[u].on)' = 0
                      /\ \A v \in Senders :
                            N!Busy(v) /\ tx[v].on = tx[u].on /\ tx[v].row = "inserted"
                                => v = u
    BY DEF N!InsertedIsAlone, N!Busy, N!Kept
  <2>1. N!Kept(tx[u].on) = 0 /\ tx[u].on \in N!Changes
    BY DEF N!IInv, N!InsertedIsAlone, N!Changes
  <2>2. N!Kept(tx[u].on)' <= N!Kept(tx[u].on)
    BY <2>1
  <2>3. N!Kept(tx[u].on)' = 0
    BY <1>1, <2>1, <2>2
  <2> QED
    BY <2>3 DEF N!IInv, N!InsertedIsAlone
<1>6. N!AfterwardsIsAlone'
  <2> SUFFICES ASSUME NEW u \in Senders, N!Busy(u), tx[u].on \in Detached
               PROVE  /\ tx[u].on \in done /\ tx[u].row = "pending"
                      /\ N!Rows(tx[u].on)' = 0
                      /\ \A v \in Senders : N!Busy(v) /\ tx[v].on = tx[u].on => v = u
    BY DEF N!AfterwardsIsAlone, N!Busy, N!Rows
  <2>1. tx[u].on \in N!Changes
    BY DEF N!Changes
  <2> QED
    BY <2>1 DEF N!IInv, N!AfterwardsIsAlone
<1> QED
  BY <1>2, <1>3, <1>4, <1>5, <1>6 DEF N!IInv

\* The steps of a transaction before its commit.
LEMMA TransactionSteps ==
    ASSUME N!IInv, NEW w \in Senders,
           \/ \E c \in Plain : N!BeginPlain(w, c)
           \/ \E c \in Keyed : N!BeginKeyed(w, c)
           \/ N!CreateNotification(w) \/ N!NotifyOther(w)
           \/ N!CreateNotificationOnce(w) \/ N!RollBack(w)
    PROVE  N!IInv'
<1> USE DEF N!IInv
<1>1. ASSUME NEW c \in N!Changes, N!BeginChange(w, c), c \notin Detached,
             c \in Plain => c \notin done /\ N!Open(c) = {}
      PROVE  N!IInv'
  <2> DEFINE t == [on |-> c, row |-> "pending", others |-> 0]
  <2>1. t \in Transaction /\ t.on = c /\ t.row = "pending"
    BY DEF Transaction
  <2>2. /\ tx' = [tx EXCEPT ![w] = t]
        /\ UNCHANGED <<done, notices, wire, seen, task>>
    BY <1>1 DEF N!BeginChange
  <2>3. c \in Plain => \A v \in Senders \ {w} : N!Busy(v) => tx[v].on # c
    BY <1>1 DEF N!Open
  <2> HIDE DEF t
  <2> QED
    BY <1>1, <2>1, <2>2, <2>3, TransactionMoves
<1>2. ASSUME N!Busy(w), NEW t \in Transaction, tx' = [tx EXCEPT ![w] = t],
             UNCHANGED <<done, notices, wire, seen, task>>,
             t.on = tx[w].on, t.on \notin Detached,
             t.row = "skipped" => t.on \in Keyed,
             t.row = "inserted" =>
                 tx[w].row = "inserted" \/ t.on \in Plain \/ N!KeyFree(w)
      PROVE  N!IInv'
  <2>1. t.on \in Plain =>
           /\ t.on \notin done /\ t.row # "skipped"
           /\ \A v \in Senders \ {w} : N!Busy(v) => tx[v].on # t.on
    BY <1>2, ChangesAssumption DEF N!PlainIsAlone
  <2>2. ASSUME t.on \in Keyed, t.row = "inserted"
        PROVE  /\ N!Kept(t.on) = 0
               /\ \A v \in Senders \ {w} :
                     N!Busy(v) /\ tx[v].on = t.on => tx[v].row # "inserted"
    <3>1. CASE tx[w].row = "inserted"
      BY <1>2, <2>2, <3>1 DEF N!InsertedIsAlone
    <3>2. CASE N!KeyFree(w)
      BY <1>2, <2>2, <3>2 DEF N!KeyFree, N!Open
    <3> QED
      BY <1>2, <2>2, <3>1, <3>2, ChangesAssumption
  <2> QED
    BY <1>2, <2>1, <2>2, TransactionMoves
<1>3. ASSUME N!Busy(w), NEW row \in {"inserted", "skipped", "broken"}, N!Inserted(w, row),
             row = "skipped" => tx[w].on \in Keyed,
             row = "inserted" => tx[w].on \in Plain \/ N!KeyFree(w),
             tx[w].on \notin Detached
      PROVE  N!IInv'
  <2>1. tx[w] \in Transaction
    BY <1>3, BusyTransactions
  <2>2. PICK t : t = [tx[w] EXCEPT !.row = row]
    OBVIOUS
  <2>3. t \in Transaction /\ t.on = tx[w].on /\ t.row = row
    BY <2>1, <2>2 DEF Transaction
  <2>4. tx' = [tx EXCEPT ![w] = t]
    BY <1>3, <2>2 DEF N!Inserted
  <2>5. UNCHANGED <<done, notices, wire, seen, task>>
    BY <1>3 DEF N!Inserted, N!SentOnCommit
  <2> QED
    BY <1>2, <1>3, <2>3, <2>4, <2>5
<1>4. CASE \E c \in Plain : N!BeginPlain(w, c)
  BY <1>1, <1>4, ChangesAssumption DEF N!BeginPlain, N!Changes
<1>5. CASE \E c \in Keyed : N!BeginKeyed(w, c)
  BY <1>1, <1>5, ChangesAssumption DEF N!BeginKeyed, N!Changes
<1>6. CASE N!CreateNotification(w)
  <2>1. N!Busy(w)
    BY <1>6, NotIdle DEF N!CreateNotification, N!Busy
  <2> QED
    BY <1>3, <1>6, <2>1, ChangesAssumption DEF N!CreateNotification, N!AfterFailedInsert
<1>7. CASE N!CreateNotificationOnce(w)
  <2>1. N!Busy(w)
    BY <1>7, NotIdle DEF N!CreateNotificationOnce, N!Busy
  <2> QED
    BY <1>3, <1>7, <2>1, ChangesAssumption DEF N!CreateNotificationOnce
<1>8. CASE N!NotifyOther(w)
  <2>1. N!Busy(w) /\ tx[w].row \in {"pending", "inserted"}
    BY <1>8, NotIdle DEF N!NotifyOther, N!Busy
  <2>2. tx[w] \in Transaction /\ tx[w].on \notin Detached
    <3>1. tx[w] \in Transaction
      BY <2>1, BusyTransactions
    <3>2. CASE tx[w].on \in Plain
      BY <3>1, <3>2, ChangesAssumption
    <3>3. CASE tx[w].on \notin Plain
      BY <1>8, <3>1, <3>3 DEF N!NotifyOther, N!Others, Transaction
    <3> QED
      BY <3>2, <3>3
  <2>3. CASE tx' = [tx EXCEPT ![w].others = @ + 1]
    <3>1. PICK t : t = [tx[w] EXCEPT !.others = @ + 1]
      OBVIOUS
    <3>2. t \in Transaction /\ t.on = tx[w].on /\ t.row = tx[w].row
      BY <2>2, <3>1 DEF Transaction
    <3>3. tx' = [tx EXCEPT ![w] = t]
      BY <2>3, <3>1
    <3> QED
      BY <1>2, <1>8, <2>1, <2>2, <3>2, <3>3 DEF N!NotifyOther
  <2>4. CASE tx' = [tx EXCEPT ![w].row = N!AfterFailedInsert]
    <3>1. PICK t : t = [tx[w] EXCEPT !.row = "broken"]
      OBVIOUS
    <3>2. t \in Transaction /\ t.on = tx[w].on /\ t.row = "broken"
      BY <2>2, <3>1 DEF Transaction
    <3>3. tx' = [tx EXCEPT ![w] = t]
      BY <2>4, <3>1 DEF N!AfterFailedInsert
    <3> QED
      BY <1>2, <1>8, <2>1, <2>2, <3>2, <3>3 DEF N!NotifyOther
  <2> QED
    BY <1>8, <2>3, <2>4 DEF N!NotifyOther
<1>9. CASE N!RollBack(w)
  BY <1>9, TransactionMoves DEF N!RollBack
<1> QED
  BY <1>4, <1>5, <1>6, <1>7, <1>8, <1>9

\* A commit adds the row of its change, if it inserted one.
LEMMA CommitKeeps ==
    ASSUME N!IInv, NEW w \in Senders, NEW c, c = tx[w].on, N!Commit(w)
    PROVE  N!IInv'
<1> USE DEF N!IInv
<1>1. N!Busy(w) /\ tx[w] \in Transaction
  <2>1. N!Busy(w)
    BY NotIdle DEF N!Commit, N!Busy
  <2> QED
    BY <2>1, BusyTransactions
<1>2. /\ c \in N!Changes /\ tx[w].others = N!Others(c)
      /\ tx[w].row \in {"inserted", "skipped"}
      /\ done' = done \cup {c} /\ tx' = [tx EXCEPT ![w] = N!Idle]
      /\ seen' = seen /\ task' = task
  BY <1>1 DEF N!Commit, Transaction
<1>3. /\ N!Busy(w)' = FALSE
      /\ \A v \in Senders \ {w} : tx'[v] = tx[v] /\ N!Busy(v)' = N!Busy(v)
  BY <1>2 DEF N!TypeOK, N!Busy
<1>4. /\ \A d \in N!Changes \ {c} :
            notices'[d] = notices[d] /\ N!Rows(d)' = N!Rows(d) /\ N!Kept(d)' = N!Kept(d)
      /\ notices' \in [N!Changes -> [unread : Nat, read : Nat, deleted : Nat, others : Nat]]
      /\ tx[w].row = "inserted" =>
            /\ N!Rows(c)' = N!Rows(c) + 1 /\ N!Kept(c)' = N!Kept(c) + 1
            /\ notices'[c].others = notices[c].others + N!Others(c)
            /\ wire' = wire \cup {c}
      /\ tx[w].row = "skipped" => notices' = notices /\ wire' = wire
  <2>1. CASE tx[w].row = "inserted"
    <3>1. PICK new : new = [notices[c] EXCEPT !.unread = @ + 1,
                                              !.others = @ + N!Others(c)]
      OBVIOUS
    <3>2. notices' = [notices EXCEPT ![c] = new] /\ wire' = wire \cup {c}
      BY <1>2, <2>1, <3>1 DEF N!Commit
    <3>3. /\ notices[c] \in [unread : Nat, read : Nat, deleted : Nat, others : Nat]
          /\ N!Others(c) \in Nat
      BY <1>2, RowCounts
    <3>4. PICK i \in Nat, j \in Nat, k \in Nat, o \in Nat :
             notices[c] = [unread |-> i, read |-> j, deleted |-> k, others |-> o]
      BY <3>3
    <3>5. new = [unread |-> i + 1, read |-> j, deleted |-> k, others |-> o + N!Others(c)]
      <4>1. notices[c].unread = i /\ notices[c].others = o
        BY <3>4
      <4>2. new = [notices[c] EXCEPT !.unread = i + 1, !.others = o + N!Others(c)]
        BY <3>1, <4>1, Zenon
      <4>3. PICK r : r = [unread |-> i, read |-> j, deleted |-> k, others |-> o]
        OBVIOUS
      <4>4. new = [r EXCEPT !.unread = i + 1, !.others = o + N!Others(c)]
        BY <3>4, <4>2, <4>3
      <4> QED
        BY <4>3, <4>4
    <3>6. new \in [unread : Nat, read : Nat, deleted : Nat, others : Nat]
      BY <3>3, <3>5
    <3>7. /\ notices'[c] = new
          /\ \A d \in N!Changes \ {c} : notices'[d] = notices[d]
          /\ notices' \in [N!Changes -> [unread : Nat, read : Nat, deleted : Nat, others : Nat]]
      BY <1>2, <3>2, <3>6 DEF N!TypeOK
    <3>8. N!Rows(c) = i + j + k /\ N!Kept(c) = i + j /\ notices[c].others = o
      BY <3>4 DEF N!Rows, N!Kept
    <3>9. /\ notices'[c].unread = i + 1 /\ notices'[c].read = j
          /\ notices'[c].deleted = k /\ notices'[c].others = o + N!Others(c)
      BY <3>5, <3>7
    <3>10. N!Rows(c)' = (i + 1) + j + k /\ N!Kept(c)' = (i + 1) + j
      BY <3>9 DEF N!Rows, N!Kept
    <3>11. N!Rows(c)' = N!Rows(c) + 1 /\ N!Kept(c)' = N!Kept(c) + 1
      BY <3>8, <3>10
    <3>12. \A d \in N!Changes \ {c} : N!Rows(d)' = N!Rows(d) /\ N!Kept(d)' = N!Kept(d)
      BY <3>7 DEF N!Rows, N!Kept
    <3> QED
      BY <2>1, <3>2, <3>7, <3>8, <3>9, <3>11, <3>12
  <2>2. CASE tx[w].row = "skipped"
    BY <2>2 DEF N!Commit, N!TypeOK, N!Rows, N!Kept
  <2> QED
    BY <1>2, <2>1, <2>2
<1>5. N!TypeOK'
  BY <1>2, <1>4 DEF N!TypeOK
<1>6. c \in Plain => /\ c \notin done /\ tx[w].row = "inserted"
                     /\ \A v \in Senders \ {w} : N!Busy(v) => tx[v].on # c
  BY <1>1, <1>2 DEF N!PlainIsAlone
<1>7. c \in Keyed /\ tx[w].row = "inserted" =>
         /\ N!Kept(c) = 0
         /\ \A v \in Senders \ {w} :
               N!Busy(v) /\ tx[v].on = c => tx[v].row # "inserted"
  BY <1>1 DEF N!InsertedIsAlone
<1>8. c \notin done => N!Rows(c) = 0 /\ notices[c].others = 0
  <2>1. /\ notices[c].others \in Nat /\ N!Rows(c) \in Nat
        /\ N!Rows(c) + notices[c].others > 0 => c \in done
    BY <1>2, RowCounts DEF N!PlainNoticesAreAtomic
  <2> QED
    BY <2>1
<1>0. c \notin Detached
  BY <1>1, <1>2 DEF N!AfterwardsIsAlone
<1>9. N!PlainNoticesAreAtomic'
  <2> SUFFICES ASSUME NEW d \in N!Changes
               PROVE  /\ N!Rows(d)' + notices'[d].others > 0 => d \in done'
                      /\ d \in Plain /\ d \in done' =>
                            N!Rows(d)' = 1 /\ notices'[d].others = N!Others(d)
                      /\ d \in Detached => N!Rows(d)' <= 1
    BY DEF N!PlainNoticesAreAtomic
  <2>1. CASE d = c
    <3>1. c \in Plain => N!Rows(c)' = 1 /\ notices'[c].others = N!Others(c)
      BY <1>2, <1>4, <1>6, <1>8, RowCounts
    <3>2. N!Rows(d)' = N!Rows(c)' /\ N!Others(d) = N!Others(c)
      BY <2>1 DEF N!Rows, N!Others
    <3> QED
      BY <1>0, <1>2, <2>1, <3>1, <3>2
  <2>2. CASE d # c
    BY <1>2, <1>4, <2>2 DEF N!PlainNoticesAreAtomic
  <2> QED
    BY <2>1, <2>2
<1>10. N!OncePerKey'
  <2> SUFFICES ASSUME NEW d \in Keyed PROVE N!Kept(d)' <= 1
    BY DEF N!OncePerKey
  <2>1. d \in N!Changes /\ N!Kept(d) <= 1
    BY DEF N!OncePerKey, N!Changes
  <2>2. CASE d = c /\ tx[w].row = "inserted"
    <3>1. N!Kept(d)' = N!Kept(c)'
      BY <2>2 DEF N!Kept
    <3> QED
      BY <1>4, <1>7, <2>2, <3>1
  <2>3. CASE d = c /\ tx[w].row = "skipped"
    BY <1>4, <2>1, <2>3 DEF N!Kept
  <2>4. CASE d # c
    <3>1. N!Kept(d)' = N!Kept(d)
      BY <1>4, <2>1, <2>4
    <3> QED
      BY <2>1, <3>1
  <2> QED
    BY <1>2, <2>2, <2>3, <2>4
<1>11. N!EventsFollowCommits' /\ N!RowsExplained'
  BY <1>2, <1>4 DEF N!EventsFollowCommits, N!RowsExplained
<1>12. N!PlainIsAlone'
  BY <1>2, <1>3, <1>6 DEF N!PlainIsAlone
<1>13. N!InsertedIsAlone'
  <2> SUFFICES ASSUME NEW u \in Senders, NEW d, N!Busy(u)', tx'[u].on = d, d \in Keyed,
                      tx'[u].row = "inserted"
               PROVE  /\ N!Kept(d)' = 0
                      /\ \A v \in Senders :
                            N!Busy(v)' /\ tx'[v].on = d /\ tx'[v].row = "inserted" => v = u
    BY DEF N!InsertedIsAlone, N!Kept
  <2>1. u # w /\ tx'[u] = tx[u] /\ N!Busy(u) /\ d \in N!Changes
    BY <1>3 DEF N!Changes
  <2>2. N!Kept(d) = 0
    BY <2>1 DEF N!InsertedIsAlone
  <2>3. \A v \in Senders : N!Busy(v)' /\ tx'[v].on = d /\ tx'[v].row = "inserted" => v = u
    BY <1>3, <2>1 DEF N!InsertedIsAlone
  <2>4. CASE d # c
    BY <1>4, <2>1, <2>2, <2>3, <2>4
  <2>5. CASE d = c
    <3>1. tx[w].row = "skipped"
      BY <1>2, <1>7, <2>1, <2>5
    <3>2. N!Kept(d)' = N!Kept(d)
      BY <1>4, <3>1 DEF N!Kept
    <3> QED
      BY <2>2, <2>3, <3>2
  <2> QED
    BY <2>4, <2>5
<1>14. N!AfterwardsIsAlone'
  <2> SUFFICES ASSUME NEW u \in Senders, NEW d, N!Busy(u)', tx'[u].on = d, d \in Detached
               PROVE  /\ d \in done' /\ tx'[u].row = "pending" /\ N!Rows(d)' = 0
                      /\ \A v \in Senders : N!Busy(v)' /\ tx'[v].on = d => v = u
    BY DEF N!AfterwardsIsAlone, N!Rows
  <2>1. u # w /\ tx'[u] = tx[u] /\ N!Busy(u)
    BY <1>3
  <2>2. /\ tx[u].on \in done /\ tx[u].row = "pending" /\ N!Rows(tx[u].on) = 0
        /\ \A v \in Senders : N!Busy(v) /\ tx[v].on = tx[u].on => v = u
    BY <2>1 DEF N!AfterwardsIsAlone
  <2>3. d \in N!Changes \ {c}
    BY <1>0, <2>1 DEF N!Changes
  <2>4. N!Rows(d)' = 0
    BY <1>4, <2>1, <2>2, <2>3
  <2> QED
    BY <1>2, <1>3, <2>1, <2>2, <2>4
<1> QED
  BY <1>5, <1>9, <1>10, <1>11, <1>12, <1>13, <1>14

\* A change is made first, in no transaction with its notice.
LEMMA ChangeFirstKeeps ==
    ASSUME N!IInv, NEW w \in Senders, NEW c \in Detached, N!ChangeFirst(w, c)
    PROVE  N!IInv'
<1> USE DEF N!IInv
<1> DEFINE t == [on |-> c, row |-> "pending", others |-> 0]
<1>1. /\ tx' = [tx EXCEPT ![w] = t] /\ done' = done \cup {c} /\ c \notin done
      /\ UNCHANGED <<notices, wire, seen, task>> /\ tx[w] = N!Idle
  BY DEF N!ChangeFirst
<1>2. /\ t \in Transaction /\ t.on = c /\ t.row = "pending"
      /\ c \in N!Changes /\ c \notin Plain /\ c \notin Keyed
  BY ChangesAssumption DEF Transaction, N!Changes
<1> HIDE DEF t
<1>3. /\ tx'[w] = t
      /\ \A v \in Senders \ {w} : tx'[v] = tx[v] /\ N!Busy(v)' = N!Busy(v)
  BY <1>1 DEF N!TypeOK, N!Busy
<1>4. N!TypeOK'
  BY <1>1, <1>2 DEF N!TypeOK, Transaction
<1>5. \A d : N!Rows(d)' = N!Rows(d) /\ N!Kept(d)' = N!Kept(d)
  BY <1>1 DEF N!Rows, N!Kept
<1>6. N!Rows(c) = 0
  <2>1. /\ notices[c].others \in Nat /\ N!Rows(c) \in Nat
        /\ N!Rows(c) + notices[c].others > 0 => c \in done
    BY <1>2, RowCounts DEF N!PlainNoticesAreAtomic
  <2> QED
    BY <1>1, <2>1
<1>7. N!PlainNoticesAreAtomic' /\ N!OncePerKey'
  BY <1>1, <1>2, <1>5 DEF N!PlainNoticesAreAtomic, N!OncePerKey
<1>8. N!EventsFollowCommits' /\ N!RowsExplained'
  BY <1>1 DEF N!EventsFollowCommits, N!RowsExplained
<1>9. \A v \in Senders \ {w} : N!Busy(v) /\ tx[v].on \in Detached => tx[v].on # c
  BY <1>1 DEF N!AfterwardsIsAlone
<1>10. N!PlainIsAlone'
  <2> SUFFICES ASSUME NEW u \in Senders, N!Busy(u)', tx'[u].on \in Plain
               PROVE  /\ tx'[u].on \notin done' /\ tx'[u].row # "skipped"
                      /\ \A v \in Senders :
                            N!Busy(v)' /\ tx'[v].on = tx'[u].on => v = u
    BY DEF N!PlainIsAlone
  <2>1. u # w /\ tx'[u] = tx[u] /\ N!Busy(u) /\ tx[u].on # c
    BY <1>2, <1>3
  <2>2. /\ tx[u].on \notin done /\ tx[u].row # "skipped"
        /\ \A v \in Senders : N!Busy(v) /\ tx[v].on = tx[u].on => v = u
    BY <2>1 DEF N!PlainIsAlone
  <2> QED
    BY <1>1, <1>2, <1>3, <2>1, <2>2
<1>11. N!AfterwardsIsAlone'
  <2> SUFFICES ASSUME NEW u \in Senders, N!Busy(u)', tx'[u].on \in Detached
               PROVE  /\ tx'[u].on \in done' /\ tx'[u].row = "pending"
                      /\ N!Rows(tx'[u].on) = 0
                      /\ \A v \in Senders :
                            N!Busy(v)' /\ tx'[v].on = tx'[u].on => v = u
    BY <1>5 DEF N!AfterwardsIsAlone
  <2>1. CASE u = w
    BY <1>1, <1>2, <1>3, <1>6, <1>9, <2>1
  <2>2. CASE u # w
    <3>1. /\ tx'[u] = tx[u] /\ N!Busy(u)
          /\ tx[u].on \in done /\ tx[u].row = "pending" /\ N!Rows(tx[u].on) = 0
          /\ \A v \in Senders : N!Busy(v) /\ tx[v].on = tx[u].on => v = u
      BY <1>3, <2>2 DEF N!AfterwardsIsAlone
    <3> QED
      BY <1>1, <1>2, <1>3, <2>2, <3>1
  <2> QED
    BY <2>1, <2>2
<1>12. N!InsertedIsAlone'
  <2> SUFFICES ASSUME NEW u \in Senders, N!Busy(u)', tx'[u].on \in Keyed,
                      tx'[u].row = "inserted"
               PROVE  /\ N!Kept(tx'[u].on) = 0
                      /\ \A v \in Senders :
                            N!Busy(v)' /\ tx'[v].on = tx'[u].on /\ tx'[v].row = "inserted"
                                => v = u
    BY <1>5 DEF N!InsertedIsAlone
  <2>1. u # w /\ tx'[u] = tx[u] /\ N!Busy(u)
    BY <1>2, <1>3
  <2> QED
    BY <1>2, <1>3, <2>1 DEF N!InsertedIsAlone
<1> QED
  BY <1>4, <1>7, <1>8, <1>10, <1>11, <1>12

\* Its notice is inserted, or is lost.
LEMMA NotifyAfterwardsKeeps ==
    ASSUME N!IInv, NEW w \in Senders, NEW c, c = tx[w].on, N!NotifyAfterwards(w)
    PROVE  N!IInv'
<1> USE DEF N!IInv
<1>1. /\ c \in Detached /\ tx' = [tx EXCEPT ![w] = N!Idle]
      /\ UNCHANGED <<done, seen, task>> /\ c \in N!Changes
      /\ c \notin Plain /\ c \notin Keyed
  BY ChangesAssumption DEF N!NotifyAfterwards, N!Changes
<1>2. CASE N!Busy(w)
  <2>1. c \in done /\ N!Rows(c) = 0
    BY <1>1, <1>2 DEF N!AfterwardsIsAlone
  <2>2. /\ N!Busy(w)' = FALSE
        /\ \A v \in Senders \ {w} : tx'[v] = tx[v] /\ N!Busy(v)' = N!Busy(v)
    BY <1>1 DEF N!TypeOK, N!Busy
  <2>3. /\ notices' \in [N!Changes -> [unread : Nat, read : Nat, deleted : Nat, others : Nat]]
        /\ \A d \in N!Changes \ {c} :
              notices'[d] = notices[d] /\ N!Rows(d)' = N!Rows(d) /\ N!Kept(d)' = N!Kept(d)
        /\ notices'[c].others = notices[c].others
        /\ N!Rows(c)' \in 0 .. 1
        /\ wire' \subseteq wire \cup {c}
    <3>1. CASE notices' = notices /\ wire' = wire
      BY <2>1, <3>1 DEF N!TypeOK, N!Rows, N!Kept
    <3>2. CASE /\ notices' = [notices EXCEPT ![c].unread = @ + 1]
               /\ wire' = wire \cup {c}
      <4>1. PICK i \in Nat, j \in Nat, k \in Nat, o \in Nat :
               notices[c] = [unread |-> i, read |-> j, deleted |-> k, others |-> o]
        BY <1>1, RowCounts
      <4>0. PICK new : new = [notices[c] EXCEPT !.unread = @ + 1]
        OBVIOUS
      <4>3. notices' = [notices EXCEPT ![c] = new]
        BY <3>2, <4>0
      <4>2. new = [unread |-> i + 1, read |-> j, deleted |-> k, others |-> o]
        BY <4>0, <4>1
      <4>4. new \in [unread : Nat, read : Nat, deleted : Nat, others : Nat]
        BY <4>2
      <4>5. /\ notices'[c] = new
            /\ \A d \in N!Changes \ {c} : notices'[d] = notices[d]
            /\ notices' \in [N!Changes -> [unread : Nat, read : Nat, deleted : Nat, others : Nat]]
        BY <1>1, <4>3, <4>4 DEF N!TypeOK
      <4>6. N!Rows(c) = i + j + k /\ notices[c].others = o
        BY <4>1 DEF N!Rows
      <4>7. /\ notices'[c].unread = i + 1 /\ notices'[c].read = j
            /\ notices'[c].deleted = k /\ notices'[c].others = o
        BY <4>2, <4>5
      <4>8. N!Rows(c)' = (i + 1) + j + k
        BY <4>7 DEF N!Rows
      <4>9. N!Rows(c)' \in 0 .. 1
        BY <2>1, <4>6, <4>8
      <4>10. \A d \in N!Changes \ {c} : N!Rows(d)' = N!Rows(d) /\ N!Kept(d)' = N!Kept(d)
        BY <4>5 DEF N!Rows, N!Kept
      <4> QED
        BY <3>2, <4>5, <4>6, <4>7, <4>9, <4>10
    <3> QED
      BY <3>1, <3>2 DEF N!NotifyAfterwards
  <2>4. N!TypeOK'
    BY <1>1, <2>3 DEF N!TypeOK
  <2>5. N!PlainNoticesAreAtomic'
    <3> SUFFICES ASSUME NEW d \in N!Changes
                 PROVE  /\ N!Rows(d)' + notices'[d].others > 0 => d \in done
                        /\ d \in Plain /\ d \in done =>
                              N!Rows(d)' = 1 /\ notices'[d].others = N!Others(d)
                        /\ d \in Detached => N!Rows(d)' <= 1
      BY <1>1 DEF N!PlainNoticesAreAtomic
    <3>1. CASE d = c
      <4>1. N!Rows(d)' = N!Rows(c)'
        BY <3>1 DEF N!Rows
      <4> QED
        BY <1>1, <2>1, <2>3, <3>1, <4>1
    <3>2. CASE d # c
      BY <2>3, <3>2 DEF N!PlainNoticesAreAtomic
    <3> QED
      BY <3>1, <3>2
  <2>6. N!OncePerKey'
    <3> SUFFICES ASSUME NEW d \in Keyed PROVE N!Kept(d)' <= 1
      BY DEF N!OncePerKey
    <3>1. d \in N!Changes \ {c} /\ N!Kept(d) <= 1
      BY <1>1 DEF N!OncePerKey, N!Changes
    <3> QED
      BY <2>3, <3>1
  <2>7. N!EventsFollowCommits' /\ N!RowsExplained'
    BY <1>1, <2>1, <2>3 DEF N!EventsFollowCommits, N!RowsExplained
  <2>8. N!PlainIsAlone'
    BY <1>1, <2>2 DEF N!PlainIsAlone
  <2>9. N!AfterwardsIsAlone'
    <3> SUFFICES ASSUME NEW u \in Senders, NEW d, N!Busy(u)', tx'[u].on = d,
                        d \in Detached
                 PROVE  /\ d \in done' /\ tx'[u].row = "pending" /\ N!Rows(d)' = 0
                        /\ \A v \in Senders : N!Busy(v)' /\ tx'[v].on = d => v = u
      BY DEF N!AfterwardsIsAlone, N!Rows
    <3>1. u # w /\ tx'[u] = tx[u] /\ N!Busy(u)
      BY <2>2
    <3>2. /\ tx[u].on \in done /\ tx[u].row = "pending" /\ N!Rows(tx[u].on) = 0
          /\ \A v \in Senders : N!Busy(v) /\ tx[v].on = tx[u].on => v = u
      BY <3>1 DEF N!AfterwardsIsAlone
    <3>3. d \in N!Changes \ {c}
      BY <1>2, <3>1, <3>2 DEF N!Changes
    <3>4. N!Rows(d)' = 0
      BY <2>3, <3>1, <3>2, <3>3
    <3> QED
      BY <1>1, <2>2, <3>1, <3>2, <3>4
  <2>10. N!InsertedIsAlone'
    <3> SUFFICES ASSUME NEW u \in Senders, NEW d, N!Busy(u)', tx'[u].on = d, d \in Keyed,
                        tx'[u].row = "inserted"
                 PROVE  /\ N!Kept(d)' = 0
                        /\ \A v \in Senders :
                              N!Busy(v)' /\ tx'[v].on = d /\ tx'[v].row = "inserted" => v = u
      BY DEF N!InsertedIsAlone, N!Kept
    <3>1. u # w /\ tx'[u] = tx[u] /\ N!Busy(u)
      BY <2>2
    <3>2. /\ N!Kept(tx[u].on) = 0 /\ tx[u].on \in N!Changes \ {c}
          /\ \A v \in Senders :
                N!Busy(v) /\ tx[v].on = tx[u].on /\ tx[v].row = "inserted" => v = u
      BY <1>1, <3>1 DEF N!InsertedIsAlone, N!Changes
    <3>3. N!Kept(d)' = 0
      BY <2>3, <3>1, <3>2
    <3> QED
      BY <2>2, <3>1, <3>2, <3>3
  <2> QED
    BY <2>4, <2>5, <2>6, <2>7, <2>8, <2>9, <2>10
<1> QED
  <2>1. N!Busy(w)
    BY NotIdle DEF N!NotifyAfterwards, N!Busy
  <2> QED
    BY <1>2, <2>1

LEMMA RowMoves ==
    ASSUME N!IInv, NEW c \in N!Changes,
           NEW i \in Nat, NEW j \in Nat, NEW k \in Nat, NEW o \in Nat,
           notices[c] = [unread |-> i, read |-> j, deleted |-> k, others |-> o],
           NEW i2 \in Nat, NEW j2 \in Nat, NEW k2 \in Nat,
           i2 + j2 + k2 = i + j + k, i2 + j2 <= i + j,
           notices' = [notices EXCEPT ![c] =
               [unread |-> i2, read |-> j2, deleted |-> k2, others |-> o]],
           UNCHANGED <<done, tx, wire, seen, task>>
    PROVE  N!IInv'
<1> DEFINE new == [unread |-> i2, read |-> j2, deleted |-> k2, others |-> o]
<1>1. new \in [unread : Nat, read : Nat, deleted : Nat, others : Nat]
  OBVIOUS
<1>2. /\ new.unread = i2 /\ new.read = j2 /\ new.deleted = k2 /\ new.others = o
      /\ notices[c].unread = i /\ notices[c].read = j /\ notices[c].deleted = k
      /\ notices[c].others = o
  OBVIOUS
<1>3. notices' = [notices EXCEPT ![c] = new]
  OBVIOUS
<1> HIDE DEF new
<1>4. /\ notices'[c] = new
      /\ \A d \in N!Changes \ {c} : notices'[d] = notices[d]
  BY <1>3 DEF N!IInv, N!TypeOK
<1>5. N!TypeOK'
  BY <1>1, <1>3 DEF N!IInv, N!TypeOK
<1>6. N!Rows(c) = i + j + k /\ N!Kept(c) = i + j
  BY <1>2 DEF N!Rows, N!Kept
<1>7. N!Rows(c)' = i2 + j2 + k2 /\ N!Kept(c)' = i2 + j2 /\ notices'[c].others = o
  BY <1>2, <1>4 DEF N!Rows, N!Kept
<1>8. \A d \in N!Changes \ {c} :
         /\ notices'[d].others = notices[d].others
         /\ N!Rows(d)' = N!Rows(d) /\ N!Kept(d)' <= N!Kept(d)
  <2> SUFFICES ASSUME NEW d \in N!Changes \ {c}
               PROVE  /\ notices'[d].others = notices[d].others
                      /\ N!Rows(d)' = N!Rows(d) /\ N!Kept(d)' <= N!Kept(d)
    OBVIOUS
  <2>1. notices'[d] = notices[d]
    BY <1>4
  <2>2. N!Rows(d)' = N!Rows(d) /\ N!Kept(d)' = N!Kept(d)
    BY <2>1 DEF N!Rows, N!Kept
  <2>3. N!Kept(d) \in Nat
    BY RowCounts DEF N!IInv
  <2> QED
    BY <2>1, <2>2, <2>3
<1>9. /\ notices'[c].others = notices[c].others
      /\ N!Rows(c)' = N!Rows(c) /\ N!Kept(c)' <= N!Kept(c)
  BY <1>2, <1>6, <1>7
<1>10. \A d \in N!Changes :
         /\ notices'[d].others = notices[d].others
         /\ N!Rows(d)' = N!Rows(d) /\ N!Kept(d)' <= N!Kept(d)
  <2> SUFFICES ASSUME NEW d \in N!Changes
               PROVE  /\ notices'[d].others = notices[d].others
                      /\ N!Rows(d)' = N!Rows(d) /\ N!Kept(d)' <= N!Kept(d)
    OBVIOUS
  <2>1. CASE d = c
    BY <1>9, <2>1, Zenon DEF N!Rows, N!Kept
  <2>2. CASE d # c
    BY <1>8, <2>2
  <2> QED
    BY <2>1, <2>2
<1> QED
  BY <1>5, <1>10, RowsMove

\* The user reads, unreads or cleans up the rows of one change.
LEMMA ReadingKeeps ==
    ASSUME N!IInv, NEW c \in N!Changes,
           N!MarkRead(c) \/ N!MarkUnread(c) \/ N!Cleanup(c)
    PROVE  N!IInv'
<1>1. PICK i \in Nat, j \in Nat, k \in Nat, o \in Nat :
         notices[c] = [unread |-> i, read |-> j, deleted |-> k, others |-> o]
  BY RowCounts DEF N!IInv
<1>2. DOMAIN notices = N!Changes
  BY DEF N!IInv, N!TypeOK
<1>3. CASE N!MarkRead(c)
  <2>1. notices' = [[notices EXCEPT ![c]["unread"] = @ - 1] EXCEPT ![c]["read"] = @ + 1]
    BY <1>3 DEF N!MarkRead, N!Mark
  <2>2. /\ UNCHANGED <<done, tx, wire, seen, task>>
        /\ i > 0
    BY <1>1, <1>3 DEF N!MarkRead, N!Mark
  <2>3. PICK i2 \in Nat, j2 \in Nat, k2 \in Nat : i2 = i - 1 /\ j2 = j + 1 /\ k2 = k
    BY <2>2
  <2>4. notices' = [notices EXCEPT ![c] =
           [unread |-> i2, read |-> j2, deleted |-> k2, others |-> o]]
    BY <1>1, <1>2, <2>1, <2>3
  <2>5. i2 + j2 + k2 = i + j + k /\ i2 + j2 <= i + j
    BY <2>3
  <2> QED
    BY <1>1, <2>2, <2>4, <2>5, RowMoves
<1>4. CASE N!MarkUnread(c)
  <2>1. notices' = [[notices EXCEPT ![c]["read"] = @ - 1] EXCEPT ![c]["unread"] = @ + 1]
    BY <1>4 DEF N!MarkUnread, N!Mark
  <2>2. /\ UNCHANGED <<done, tx, wire, seen, task>>
        /\ j > 0
    BY <1>1, <1>4 DEF N!MarkUnread, N!Mark
  <2>3. PICK i2 \in Nat, j2 \in Nat, k2 \in Nat : i2 = i + 1 /\ j2 = j - 1 /\ k2 = k
    BY <2>2
  <2>4. notices' = [notices EXCEPT ![c] =
           [unread |-> i2, read |-> j2, deleted |-> k2, others |-> o]]
    BY <1>1, <1>2, <2>1, <2>3
  <2>5. i2 + j2 + k2 = i + j + k /\ i2 + j2 <= i + j
    BY <2>3
  <2> QED
    BY <1>1, <2>2, <2>4, <2>5, RowMoves
<1>5. CASE N!Cleanup(c)
  <2>1. notices' = [[notices EXCEPT ![c]["read"] = @ - 1] EXCEPT ![c]["deleted"] = @ + 1]
    BY <1>5 DEF N!Cleanup, N!Mark
  <2>2. /\ UNCHANGED <<done, tx, wire, seen, task>>
        /\ j > 0
    BY <1>1, <1>5 DEF N!Cleanup, N!Mark
  <2>3. PICK i2 \in Nat, j2 \in Nat, k2 \in Nat : i2 = i /\ j2 = j - 1 /\ k2 = k + 1
    BY <2>2
  <2>4. notices' = [notices EXCEPT ![c] =
           [unread |-> i2, read |-> j2, deleted |-> k2, others |-> o]]
    BY <1>1, <1>2, <2>1, <2>3
  <2>5. i2 + j2 + k2 = i + j + k /\ i2 + j2 <= i + j
    BY <2>3
  <2> QED
    BY <1>1, <2>2, <2>4, <2>5, RowMoves
<1> QED
  BY <1>3, <1>4, <1>5

LEMMA MarkAllReadKeeps ==
    ASSUME N!IInv, N!MarkAllRead
    PROVE  N!IInv'
<1>1. /\ UNCHANGED <<done, tx, wire, seen, task>>
      /\ notices' = [c \in N!Changes |->
            [notices[c] EXCEPT !.read = @ + notices[c].unread, !.unread = 0]]
  BY DEF N!MarkAllRead
<1>2. ASSUME NEW c \in N!Changes
      PROVE  /\ notices'[c] \in [unread : Nat, read : Nat, deleted : Nat, others : Nat]
             /\ notices'[c].others = notices[c].others
             /\ N!Rows(c)' = N!Rows(c) /\ N!Kept(c)' <= N!Kept(c)
  <2>1. PICK i \in Nat, j \in Nat, k \in Nat, o \in Nat :
           notices[c] = [unread |-> i, read |-> j, deleted |-> k, others |-> o]
    BY RowCounts DEF N!IInv
  <2>2. notices'[c] = [notices[c] EXCEPT !.read = @ + notices[c].unread, !.unread = 0]
    BY <1>1
  <2>3. notices[c].unread = i /\ notices[c].read = j
    BY <2>1
  <2>4. notices'[c] = [notices[c] EXCEPT !.read = j + i, !.unread = 0]
    BY <2>2, <2>3, Zenon
  <2>5. PICK r : r = [unread |-> i, read |-> j, deleted |-> k, others |-> o]
    OBVIOUS
  <2>6. notices'[c] = [r EXCEPT !.read = j + i, !.unread = 0]
    BY <2>1, <2>4, <2>5
  <2>7. notices'[c] = [unread |-> 0, read |-> j + i, deleted |-> k, others |-> o]
    BY <2>5, <2>6
  <2>8. /\ notices'[c].unread = 0 /\ notices'[c].read = j + i
        /\ notices'[c].deleted = k /\ notices'[c].others = o
    BY <2>7
  <2>9. N!Rows(c)' = 0 + (j + i) + k /\ N!Kept(c)' = 0 + (j + i)
    BY <2>8 DEF N!Rows, N!Kept
  <2>10. N!Rows(c) = i + j + k /\ N!Kept(c) = i + j /\ notices[c].others = o
    BY <2>1 DEF N!Rows, N!Kept
  <2> QED
    BY <2>7, <2>8, <2>9, <2>10
<1>3. notices' \in [N!Changes -> [unread : Nat, read : Nat, deleted : Nat, others : Nat]]
  BY <1>1, <1>2
<1>4. N!TypeOK'
  BY <1>1, <1>3 DEF N!IInv, N!TypeOK
<1> QED
  BY <1>1, <1>2, <1>4, RowsMove

\* Events, and the task, concern no row.
LEMMA EventsKeep ==
    ASSUME N!IInv, NEW c, N!Deliver(c) \/ N!Lose(c)
    PROVE  N!IInv'
<1>1. UNCHANGED <<done, notices, tx, task>> /\ wire' \cup seen' \subseteq wire \cup seen
  BY DEF N!Deliver, N!Lose
<1>2. N!EventsFollowCommits'
  BY <1>1 DEF N!IInv, N!EventsFollowCommits
<1> QED
  BY <1>1, <1>2 DEF N!IInv, N!TypeOK, N!PlainIsAlone, N!AfterwardsIsAlone,
                    N!InsertedIsAlone, N!RowsExplained, N!PlainNoticesAreAtomic,
                    N!OncePerKey, N!Rows, N!Kept, N!Busy

LEMMA TaskKeeps ==
    ASSUME N!IInv, N!Background
    PROVE  N!IInv'
<1> DEFINE States == {"queued", "running", "inserted", "skipped", "acknowledged", "failed"}
           Tasks == [state : States, known : BOOLEAN, attempts : Nat, crashes : Nat,
                     rows : Nat]
<1>1. UNCHANGED <<done, notices, tx, wire, seen>>
  BY DEF N!Background, N!TaskStep, N!TakeTask, N!InsertTaskRow, N!FindNobody, N!FailTask,
         N!AckTask, N!CrashWorker, N!DeleteUser
<1>2. task \in Tasks
  BY DEF N!IInv, N!TypeOK
<1>3. PICK s \in States : task.state = s
  BY <1>2
<1>4. PICK k \in BOOLEAN, a \in Nat, b \in Nat, r \in Nat :
         task = [state |-> s, known |-> k, attempts |-> a, crashes |-> b, rows |-> r]
  BY <1>2, <1>3
<1> DEFINE T(s2, k2, a2, b2, r2) ==
               [state |-> s2, known |-> k2, attempts |-> a2, crashes |-> b2, rows |-> r2]
<1>5. \E a2 \in Nat :
         \/ s = "queued" /\ task' = T("running", k, a, b, r)
         \/ s = "running" /\ k /\ task' = T("inserted", k, a, b, r + 1)
         \/ s = "running" /\ ~k /\ task' = T("skipped", k, a, b, r)
         \/ s = "running" /\ task' = T("queued", k, a2, b, r)
         \/ s = "running" /\ task' = T("failed", k, a, b, r)
         \/ s \in {"inserted", "skipped"} /\ task' = T("acknowledged", k, a, b, r)
         \/ /\ s \in {"running", "inserted", "skipped"}
            /\ task' = T("queued", k, a, b + 1, r)
         \/ k /\ task' = T(s, FALSE, a, b, r)
  <2>1. CASE N!TakeTask
    BY <1>4, <2>1 DEF N!TakeTask
  <2>2. CASE N!InsertTaskRow
    BY <1>4, <2>2 DEF N!InsertTaskRow
  <2>3. CASE N!FailTask
    <3>1. s = "running"
      BY <1>3, <2>3 DEF N!FailTask
    <3>2. CASE N!RetriesLeft
      <4>1. PICK a2 : a2 = IF a < MaxRetries THEN a + 1 ELSE a
        OBVIOUS
      <4>2. task' = [task EXCEPT !.state = "queued", !.attempts = a2]
        BY <1>4, <2>3, <3>2, <4>1, Zenon DEF N!FailTask
      <4>3. a2 \in Nat
        BY <4>1
      <4>4. task' = T("queued", k, a2, b, r)
        BY <1>4, <4>2
      <4> QED
        BY <3>1, <4>3, <4>4
    <3>3. CASE ~N!RetriesLeft
      <4>1. task' = [task EXCEPT !.state = "failed"]
        BY <2>3, <3>3 DEF N!FailTask
      <4> QED
        BY <1>4, <3>1, <4>1
    <3> QED
      BY <3>2, <3>3
  <2>4. CASE N!AckTask
    BY <1>4, <2>4 DEF N!AckTask
  <2>5. CASE N!CrashWorker
    BY <1>4, <2>5 DEF N!CrashWorker, N!AfterCrash
  <2>6. CASE N!FindNobody
    BY <1>4, <2>6 DEF N!FindNobody
  <2>7. CASE N!DeleteUser
    BY <1>4, <2>7 DEF N!DeleteUser
  <2> QED
    BY <2>1, <2>2, <2>3, <2>4, <2>5, <2>6, <2>7 DEF N!Background, N!TaskStep
<1>6. /\ s \in {"queued", "running", "skipped", "failed"} => r <= b
      /\ s \in {"inserted", "acknowledged"} => r <= 1 + b
      /\ s = "inserted" => r > 0
      /\ s = "acknowledged" /\ k => r > 0
      /\ s = "skipped" => ~k
  <2>1. task.state = s /\ task.known = k /\ task.crashes = b /\ task.rows = r
    BY <1>4
  <2> QED
    BY <2>1 DEF N!IInv, N!RowsExplained
<1>7. \A s2, k2, a2, b2, r2 :
         /\ T(s2, k2, a2, b2, r2).state = s2 /\ T(s2, k2, a2, b2, r2).known = k2
         /\ T(s2, k2, a2, b2, r2).crashes = b2 /\ T(s2, k2, a2, b2, r2).rows = r2
  OBVIOUS
<1>8. N!RowsExplained' /\ task' \in Tasks
  <2>1. PICK a2 \in Nat :
         \/ s = "queued" /\ task' = T("running", k, a, b, r)
         \/ s = "running" /\ k /\ task' = T("inserted", k, a, b, r + 1)
         \/ s = "running" /\ ~k /\ task' = T("skipped", k, a, b, r)
         \/ s = "running" /\ task' = T("queued", k, a2, b, r)
         \/ s = "running" /\ task' = T("failed", k, a, b, r)
         \/ s \in {"inserted", "skipped"} /\ task' = T("acknowledged", k, a, b, r)
         \/ /\ s \in {"running", "inserted", "skipped"}
            /\ task' = T("queued", k, a, b + 1, r)
         \/ k /\ task' = T(s, FALSE, a, b, r)
    BY <1>5
  <2>2. task' \in Tasks
    <3>1. \A s2 \in States, k2 \in BOOLEAN, x, y, z \in Nat : T(s2, k2, x, y, z) \in Tasks
      OBVIOUS
    <3>2. \E s2 \in States, k2 \in BOOLEAN, x, y, z \in Nat : task' = T(s2, k2, x, y, z)
      <4>1. b + 1 \in Nat /\ r + 1 \in Nat /\ FALSE \in BOOLEAN
        OBVIOUS
      <4>2. \A x \in {"running", "inserted", "skipped", "queued", "failed",
                      "acknowledged"} : x \in States
        OBVIOUS
      <4> HIDE DEF T, Tasks, States
      <4> QED
        BY <2>1, <4>1, <4>2, ZenonT(60)
    <3> HIDE DEF T, Tasks, States
    <3> QED
      BY <3>1, <3>2
  <2>3. CASE s \in {"inserted", "skipped"} /\ task' = T("acknowledged", k, a, b, r)
    BY <1>6, <1>7, <2>3 DEF N!RowsExplained
  <2>4. CASE k /\ task' = T(s, FALSE, a, b, r)
    BY <1>6, <1>7, <2>4 DEF N!RowsExplained
  <2>5. CASE s = "running" /\ k /\ task' = T("inserted", k, a, b, r + 1)
    BY <1>6, <1>7, <2>5 DEF N!RowsExplained
  <2>6. CASE s = "running" /\ ~k /\ task' = T("skipped", k, a, b, r)
    BY <1>6, <1>7, <2>6 DEF N!RowsExplained
  <2>7. CASE s \in {"running", "inserted", "skipped"} /\ task' = T("queued", k, a, b + 1, r)
    BY <1>6, <1>7, <2>7 DEF N!RowsExplained
  <2>8. CASE s = "queued" /\ task' = T("running", k, a, b, r)
    BY <1>6, <1>7, <2>8 DEF N!RowsExplained
  <2>9. CASE s = "running" /\ task' = T("queued", k, a2, b, r)
    BY <1>6, <1>7, <2>9 DEF N!RowsExplained
  <2>10. CASE s = "running" /\ task' = T("failed", k, a, b, r)
    BY <1>6, <1>7, <2>10 DEF N!RowsExplained
  <2> QED
    BY <2>1, <2>2, <2>3, <2>4, <2>5, <2>6, <2>7, <2>8, <2>9, <2>10
<1> QED
  BY <1>1, <1>8 DEF N!IInv, N!TypeOK, N!PlainIsAlone, N!AfterwardsIsAlone,
      N!InsertedIsAlone, N!PlainNoticesAreAtomic, N!OncePerKey, N!EventsFollowCommits,
      N!Rows, N!Kept, N!Busy

LEMMA NoticesStep == N!IInv /\ [N!Next]_(N!vars) => N!IInv'
<1> SUFFICES ASSUME N!IInv, [N!Next]_(N!vars) PROVE N!IInv'
  OBVIOUS
<1>1. ASSUME NEW w \in Senders,
             \/ \E c \in Plain : N!BeginPlain(w, c)
             \/ \E c \in Keyed : N!BeginKeyed(w, c)
             \/ N!CreateNotification(w) \/ N!NotifyOther(w)
             \/ N!CreateNotificationOnce(w) \/ N!RollBack(w)
      PROVE  N!IInv'
  BY <1>1, TransactionSteps
<1>2. ASSUME NEW w \in Senders, N!Commit(w) PROVE N!IInv'
  BY <1>2, CommitKeeps
<1>3. ASSUME NEW c \in N!Changes, N!Deliver(c) \/ N!Lose(c) PROVE N!IInv'
  BY <1>3, EventsKeep
<1>4. ASSUME NEW c \in N!Changes, N!MarkRead(c) \/ N!MarkUnread(c) \/ N!Cleanup(c)
      PROVE  N!IInv'
  BY <1>4, ReadingKeeps
<1>5. CASE N!MarkAllRead
  BY <1>5, MarkAllReadKeeps
<1>6. CASE N!Background
  BY <1>6, TaskKeeps
<1>8. ASSUME NEW w \in Senders, NEW c \in Detached, N!ChangeFirst(w, c) PROVE N!IInv'
  BY <1>8, ChangeFirstKeeps
<1>9. ASSUME NEW w \in Senders, N!NotifyAfterwards(w) PROVE N!IInv'
  BY <1>9, NotifyAfterwardsKeeps
<1>7. CASE UNCHANGED N!vars
  BY <1>7 DEF N!vars, N!IInv, N!TypeOK, N!PlainIsAlone, N!AfterwardsIsAlone,
      N!InsertedIsAlone, N!RowsExplained, N!PlainNoticesAreAtomic, N!OncePerKey,
      N!EventsFollowCommits, N!Rows, N!Kept, N!Busy
<1> QED
  BY <1>1, <1>2, <1>3, <1>4, <1>5, <1>6, <1>7, <1>8, <1>9 DEF N!Next, N!Foreground

\* The rows of a change are what its requests committed, a change notified after
\* its commit has one at most, a key has at most one row, events follow commits, and
\* the task skips its row only where a user was not found and repeats it only after
\* a crash (create_notification, update_contract_proposal,
\* create_notification_once, create_notification_async).
THEOREM NoticesFaithful == PlatformSpec => []NoticesAreFaithful
<1>1. PlatformInit => N!IInv
  BY NoticesInit DEF PlatformInit
<1>2. N!IInv /\ [PlatformNext]_<<part, vars, noticeVars>> => N!IInv'
  <2>1. [PlatformNext]_<<part, vars, noticeVars>> => [N!Next]_(N!vars)
    BY DEF PlatformNext, noticeVars, N!vars, N!Next
  <2> QED
    BY <2>1, NoticesStep
<1>3. N!IInv => NoticesAreFaithful
  <2> SUFFICES ASSUME N!IInv PROVE N!TaskNoticesExplained
    BY DEF N!IInv, NoticesAreFaithful, N!NoticesAreFaithful
  <2>1. /\ task.state \in {"queued", "running", "inserted", "skipped", "acknowledged",
                           "failed"}
        /\ task.rows \in Nat /\ task.crashes \in Nat
    BY DEF N!IInv, N!TypeOK
  <2> QED
    BY <2>1 DEF N!IInv, N!RowsExplained, N!TaskNoticesExplained
<1> QED
  BY <1>1, <1>2, <1>3, PTL DEF PlatformSpec

-----------------------------------------------------------------------------
(***************************************************************************)
(* Profiles.                                                               *)
(***************************************************************************)
LEMMA SavedUser ==
    ASSUME NEW u \in P!Users, NEW held \in P!Users, NEW columns
    PROVE  LET s == P!Saved(u, held, columns)
           IN  /\ s \in P!Users
               /\ s.active = IF "active" \in columns THEN held.active ELSE u.active
               /\ s.password = IF "password" \in columns THEN held.password ELSE u.password
               /\ s.filled = IF "filled" \in columns THEN held.filled ELSE u.filled
<1>1. DOMAIN u = {"active", "password", "filled"}
  BY DEF P!Users
<1>2. PICK s : s = [c \in {"active", "password", "filled"} |->
                       IF c \in columns THEN held[c] ELSE u[c]]
  OBVIOUS
<1>3. P!Saved(u, held, columns) = s
  BY <1>1, <1>2 DEF P!Saved
<1>4. /\ s.active = IF "active" \in columns THEN held.active ELSE u.active
      /\ s.password = IF "password" \in columns THEN held.password ELSE u.password
      /\ s.filled = IF "filled" \in columns THEN held.filled ELSE u.filled
  BY <1>2
<1>5. s \in P!Users
  BY <1>2, <1>4 DEF P!Users
<1> QED
  BY <1>3, <1>4, <1>5

LEMMA SavedProfile ==
    ASSUME NEW p \in P!Profile, NEW held \in P!Profile, NEW columns
    PROVE  LET s == P!Saved(p, held, columns)
           IN  /\ s \in P!Profile
               /\ s.approved = IF "approved" \in columns THEN held.approved ELSE p.approved
               /\ s.available = IF "available" \in columns THEN held.available ELSE p.available
               /\ s.filled = IF "filled" \in columns THEN held.filled ELSE p.filled
               /\ s.complete = IF "complete" \in columns THEN held.complete ELSE p.complete
<1>1. DOMAIN p = {"approved", "available", "filled", "complete"}
  BY DEF P!Profile
<1>2. PICK s : s = [c \in {"approved", "available", "filled", "complete"} |->
                       IF c \in columns THEN held[c] ELSE p[c]]
  OBVIOUS
<1>3. P!Saved(p, held, columns) = s
  BY <1>1, <1>2 DEF P!Saved
<1>4. /\ s.approved = IF "approved" \in columns THEN held.approved ELSE p.approved
      /\ s.available = IF "available" \in columns THEN held.available ELSE p.available
      /\ s.filled = IF "filled" \in columns THEN held.filled ELSE p.filled
      /\ s.complete = IF "complete" \in columns THEN held.complete ELSE p.complete
  BY <1>2
<1>5. s \in P!Profile
  BY <1>2, <1>4 DEF P!Profile
<1> QED
  BY <1>3, <1>4, <1>5

LEMMA HeldRows ==
    ASSUME P!IInv, NEW w \in Clerks, request[w] # P!Nothing
    PROVE  /\ request[w] \in P!Requests
           /\ request[w].op \in P!OfUser \cup P!OfProfile
           /\ request[w].step \in {"fetched", "loaded", "saved"}
           /\ request[w].user \in P!Users /\ request[w].profile \in P!Profile
           /\ P!Fits(request[w])
           /\ user \in P!Users /\ profile \in P!Profile /\ stale \in BOOLEAN
           /\ birthday \in {"ahead", "past", "counted"}
<1>1. request[w] \in P!Requests
  BY DEF P!IInv
<1> QED
  BY <1>1 DEF P!IInv, P!Requests, P!RequestsFit, P!TypeOK

LEMMA ProfileInit == P!Init => P!IInv
<1> SUFFICES ASSUME P!Init PROVE P!IInv
  OBVIOUS
<1>1. profile = [approved |-> FALSE, available |-> TRUE, filled |-> FALSE, complete |-> FALSE]
  BY DEF P!Init, P!NoProfile
<1>2. user \in P!Users /\ user.filled = "missing"
  BY CountersAssumption DEF P!Init, P!NoUser, P!Users, P!Fields
<1>3. profile \in P!Profile /\ ~profile.approved /\ profile.available
  BY <1>1 DEF P!Profile
<1>4. P!TypeOK /\ request \in [Clerks -> P!Requests \cup {P!Nothing}]
  BY <1>2, <1>3 DEF P!Init, P!TypeOK
<1>5. P!RequestsFit
  BY DEF P!Init, P!RequestsFit
<1>6. P!CompletenessIsCurrent
  BY <1>1, <1>2 DEF P!CompletenessIsCurrent, P!Completion, P!Adult
<1> QED
  BY <1>4, <1>5, <1>6 DEF P!IInv

\* A request that goes on or ends, with what it saved.
LEMMA RequestMoves ==
    ASSUME P!IInv, NEW w \in Clerks, NEW r \in P!Requests \cup {P!Nothing},
           request' = [request EXCEPT ![w] = r], role' = role,
           user' \in P!Users, profile' \in P!Profile, stale' \in BOOLEAN,
           birthday' \in {"ahead", "past", "counted"},
           role = "client" => ~profile'.approved /\ profile'.available,
           r # P!Nothing => P!Fits(r),
           P!CompletenessIsCurrent'
    PROVE  P!IInv'
<1>1. request' \in [Clerks -> P!Requests \cup {P!Nothing}]
  BY DEF P!IInv
<1>2. P!TypeOK'
  BY <1>1 DEF P!IInv, P!TypeOK
<1>3. \A v \in Clerks : request'[v] = IF v = w THEN r ELSE request[v]
  BY DEF P!IInv
<1>4. P!RequestsFit'
  <2> SUFFICES ASSUME NEW v \in Clerks, request'[v] # P!Nothing
               PROVE  P!Fits(request'[v])
    BY DEF P!RequestsFit, P!Fits
  <2> QED
    BY <1>3 DEF P!IInv, P!RequestsFit
<1> QED
  BY <1>1, <1>2, <1>4 DEF P!IInv

\* While none is between its two saves, the others go on as before.
LEMMA BetweenMoves ==
    ASSUME P!IInv, NEW w \in Clerks, NEW r, request' = [request EXCEPT ![w] = r]
    PROVE  \/ P!Between'
           \/ ~P!Between
           \/ /\ request[w] # P!Nothing /\ request[w].step # "fetched"
              /\ request[w].op \in P!SaveProfileToo
              /\ ~(/\ r # P!Nothing /\ r.step # "fetched"
                   /\ r.op \in P!SaveProfileToo)
<1>1. \A v \in Clerks : request'[v] = IF v = w THEN r ELSE request[v]
  BY DEF P!IInv
<1> QED
  BY <1>1 DEF P!Between

\* The completion that was current stays so while nothing that it depends on changes.
LEMMA CurrentStays ==
    ASSUME P!CompletenessIsCurrent, UNCHANGED <<role, birthday>>,
           user'.filled = user.filled, profile'.filled = profile.filled,
           profile'.complete = profile.complete,
           ~stale' /\ ~P!Between' => ~stale /\ ~P!Between
    PROVE  P!CompletenessIsCurrent'
BY DEF P!CompletenessIsCurrent, P!Completion, P!Adult

LEMMA EmptyRows == P!NoUser \in P!Users /\ P!NoProfile \in P!Profile
BY CountersAssumption DEF P!NoUser, P!Users, P!Fields, P!NoProfile, P!Profile

LEMMA FetchKeeps ==
    ASSUME P!IInv, NEW w \in Clerks, NEW op \in P!OfUser \cup P!OfProfile, P!Fetch(w, op)
    PROVE  P!IInv'
<1>1. PICK r : r = [op |-> op, step |-> "fetched",
           user |-> IF op \in P!OfUser THEN user ELSE P!NoUser,
           profile |-> IF op \in P!OfProfile \cup {"edit_client"} THEN profile
                                                                   ELSE P!NoProfile]
  OBVIOUS
<1>2. user \in P!Users /\ profile \in P!Profile
  BY DEF P!IInv, P!TypeOK
<1>3. r \in P!Requests
  BY <1>1, <1>2, EmptyRows DEF P!Requests
<1>4. /\ r.op = op /\ r.step = "fetched"
      /\ op \in {"recalculate", "edit_client"} => r.profile = profile
  BY <1>1 DEF P!OfProfile
<1>5. /\ request' = [request EXCEPT ![w] = r]
      /\ UNCHANGED <<role, user, profile, birthday, stale>>
  BY <1>1 DEF P!Fetch
<1>6. P!Fits(r)
  <2>1. op = "edit_client" => role = "client"
    BY DEF P!Fetch, P!ForRole, P!OfProfile
  <2>2. role = "client" => op \notin P!OfProfile \ {"recalculate"}
    BY DEF P!Fetch, P!ForRole, P!OfProfile
  <2>3. role = "client" => ~profile.approved /\ profile.available
    BY DEF P!IInv, P!TypeOK
  <2> QED
    BY <1>4, <2>1, <2>2, <2>3 DEF P!Fits
<1>7. ~P!Between' => ~P!Between
  BY <1>4, <1>5, BetweenMoves DEF P!Fetch
<1>8. P!CompletenessIsCurrent'
  BY <1>5, <1>7, CurrentStays DEF P!IInv
<1> QED
  BY <1>2, <1>3, <1>5, <1>6, <1>8, RequestMoves DEF P!IInv, P!TypeOK

LEMMA LoadKeeps ==
    ASSUME P!IInv, NEW w \in Clerks, P!Load(w)
    PROVE  P!IInv'
<1>1. request[w] # P!Nothing /\ UNCHANGED <<role, user, profile, birthday, stale>>
  BY DEF P!Load
<1>2. role = "client" => ~profile.approved /\ profile.available
  BY DEF P!IInv, P!TypeOK
<1>3. ASSUME NEW r \in P!Requests, request' = [request EXCEPT ![w] = r], P!Fits(r),
             r.op = request[w].op, r.step = "loaded",
             request[w].step = "fetched" => r.op \notin P!SaveProfileToo
      PROVE  P!IInv'
  <2>1. ~P!Between' => ~P!Between
    <3>1. r # P!Nothing
      BY DEF P!Requests, P!Nothing, P!OfUser, P!OfProfile
    <3> QED
      BY <1>3, <3>1, BetweenMoves
  <2>2. P!CompletenessIsCurrent'
    BY <1>1, <2>1, CurrentStays DEF P!IInv
  <2> QED
    BY <1>1, <1>2, <1>3, <2>2, HeldRows, RequestMoves
<1>4. CASE request[w].step = "fetched"
  <2>1. PICK r : r = [request[w] EXCEPT !.user = user, !.step = "loaded"]
    OBVIOUS
  <2>2. /\ request' = [request EXCEPT ![w] = r]
        /\ request[w].op \in P!OfProfile \ P!Blind
    BY <1>4, <2>1 DEF P!IInv, P!Load
  <2>3. /\ r \in P!Requests /\ r.op = request[w].op /\ r.step = "loaded"
        /\ r.profile = request[w].profile
    BY <1>1, <2>1, HeldRows DEF P!Requests
  <2>4. r.op \notin P!OfUser
    BY <2>2, <2>3 DEF P!OfUser, P!OfProfile
  <2>5. P!Fits(r)
    BY <1>1, <2>2, <2>3, <2>4, HeldRows DEF P!Fits
  <2> QED
    BY <1>3, <2>2, <2>3, <2>5 DEF P!OfProfile, P!SaveProfileToo
<1>5. CASE request[w].step # "fetched"
  <2>1. PICK r : r = [request[w] EXCEPT !.profile = profile, !.step = "loaded"]
    OBVIOUS
  <2>2. request' = [request EXCEPT ![w] = r]
    BY <1>5, <2>1 DEF P!IInv, P!Load
  <2>3. /\ r \in P!Requests /\ r.op = request[w].op /\ r.step = "loaded"
        /\ r.profile = profile
    BY <1>1, <2>1, HeldRows DEF P!Requests
  <2>4. r.op \in P!SaveProfileToo
    BY <1>5, <2>3 DEF P!Load, P!SaveProfileToo
  <2>5. P!Fits(r)
    BY <1>1, <1>2, <2>3, <2>4, HeldRows DEF P!Fits
  <2> QED
    BY <1>3, <1>5, <2>2, <2>3, <2>5
<1> QED
  BY <1>4, <1>5

LEMMA AbandonKeeps ==
    ASSUME P!IInv, NEW w \in Clerks, P!Abandon(w)
    PROVE  P!IInv'
<1>1. /\ request[w] # P!Nothing /\ UNCHANGED <<role, user, profile, birthday>>
      /\ request' = [request EXCEPT ![w] = P!Nothing]
      /\ stale' = (\/ stale
                   \/ request[w].op \in P!SaveProfileToo /\ request[w].step # "fetched")
  BY DEF P!Abandon
<1>2. stale' \in BOOLEAN
  BY <1>1
<1>3. ~stale' /\ ~P!Between' => ~stale /\ ~P!Between
  BY <1>1, BetweenMoves
<1>4. P!CompletenessIsCurrent'
  BY <1>1, <1>3, CurrentStays DEF P!IInv
<1>5. role = "client" => ~profile.approved /\ profile.available
  BY DEF P!IInv, P!TypeOK
<1> QED
  BY <1>1, <1>2, <1>4, <1>5, HeldRows, RequestMoves

\* What a request sets in the user row is a row that it held, but for what its
\* kind decides.
LEMMA HeldUser ==
    ASSUME NEW op \in P!OfUser, NEW u \in P!Users, user \in P!Users,
           op = "reset_password" => user.password < MaxPasswords,
           NEW held \in P!Edits(op, u)
    PROVE  /\ held \in P!Users
           /\ op # "reset_password" => held.password = u.password
           /\ op \in {"edit_me", "edit_client", "reset_password"} => held.active = u.active
           /\ op \notin {"edit_me", "edit_client", "edit_by_staff"} => held.filled = u.filled
<1>1. CASE op \in {"edit_me", "edit_client"}
  <2>1. PICK f \in P!Fields : held = [u EXCEPT !.filled = f]
    BY <1>1 DEF P!Edits, P!FieldsOfRole
  <2> QED
    BY <1>1, <2>1 DEF P!Users
<1>2. CASE op = "edit_by_staff"
  BY <1>2 DEF P!Edits
<1>3. CASE op = "reset_password"
  <2>1. held = [u EXCEPT !.password = user.password + 1]
    BY <1>3 DEF P!Edits
  <2>2. user.password + 1 \in 0 .. MaxPasswords
    BY <1>3, CountersAssumption DEF P!Users
  <2> QED
    BY <1>3, <2>1, <2>2 DEF P!Users
<1>4. CASE op \in {"verify", "activate"}
  <2>1. held = [u EXCEPT !.active = TRUE]
    BY <1>4 DEF P!Edits
  <2> QED
    BY <1>4, <2>1 DEF P!Users
<1>5. CASE op = "deactivate"
  <2>1. held = [u EXCEPT !.active = FALSE]
    BY <1>5 DEF P!Edits
  <2> QED
    BY <1>5, <2>1 DEF P!Users
<1> QED
  BY <1>1, <1>2, <1>3, <1>4, <1>5 DEF P!OfUser

LEMMA SaveUserKeeps ==
    ASSUME P!IInv, NEW w \in Clerks, P!SaveUser(w)
    PROVE  P!IInv'
<1> DEFINE op == request[w].op
<1>1. /\ request[w] # P!Nothing /\ request[w].step = "fetched"
      /\ op \in P!OfUser /\ UNCHANGED <<role, profile, birthday>>
      /\ op = "reset_password" => user.password < MaxPasswords
  BY DEF P!SaveUser
<1>2. PICK held \in P!Edits(op, request[w].user) :
         /\ user' = P!Saved(user, held, P!UserColumns(op))
         /\ request' = [request EXCEPT ![w] =
               IF op \in P!SaveProfileToo
               THEN [@ EXCEPT !.user = [P!NoUser EXCEPT !.filled = held.filled],
                              !.step = "saved"]
               ELSE P!Nothing]
         /\ stale' = (\/ stale
                      \/ P!UserColumns(op) # {"active"}
                           /\ request[w].user.filled # user.filled
                      \/ op = "edit_by_staff" /\ user'.filled # user.filled)
  BY DEF P!SaveUser
<1>3. /\ user \in P!Users /\ profile \in P!Profile /\ request[w].user \in P!Users
      /\ request[w] \in P!Requests /\ P!Fits(request[w])
  BY <1>1, HeldRows
<1>4. /\ held \in P!Users
      /\ op \notin {"edit_me", "edit_client", "edit_by_staff"} =>
            held.filled = request[w].user.filled
  BY <1>1, <1>3, HeldUser
<1>5. /\ user' \in P!Users
      /\ user'.filled = IF "filled" \in P!UserColumns(op) THEN held.filled ELSE user.filled
  BY <1>2, <1>3, <1>4, SavedUser
<1>6. stale' \in BOOLEAN
  BY <1>2
<1>7. PICK r : r = IF op \in P!SaveProfileToo
                   THEN [request[w] EXCEPT !.user = [P!NoUser EXCEPT !.filled = held.filled],
                                           !.step = "saved"]
                   ELSE P!Nothing
  OBVIOUS
<1>8. request' = [request EXCEPT ![w] = r]
  BY <1>2, <1>7, Zenon
<1>9. op \in P!SaveProfileToo =>
         /\ r \in P!Requests /\ r # P!Nothing /\ r.op = op /\ r.step = "saved"
         /\ P!Fits(r)
  <2> SUFFICES ASSUME op \in P!SaveProfileToo
               PROVE  /\ r \in P!Requests /\ r # P!Nothing /\ r.op = op /\ r.step = "saved"
                      /\ P!Fits(r)
    OBVIOUS
  <2>1. PICK u : u = [P!NoUser EXCEPT !.filled = held.filled]
    OBVIOUS
  <2>2. u \in P!Users
    BY <1>4, <2>1, EmptyRows DEF P!Users
  <2>3. r = [request[w] EXCEPT !.user = u, !.step = "saved"]
    BY <1>7, <2>1, Zenon
  <2>4. /\ r \in P!Requests /\ r.op = op /\ r.step = "saved"
        /\ r.profile = request[w].profile
    BY <1>3, <2>2, <2>3 DEF P!Requests
  <2>5. r # P!Nothing
    BY <2>4 DEF P!Nothing, P!SaveProfileToo
  <2>6. P!Fits(r)
    BY <1>3, <2>4 DEF P!Fits, P!SaveProfileToo
  <2> QED
    BY <2>4, <2>5, <2>6
<1>10. P!CompletenessIsCurrent'
  <2> SUFFICES ASSUME ~stale', ~P!Between' PROVE P!CompletenessIsCurrent'
    BY DEF P!CompletenessIsCurrent
  <2>1. ~P!Between
    BY <1>1, <1>8, BetweenMoves
  <2>2. op \notin P!SaveProfileToo
    <3> SUFFICES ASSUME op \in P!SaveProfileToo PROVE FALSE
      OBVIOUS
    <3>1. request'[w] = r
      BY <1>8 DEF P!IInv
    <3> QED
      BY <1>9, <3>1 DEF P!Between
  <2>3. user'.filled = user.filled
    <3>1. CASE op = "edit_by_staff"
      BY <1>2, <3>1
    <3>2. CASE op \in {"activate", "deactivate"}
      BY <1>5, <3>2 DEF P!UserColumns
    <3>3. CASE op \in {"reset_password", "verify"}
      <4>1. "filled" \in DOMAIN user /\ P!UserColumns(op) = DOMAIN user
        BY <1>3, <3>3 DEF P!UserColumns, P!Users
      <4>2. P!UserColumns(op) # {"active"}
        BY <4>1
      <4> QED
        BY <1>2, <1>4, <1>5, <3>3, <4>1, <4>2
    <3> QED
      BY <1>1, <2>2, <3>1, <3>2, <3>3 DEF P!OfUser, P!SaveProfileToo
  <2> QED
    BY <1>1, <1>2, <2>1, <2>3, CurrentStays DEF P!IInv
<1>11. r # P!Nothing => op \in P!SaveProfileToo
  BY <1>7
<1>12. /\ role = "client" => ~profile.approved /\ profile.available
       /\ birthday \in {"ahead", "past", "counted"}
  BY DEF P!IInv, P!TypeOK
<1> HIDE DEF op
<1> QED
  BY <1>1, <1>3, <1>5, <1>6, <1>8, <1>9, <1>10, <1>11, <1>12, RequestMoves

LEMMA HeldProfile ==
    ASSUME NEW op \in P!OfUser \cup P!OfProfile, NEW p \in P!Profile,
           NEW held \in P!ProfileEdits(op, p)
    PROVE  /\ held \in P!Profile
           /\ op \notin {"approve", "mark_approved", "reject", "mark_rejected"} =>
                  held.approved = p.approved
           /\ op \in {"edit_me", "edit_client", "recalculate"} => held = p
<1>1. CASE op = "edit_profile"
  BY <1>1 DEF P!ProfileEdits
<1>2. CASE op \in {"approve", "mark_approved"}
  <2>1. held = [p EXCEPT !.approved = TRUE]
    BY <1>2 DEF P!ProfileEdits
  <2> QED
    BY <1>2, <2>1 DEF P!Profile
<1>3. CASE op = "mark_rejected"
  <2>1. held = [p EXCEPT !.approved = FALSE]
    BY <1>3 DEF P!ProfileEdits
  <2> QED
    BY <1>3, <2>1 DEF P!Profile
<1>4. CASE op = "reject"
  <2>1. held = [p EXCEPT !.approved = FALSE, !.available = FALSE]
    BY <1>4 DEF P!ProfileEdits
  <2> QED
    BY <1>4, <2>1 DEF P!Profile
<1>5. CASE op = "mark_available"
  <2>1. PICK b \in BOOLEAN : held = [p EXCEPT !.available = b]
    BY <1>5 DEF P!ProfileEdits
  <2> QED
    BY <1>5, <2>1 DEF P!Profile
<1>6. CASE op \notin {"edit_profile", "approve", "mark_approved", "mark_rejected", "reject",
                      "mark_available"}
  BY <1>6 DEF P!ProfileEdits
<1> QED
  BY <1>1, <1>2, <1>3, <1>4, <1>5, <1>6

\* What a profile becomes when a request saves it.
LEMMA ProfileSaved ==
    ASSUME P!IInv, NEW w \in Clerks, P!SaveProfile(w)
    PROVE  LET r == request[w]
           IN  /\ r # P!Nothing /\ profile' \in P!Profile
               /\ request' = [request EXCEPT ![w] = P!Nothing]
               /\ UNCHANGED <<role, user>>
               /\ r.op \in P!Blind \/ r.op = "edit_client" \/ r.step = "loaded"
               /\ r.op \in P!Blind \cup {"approve"} =>
                     /\ profile'.filled = profile.filled
                     /\ profile'.complete = profile.complete
                     /\ r.op = "mark_available" => profile'.approved = profile.approved
                     /\ UNCHANGED <<birthday, stale>>
               /\ r.op \notin P!Blind \cup {"approve"} =>
                     /\ profile'.approved = r.profile.approved
                     /\ r.op \in {"edit_me", "edit_client", "recalculate"} =>
                           profile'.available = r.profile.available
                     /\ profile'.complete = P!Completion(r.user, profile')
                     /\ stale' = (\/ r.user.filled # user.filled
                                  \/ r.profile.filled # profile.filled)
                     /\ birthday' = IF birthday = "past" THEN "counted" ELSE birthday
<1>1. PICK r : r = request[w]
  OBVIOUS
<1>2. /\ r # P!Nothing /\ request' = [request EXCEPT ![w] = P!Nothing]
      /\ UNCHANGED <<role, user>>
      /\ r.op \in P!Blind \/ r.op = "edit_client" \/ r.step = "loaded"
  BY <1>1 DEF P!SaveProfile
<1>3. PICK held \in P!ProfileEdits(r.op, r.profile) :
         /\ profile' = P!Saved(profile, [held EXCEPT !.complete = P!Completion(r.user, held)],
                               P!ProfileColumns(r.op))
         /\ stale' = IF P!ProfileColumns(r.op) = DOMAIN profile
                     THEN \/ r.user.filled # user.filled
                          \/ r.profile.filled # profile.filled
                     ELSE stale
         /\ birthday' = IF P!ProfileColumns(r.op) = DOMAIN profile /\ birthday = "past"
                        THEN "counted" ELSE birthday
  BY <1>1 DEF P!SaveProfile
<1>4. /\ r.op \in P!OfUser \cup P!OfProfile /\ r.user \in P!Users /\ r.profile \in P!Profile
      /\ profile \in P!Profile
  BY <1>1, <1>2, HeldRows
<1>5. /\ held \in P!Profile
      /\ r.op \notin {"approve", "mark_approved", "reject", "mark_rejected"} =>
             held.approved = r.profile.approved
      /\ r.op \in {"edit_me", "edit_client", "recalculate"} => held = r.profile
  BY <1>3, <1>4, HeldProfile
<1>6. PICK saved : saved = [held EXCEPT !.complete = P!Completion(r.user, held)]
  OBVIOUS
<1>7. P!Completion(r.user, held) \in BOOLEAN
  BY <1>4, <1>5 DEF P!Completion, P!Adult, P!Profile
<1>8. /\ saved \in P!Profile /\ saved.approved = held.approved
      /\ saved.available = held.available /\ saved.filled = held.filled
      /\ saved.complete = P!Completion(r.user, held)
  BY <1>5, <1>6, <1>7 DEF P!Profile
<1>9. profile' = P!Saved(profile, saved, P!ProfileColumns(r.op))
  BY <1>3, <1>6
<1>10. PICK columns : columns = P!ProfileColumns(r.op)
  OBVIOUS
<1>11. /\ profile' \in P!Profile
       /\ profile'.approved = IF "approved" \in columns THEN saved.approved
                                                        ELSE profile.approved
       /\ profile'.available = IF "available" \in columns THEN saved.available
                                                          ELSE profile.available
       /\ profile'.filled = IF "filled" \in columns THEN saved.filled ELSE profile.filled
       /\ profile'.complete = IF "complete" \in columns THEN saved.complete
                                                        ELSE profile.complete
  BY <1>4, <1>8, <1>9, <1>10, SavedProfile
<1>12. DOMAIN profile = {"approved", "available", "filled", "complete"}
  BY <1>4 DEF P!Profile
<1>13. CASE r.op \in P!Blind \cup {"approve"}
  <2>1. /\ "filled" \notin columns /\ "complete" \notin columns
        /\ r.op = "mark_available" => "approved" \notin columns
    BY <1>10, <1>13 DEF P!ProfileColumns, P!Blind
  <2>2. columns # DOMAIN profile
    BY <1>12, <2>1
  <2> QED
    BY <1>1, <1>2, <1>3, <1>10, <1>11, <1>13, <2>1, <2>2
<1>14. CASE r.op \notin P!Blind \cup {"approve"}
  <2>1. columns = DOMAIN profile
    BY <1>10, <1>14 DEF P!ProfileColumns, P!Blind
  <2>2. /\ profile'.approved = held.approved /\ profile'.available = held.available
        /\ profile'.filled = held.filled /\ profile'.complete = P!Completion(r.user, held)
    BY <1>8, <1>11, <1>12, <2>1
  <2>3. P!Completion(r.user, held) = P!Completion(r.user, profile')
    BY <2>2 DEF P!Completion
  <2>4. /\ stale' = (\/ r.user.filled # user.filled \/ r.profile.filled # profile.filled)
        /\ birthday' = IF birthday = "past" THEN "counted" ELSE birthday
    BY <1>3, <1>10, <2>1
  <2>5. held.approved = r.profile.approved
    BY <1>5, <1>14 DEF P!Blind
  <2> QED
    BY <1>1, <1>2, <1>5, <1>11, <1>14, <2>2, <2>3, <2>4, <2>5
<1> QED
  BY <1>13, <1>14

LEMMA SaveProfileKeeps ==
    ASSUME P!IInv, NEW w \in Clerks, P!SaveProfile(w)
    PROVE  P!IInv'
<1>1. PICK r : r = request[w]
  OBVIOUS
<1>2. /\ r # P!Nothing /\ profile' \in P!Profile
      /\ request' = [request EXCEPT ![w] = P!Nothing]
      /\ UNCHANGED <<role, user>>
      /\ r.op \in P!Blind \/ r.op = "edit_client" \/ r.step = "loaded"
  BY <1>1, ProfileSaved
<1>3. /\ user \in P!Users /\ profile \in P!Profile /\ stale \in BOOLEAN
      /\ birthday \in {"ahead", "past", "counted"}
      /\ r \in P!Requests /\ P!Fits(r)
      /\ r.op \in P!OfUser \cup P!OfProfile
  BY <1>1, <1>2, HeldRows
<1>4. r.op \in P!Blind \cup {"approve"} =>
         /\ profile'.filled = profile.filled /\ profile'.complete = profile.complete
         /\ UNCHANGED <<birthday, stale>>
  BY <1>1, ProfileSaved
<1>5. r.op \notin P!Blind \cup {"approve"} =>
         /\ profile'.approved = r.profile.approved
         /\ r.op \in {"edit_me", "edit_client", "recalculate"} =>
               profile'.available = r.profile.available
         /\ profile'.complete = P!Completion(r.user, profile')
         /\ stale' = (\/ r.user.filled # user.filled
                      \/ r.profile.filled # profile.filled)
         /\ birthday' = IF birthday = "past" THEN "counted" ELSE birthday
  BY <1>1, ProfileSaved
<1>6. stale' \in BOOLEAN /\ birthday' \in {"ahead", "past", "counted"}
  BY <1>3, <1>4, <1>5
<1>7. role = "client" => ~profile'.approved /\ profile'.available
  <2> SUFFICES ASSUME role = "client" PROVE ~profile'.approved /\ profile'.available
    OBVIOUS
  <2>1. r.op \notin P!OfProfile \ {"recalculate"}
    BY <1>3 DEF P!Fits
  <2>2. r.op \notin P!Blind \cup {"approve"}
    BY <2>1 DEF P!Blind, P!OfProfile
  <2>3. ~r.profile.approved /\ r.profile.available
    BY <1>2, <1>3, <2>2 DEF P!Fits
  <2>4. r.op \in {"edit_me", "edit_client", "recalculate"}
    BY <1>2, <1>3, <2>1, <2>2 DEF P!Fits, P!SaveProfileToo
  <2> QED
    BY <1>5, <2>2, <2>3, <2>4
<1>8. P!CompletenessIsCurrent'
  <2> SUFFICES ASSUME ~stale', ~P!Between' PROVE P!CompletenessIsCurrent'
    BY DEF P!CompletenessIsCurrent
  <2>1. CASE r.op \in P!Blind \cup {"approve"}
    <3>1. ~P!Between
      BY <1>1, <1>2, <2>1, BetweenMoves DEF P!Blind, P!SaveProfileToo
    <3> QED
      BY <1>2, <1>4, <2>1, <3>1, CurrentStays DEF P!IInv
  <2>2. CASE r.op \notin P!Blind \cup {"approve"}
    <3>1. r.user.filled = user.filled
      BY <1>5, <2>2
    <3>2. birthday' # "ahead" <=> birthday # "ahead"
      BY <1>5, <2>2
    <3> QED
      BY <1>2, <1>5, <2>2, <3>1, <3>2 DEF P!CompletenessIsCurrent, P!Completion, P!Adult
  <2> QED
    BY <2>1, <2>2
<1> QED
  BY <1>2, <1>3, <1>6, <1>7, <1>8, RequestMoves

\* A client who turns 18 may be complete before the profile is saved again.
LEMMA TurnEighteenKeeps ==
    ASSUME P!IInv, P!TurnEighteen
    PROVE  P!IInv'
<1>1. /\ birthday = "ahead" /\ birthday' = "past" /\ role = "client"
      /\ UNCHANGED <<role, user, profile, request, stale>>
  BY DEF P!TurnEighteen
<1>2. P!TypeOK' /\ P!RequestsFit'
  BY <1>1 DEF P!IInv, P!TypeOK, P!RequestsFit, P!Fits
<1>3. profile.complete \in BOOLEAN
  BY DEF P!IInv, P!TypeOK, P!Profile
<1>4. P!CompletenessIsCurrent'
  <2> SUFFICES ASSUME ~stale', ~P!Between' PROVE P!CompletenessIsCurrent'
    BY DEF P!CompletenessIsCurrent
  <2>1. ~stale /\ ~P!Between
    BY <1>1 DEF P!Between
  <2>2. profile.complete = (user.filled = "adult")
    BY <1>1, <2>1 DEF P!IInv, P!CompletenessIsCurrent, P!Completion, P!Adult
  <2> QED
    BY <1>1, <1>3, <2>2 DEF P!CompletenessIsCurrent, P!Completion, P!Adult
<1> QED
  BY <1>1, <1>2, <1>4 DEF P!IInv

LEMMA ProfileStep == P!IInv /\ [P!Next]_(P!vars) => P!IInv'
<1> SUFFICES ASSUME P!IInv, [P!Next]_(P!vars) PROVE P!IInv'
  OBVIOUS
<1>1. ASSUME NEW w \in Clerks, NEW op \in P!OfUser \cup P!OfProfile, P!Fetch(w, op)
      PROVE  P!IInv'
  BY <1>1, FetchKeeps
<1>2. ASSUME NEW w \in Clerks, P!Load(w) PROVE P!IInv'
  BY <1>2, LoadKeeps
<1>3. ASSUME NEW w \in Clerks, P!SaveUser(w) PROVE P!IInv'
  BY <1>3, SaveUserKeeps
<1>4. ASSUME NEW w \in Clerks, P!SaveProfile(w) PROVE P!IInv'
  BY <1>4, SaveProfileKeeps
<1>5. ASSUME NEW w \in Clerks, P!Abandon(w) PROVE P!IInv'
  BY <1>5, AbandonKeeps
<1>6. ASSUME P!TurnEighteen PROVE P!IInv'
  BY <1>6, TurnEighteenKeeps
<1>7. CASE UNCHANGED P!vars
  BY <1>7 DEF P!vars, P!IInv, P!TypeOK, P!RequestsFit, P!Fits, P!CompletenessIsCurrent,
              P!Between, P!Completion, P!Adult
<1> QED
  BY <1>1, <1>2, <1>3, <1>4, <1>5, <1>6, <1>7 DEF P!Next

LEMMA ProfileInvariance == AccountsSpec => []P!IInv
<1>1. AccountsInit => P!IInv
  BY ProfileInit DEF AccountsInit
<1>2. P!IInv /\ [AccountsNext]_<<part, vars, noticeVars, accountVars>> => P!IInv'
  <2>1. [AccountsNext]_<<part, vars, noticeVars, accountVars>> => [P!Next]_(P!vars)
    BY DEF AccountsNext, accountVars, profileVars, P!vars
  <2> QED
    BY <2>1, ProfileStep
<1> QED
  BY <1>1, <1>2, PTL DEF AccountsSpec

\* The completion of a profile follows the fields it depends on, but for saves of
\* stale rows and between the two saves of a request (BaseProfile.save).
THEOREM CompletenessFollows == AccountsSpec => []CompletenessIsCurrent
<1>1. P!IInv => CompletenessIsCurrent
  BY DEF P!IInv, CompletenessIsCurrent
<1> QED
  BY <1>1, ProfileInvariance, PTL

LEMMA DecisionsStep ==
    ASSUME P!IInv, [P!Next]_(P!vars)
    PROVE  [P!PasswordStands /\ P!StatusStands /\ P!ApprovalStands]_(P!vars)
<1>1. ASSUME user' = user, profile' = profile
      PROVE  P!PasswordStands /\ P!StatusStands /\ P!ApprovalStands
  BY <1>1 DEF P!PasswordStands, P!StatusStands, P!ApprovalStands
<1>2. ASSUME NEW w \in Clerks, P!SaveUser(w)
      PROVE  P!PasswordStands /\ P!StatusStands /\ P!ApprovalStands
  <2>1. PICK op : op = request[w].op
    OBVIOUS
  <2>2. /\ request[w] # P!Nothing /\ request[w].step = "fetched"
        /\ op \in P!OfUser /\ profile' = profile
        /\ op = "reset_password" => user.password < MaxPasswords
    BY <1>2, <2>1 DEF P!SaveUser
  <2>3. PICK held \in P!Edits(op, request[w].user) :
           /\ user' = P!Saved(user, held, P!UserColumns(op))
           /\ request' = [request EXCEPT ![w] =
                 IF op \in P!SaveProfileToo
                 THEN [@ EXCEPT !.user = [P!NoUser EXCEPT !.filled = held.filled],
                                !.step = "saved"]
                 ELSE P!Nothing]
    BY <1>2, <2>1 DEF P!SaveUser
  <2>4. /\ user \in P!Users /\ request[w].user \in P!Users /\ request[w] \in P!Requests
    BY <2>2, HeldRows
  <2>5. /\ held \in P!Users
        /\ op # "reset_password" => held.password = request[w].user.password
        /\ op \in {"edit_me", "edit_client", "reset_password"} =>
              held.active = request[w].user.active
    BY <2>2, <2>4, HeldUser
  <2>6. /\ user'.active = IF "active" \in P!UserColumns(op) THEN held.active ELSE user.active
        /\ user'.password = IF "password" \in P!UserColumns(op) THEN held.password
                                                                ELSE user.password
    BY <2>3, <2>4, <2>5, SavedUser
  <2>7. P!Finishes(w)
    <3>1. request'[w] = IF op \in P!SaveProfileToo
                        THEN [request[w] EXCEPT !.user = [P!NoUser EXCEPT !.filled = held.filled],
                                                !.step = "saved"]
                        ELSE P!Nothing
      BY <2>3 DEF P!IInv
    <3>2. CASE op \in P!SaveProfileToo
      <4>1. request'[w].step = "saved"
        BY <2>4, <3>1, <3>2 DEF P!Requests
      <4> QED
        BY <2>2, <4>1 DEF P!Finishes
    <3>3. CASE op \notin P!SaveProfileToo
      BY <2>2, <3>1, <3>3 DEF P!Finishes
    <3> QED
      BY <3>2, <3>3
  <2>8. P!PasswordStands
    <3> SUFFICES ASSUME user'.password # user.password
                 PROVE  \/ op = "reset_password"
                        \/ /\ op \in {"edit_me", "edit_client", "edit_by_staff", "verify"}
                           /\ request[w].user.password = user'.password
      BY <2>1, <2>2, <2>7 DEF P!PasswordStands, P!Restores
    <3>1. op \notin {"activate", "deactivate"}
      BY <2>6 DEF P!UserColumns
    <3> QED
      BY <2>2, <2>5, <2>6, <3>1 DEF P!OfUser
  <2>9. P!StatusStands
    <3> SUFFICES ASSUME user'.active # user.active
                 PROVE  \/ op \in {"activate", "deactivate", "verify", "edit_by_staff"}
                        \/ /\ op \in {"edit_me", "edit_client", "reset_password"}
                           /\ request[w].user.active = user'.active
      BY <2>1, <2>2, <2>7 DEF P!StatusStands, P!Restores
    <3> QED
      BY <2>2, <2>5, <2>6 DEF P!OfUser
  <2>10. P!ApprovalStands
    BY <2>2 DEF P!ApprovalStands
  <2> QED
    BY <2>8, <2>9, <2>10
<1>3. ASSUME NEW w \in Clerks, P!SaveProfile(w)
      PROVE  P!PasswordStands /\ P!StatusStands /\ P!ApprovalStands
  <2>1. PICK r : r = request[w]
    OBVIOUS
  <2>2. /\ r # P!Nothing
        /\ request' = [request EXCEPT ![w] = P!Nothing]
        /\ UNCHANGED <<role, user>>
        /\ r.op \in P!Blind \/ r.op = "edit_client" \/ r.step = "loaded"
        /\ r.op = "mark_available" => profile'.approved = profile.approved
        /\ r.op \notin P!Blind \cup {"approve"} => profile'.approved = r.profile.approved
    BY <1>3, <2>1, ProfileSaved DEF P!Blind
  <2>3. /\ P!Fits(r) /\ r.op \in P!OfUser \cup P!OfProfile
        /\ r.profile \in P!Profile /\ profile \in P!Profile
    BY <2>1, <2>2, HeldRows
  <2>4. P!Finishes(w)
    BY <2>1, <2>2 DEF P!Finishes, P!IInv
  <2>5. P!ApprovalStands
    <3> SUFFICES ASSUME profile'.approved # profile.approved
                 PROVE  \/ r.op \in {"approve", "reject", "mark_approved", "mark_rejected"}
                        \/ /\ r.op \in {"edit_me", "edit_profile", "recalculate"}
                           /\ r.profile.approved = profile'.approved
      BY <2>1, <2>2, <2>4 DEF P!ApprovalStands, P!Restores
    <3>1. CASE r.op \in P!Blind \cup {"approve"}
      BY <2>2, <3>1 DEF P!Blind
    <3>2. CASE r.op \notin P!Blind \cup {"approve"}
      <4>1. profile'.approved = r.profile.approved
        BY <2>2, <3>2
      <4>2. r.op # "edit_client"
        <5> SUFFICES ASSUME r.op = "edit_client" PROVE FALSE
          OBVIOUS
        <5>1. role = "client" /\ ~r.profile.approved
          BY <2>3 DEF P!Fits
        <5>2. ~profile.approved
          BY <5>1 DEF P!IInv, P!TypeOK
        <5>3. r.profile.approved \in BOOLEAN /\ profile.approved \in BOOLEAN
          BY <2>3 DEF P!Profile
        <5>4. r.profile.approved = FALSE /\ profile.approved = FALSE
          BY <5>1, <5>2, <5>3
        <5> QED
          BY <4>1, <5>4
      <4>3. r.op \in {"edit_me", "edit_profile", "recalculate"}
        BY <2>2, <2>3, <3>2, <4>2 DEF P!Fits, P!SaveProfileToo, P!OfProfile, P!Blind
      <4> QED
        BY <4>1, <4>3
    <3> QED
      BY <3>1, <3>2
  <2> QED
    BY <2>2, <2>5 DEF P!PasswordStands, P!StatusStands
<1>4. CASE \/ \E w \in Clerks :
                 \/ \E op \in P!OfUser \cup P!OfProfile : P!Fetch(w, op)
                 \/ P!Load(w) \/ P!Abandon(w)
           \/ P!TurnEighteen
  BY <1>1, <1>4 DEF P!Fetch, P!Load, P!Abandon, P!TurnEighteen
<1> QED
  BY <1>2, <1>3, <1>4 DEF P!Next

\* A reset password, a status and an approval change only by a decision of their
\* kind, or by a request that saves the whole row it had fetched
\* (CurrentUserView.patch, AdminUserActivateView, AdminTechnicianApproveView).
THEOREM DecisionsOnlyDecided == AccountsSpec => DecisionsStand
<1>1. P!IInv /\ [AccountsNext]_<<part, vars, noticeVars, accountVars>> =>
          [P!PasswordStands /\ P!StatusStands /\ P!ApprovalStands]_(P!vars)
  <2>1. [AccountsNext]_<<part, vars, noticeVars, accountVars>> => [P!Next]_(P!vars)
    BY DEF AccountsNext, accountVars, profileVars, P!vars
  <2> QED
    BY <2>1, DecisionsStep
<1> QED
  BY <1>1, ProfileInvariance, PTL DEF AccountsSpec, DecisionsStand, P!DecisionsStand

-----------------------------------------------------------------------------
(***************************************************************************)
(* Registration.                                                           *)
(***************************************************************************)
CodeRows == [of : Applicants \cup {"none"}, state : {"none", "fresh", "expired", "used"}]

LEMMA CallFields ==
    ASSUME NEW c \in G!Calls
    PROVE  /\ c # G!NoCall
           /\ c.op \in {"register", "resend", "verify", "reset", "login"}
           /\ c.op \in {"register", "resend", "verify", "reset"} => c.account \in Applicants
           /\ c.op \in {"verify", "reset"} => c.code \in Codes
           /\ c.op = "resend" => c.sent \in BOOLEAN
           /\ c.op = "login" => c.attempts \in 0 .. Attempts - 1
<1>1. CASE c \in [op : {"register"}, account : Applicants]
  BY <1>1 DEF G!NoCall
<1>2. CASE c \in [op : {"verify", "reset"}, account : Applicants, code : Codes]
  BY <1>2 DEF G!NoCall
<1>3. CASE c \in [op : {"login"}, attempts : 0 .. Attempts - 1]
  BY <1>3 DEF G!NoCall
<1>4. CASE c \in [op : {"resend"}, account : Applicants, sent : BOOLEAN]
  BY <1>4 DEF G!NoCall
<1> QED
  BY <1>1, <1>2, <1>3, <1>4 DEF G!Calls

LEMMA CallsInFlight ==
    ASSUME G!IInv, NEW w \in Desks, NEW ops, G!InFlight(w, ops)
    PROVE  /\ call[w] \in G!Calls /\ call[w].op \in ops
           /\ call[w].op \in {"register", "resend", "verify", "reset"} =>
                 call[w].account \in Applicants
           /\ call[w].op \in {"verify", "reset"} => call[w].code \in Codes
           /\ call[w].op = "resend" => call[w].sent \in BOOLEAN
           /\ call[w].op = "login" => call[w].attempts \in 0 .. Attempts - 1
<1>1. call[w] \in G!Calls /\ call[w].op \in ops
  BY DEF G!IInv, G!InFlight
<1> QED
  BY <1>1, CallFields

LEMMA RegistrationInit == G!Init => G!IInv
<1> SUFFICES ASSUME G!Init PROVE G!IInv
  OBVIOUS
<1> USE DEF G!Init
<1>1. \A c \in Codes : code[c] = G!NoCode /\ code[c].state = "none" /\ code[c] \in CodeRows
  BY DEF G!NoCode, CodeRows
<1>2. G!TypeOK
  <2>1. attempts \in 0 .. Attempts
    BY CountersAssumption
  <2>2. /\ account \in [Applicants -> {"none", "inactive", "active"}]
        /\ cooldown \in BOOLEAN /\ overlapped = {}
    OBVIOUS
  <2> QED
    BY <1>1, <2>1, <2>2, Zenon DEF G!TypeOK
<1>3. /\ code \in [Codes -> CodeRows] /\ served \in [Codes -> 0 .. 2]
      /\ resent \in Nat /\ failures \in Nat
      /\ call \in [Desks -> G!Calls \cup {G!NoCall}]
  BY <1>1
<1>4. \A w \in Desks : call[w] = G!NoCall
  OBVIOUS
<1>5. G!Registered = {}
  BY DEF G!Registered
<1>6. G!RowsExist /\ G!EmailStillFree
  BY <1>4, <1>5 DEF G!RowsExist, G!EmailStillFree, G!InFlight
<1>7. G!CodesStillUnused /\ G!CooldownStillOver /\ G!CounterStillRead
  BY <1>4 DEF G!CodesStillUnused, G!CooldownStillOver, G!CounterStillRead, G!InFlight
<1> QED
  BY <1>2, <1>3, <1>6, <1>7 DEF G!IInv, CodeRows

\* What a step leaves alone: requests only end, or go on when they mail a code.
CallsEnd ==
    \A v \in Desks :
        \/ call'[v] = call[v]
        \/ call'[v] = G!NoCall
        \/ /\ call[v] # G!NoCall /\ call[v].op = "resend"
           /\ call'[v] # G!NoCall /\ call'[v].op = "resend"
           /\ call'[v].account = call[v].account

\* None that has mailed a code ends.
MailStays == G!MailIsOut => G!MailIsOut'

LEMMA MailKept ==
    ASSUME G!IInv, NEW w \in Desks, call' = [call EXCEPT ![w] = G!NoCall],
           G!InFlight(w, {"resend"}) => ~call[w].sent
    PROVE  MailStays
<1> SUFFICES ASSUME NEW v \in Desks, G!InFlight(v, {"resend"}), call[v].sent
             PROVE  G!InFlight(v, {"resend"})' /\ call'[v].sent
  BY DEF MailStays, G!MailIsOut, G!InFlight
<1>1. call'[v] = call[v]
  BY DEF G!IInv
<1> QED
  BY <1>1 DEF G!InFlight

LEMMA EmailKept ==
    ASSUME G!IInv, CallsEnd, G!Registered' = G!Registered,
           "register" \in overlapped => "register" \in overlapped'
    PROVE  G!EmailStillFree'
BY DEF G!IInv, CallsEnd, G!EmailStillFree, G!InFlight

LEMMA CodesKept ==
    ASSUME G!IInv, CallsEnd, served' = served,
           \A c \in Codes :
               /\ code'[c].state \in {"none", "fresh"} =>
                      code[c].state \in {"none", "fresh"}
               /\ c \in overlapped => c \in overlapped'
    PROVE  G!CodesStillUnused'
BY DEF G!IInv, CallsEnd, G!CodesStillUnused, G!InFlight

LEMMA CooldownKept ==
    ASSUME G!IInv, CallsEnd, MailStays, UNCHANGED <<cooldown, resent>>,
           "resend" \in overlapped => "resend" \in overlapped'
    PROVE  G!CooldownStillOver'
<1>1. \A v \in Desks : G!InFlight(v, {"resend"})' => G!InFlight(v, {"resend"})
  BY DEF CallsEnd, G!InFlight
<1> QED
  BY <1>1 DEF G!IInv, MailStays, G!CooldownStillOver, G!InFlight

LEMMA CounterKept ==
    ASSUME G!IInv, CallsEnd, UNCHANGED <<attempts, failures>>,
           "login" \in overlapped => "login" \in overlapped'
    PROVE  G!CounterStillRead'
BY DEF G!IInv, CallsEnd, G!CounterStillRead, G!InFlight

LEMMA RowsKept ==
    ASSUME G!IInv, CallsEnd,
           \A a \in Applicants : account[a] # "none" => account'[a] # "none",
           \A c \in Codes : code[c] # G!NoCode => code'[c] # G!NoCode
    PROVE  G!RowsExist'
<1> SUFFICES ASSUME NEW w \in Desks
             PROVE  /\ G!InFlight(w, {"verify", "reset", "resend"})' =>
                           account'[call'[w].account] # "none"
                    /\ G!InFlight(w, {"verify", "reset"})' => code'[call'[w].code] # G!NoCode
  BY DEF G!RowsExist, G!NoCode
<1>1. CASE call'[w] = G!NoCall
  BY <1>1 DEF G!InFlight
<1>2. CASE call'[w] = call[w]
  <2>1. \A ops : G!InFlight(w, ops)' = G!InFlight(w, ops)
    BY <1>2 DEF G!InFlight
  <2>2. ASSUME G!InFlight(w, {"verify", "reset", "resend"})
        PROVE  account'[call[w].account] # "none"
    BY <2>2, CallsInFlight DEF G!IInv, G!RowsExist
  <2>3. ASSUME G!InFlight(w, {"verify", "reset"})
        PROVE  code'[call[w].code] # G!NoCode
    BY <2>3, CallsInFlight DEF G!IInv, G!RowsExist
  <2> QED
    BY <1>2, <2>1, <2>2, <2>3
<1>3. CASE /\ call[w] # G!NoCall /\ call[w].op = "resend"
           /\ call'[w] # G!NoCall /\ call'[w].op = "resend"
           /\ call'[w].account = call[w].account
  <2>1. G!InFlight(w, {"verify", "reset", "resend"})
    BY <1>3 DEF G!InFlight
  <2>2. account'[call[w].account] # "none"
    BY <2>1, CallsInFlight, <1>3 DEF G!IInv, G!RowsExist
  <2> QED
    BY <1>3, <2>2 DEF G!InFlight
<1> QED
  BY <1>1, <1>2, <1>3 DEF CallsEnd

\* A request comes in, having read what was so, or ends without a write.
LEMMA CallMoves ==
    ASSUME G!IInv, NEW w \in Desks, NEW c \in G!Calls \cup {G!NoCall},
           call' = [call EXCEPT ![w] = c],
           UNCHANGED <<account, code, served, cooldown, resent, attempts, failures, overlapped>>,
           c # G!NoCall =>
               /\ c.op \in {"verify", "reset", "resend"} => account[c.account] # "none"
               /\ c.op \in {"verify", "reset"} => code[c.code] # G!NoCode /\ served[c.code] = 0
               /\ c.op = "register" => G!Registered = {}
               /\ c.op = "resend" =>
                     "resend" \in overlapped \/ resent = 0 \/ G!MailIsOut
               /\ c.op = "login" => c.attempts = attempts,
           G!InFlight(w, {"resend"}) => ~call[w].sent
    PROVE  G!IInv'
<1>1. \A v \in Desks : call'[v] = IF v = w THEN c ELSE call[v]
  BY DEF G!IInv
<1>2. /\ call' \in [Desks -> G!Calls \cup {G!NoCall}]
      /\ G!TypeOK'
  BY DEF G!IInv, G!TypeOK
<1>3. G!Registered' = G!Registered
  BY DEF G!Registered
<1>4. G!RowsExist'
  <2> SUFFICES ASSUME NEW v \in Desks
               PROVE  /\ G!InFlight(v, {"verify", "reset", "resend"})' =>
                             account[call'[v].account] # "none"
                      /\ G!InFlight(v, {"verify", "reset"})' => code[call'[v].code] # G!NoCode
    BY DEF G!RowsExist, G!NoCode
  <2>1. CASE v = w
    BY <1>1, <2>1 DEF G!InFlight
  <2>2. CASE v # w
    BY <1>1, <2>2 DEF G!InFlight, G!IInv, G!RowsExist
  <2> QED
    BY <2>1, <2>2
<1>5. G!EmailStillFree'
  BY <1>1, <1>3 DEF G!IInv, G!EmailStillFree, G!InFlight
<1>6. G!CodesStillUnused'
  BY <1>1 DEF G!IInv, G!CodesStillUnused, G!InFlight
<1>7. G!CooldownStillOver'
  <2>1. G!MailIsOut => G!MailIsOut'
    <3> SUFFICES ASSUME NEW v \in Desks, G!InFlight(v, {"resend"}), call[v].sent
                 PROVE  G!InFlight(v, {"resend"})' /\ call'[v].sent
      BY DEF G!MailIsOut, G!InFlight
    <3>1. call'[v] = call[v]
      BY <1>1
    <3> QED
      BY <3>1 DEF G!InFlight
  <2>2. (\E v \in Desks : G!InFlight(v, {"resend"})') =>
           \/ \E v \in Desks : G!InFlight(v, {"resend"})
           \/ "resend" \in overlapped \/ resent = 0 \/ G!MailIsOut
    BY <1>1 DEF G!InFlight
  <2> QED
    BY <2>1, <2>2 DEF G!IInv, G!CooldownStillOver, G!InFlight
<1>8. G!CounterStillRead'
  BY <1>1 DEF G!IInv, G!CounterStillRead, G!InFlight
<1>9. /\ served' \in [Codes -> 0 .. 2] /\ resent' \in Nat /\ failures' \in Nat
      /\ code' \in [Codes -> CodeRows]
  BY DEF G!IInv, CodeRows
<1> QED
  BY <1>2, <1>4, <1>5, <1>6, <1>7, <1>8, <1>9 DEF G!IInv, CodeRows

LEMMA RequestsKeep ==
    ASSUME G!IInv, NEW w \in Desks,
           \/ \E a \in Applicants : G!BeginRegister(w, a) \/ G!BeginResend(w, a)
           \/ \E a \in Applicants, c \in Codes : G!BeginVerify(w, a, c) \/ G!BeginReset(w, a, c)
           \/ G!BeginLogin(w)
           \/ G!Abandon(w) /\ ~G!Resending(w, TRUE)
    PROVE  G!IInv'
<1> USE DEF G!rows, G!cache, G!Begin
<1>0. call[w] = G!NoCall => ~G!InFlight(w, {"resend"})
  BY DEF G!InFlight
<1>1. ASSUME NEW a \in Applicants, G!BeginRegister(w, a) PROVE G!IInv'
  <2>1. PICK c : c = [op |-> "register", account |-> a]
    OBVIOUS
  <2>2. c \in G!Calls /\ c.op = "register"
    BY <2>1 DEF G!Calls
  <2> QED
    BY <1>0, <1>1, <2>1, <2>2, CallMoves DEF G!BeginRegister, G!EmailFree
<1>2. ASSUME NEW a \in Applicants, G!BeginResend(w, a) PROVE G!IInv'
  <2>1. PICK c : c = [op |-> "resend", account |-> a, sent |-> FALSE]
    OBVIOUS
  <2>2. c \in G!Calls /\ c.op = "resend" /\ c.account = a
    BY <2>1 DEF G!Calls
  <2>3. /\ "resend" \in overlapped \/ resent = 0 \/ G!MailIsOut
        /\ account[a] # "none"
    BY <1>2 DEF G!BeginResend, G!CooldownOver, G!IInv, G!CooldownStillOver
  <2> QED
    BY <1>0, <1>2, <2>1, <2>2, <2>3, CallMoves DEF G!BeginResend
<1>3. ASSUME NEW a \in Applicants, NEW k \in Codes, G!ValidCode(k, a), account[a] # "none",
             NEW op \in {"verify", "reset"}, G!Begin(w, [op |-> op, account |-> a, code |-> k]),
             UNCHANGED <<G!rows, G!cache, overlapped>>
      PROVE  G!IInv'
  <2>1. PICK c : c = [op |-> op, account |-> a, code |-> k]
    OBVIOUS
  <2>2. c \in G!Calls /\ c.op = op /\ c.account = a /\ c.code = k
    BY <2>1 DEF G!Calls
  <2>3. code[k] # G!NoCode /\ served[k] = 0
    BY <1>3 DEF G!ValidCode, G!NoCode, G!IInv, G!CodesStillUnused
  <2> QED
    BY <1>0, <1>3, <2>1, <2>2, <2>3, CallMoves
<1>4. ASSUME NEW a \in Applicants, NEW k \in Codes, G!BeginVerify(w, a, k) PROVE G!IInv'
  <2>1. account[a] # "none" /\ G!ValidCode(k, a)
    BY <1>4 DEF G!BeginVerify, G!TheOnly
  <2> QED
    BY <1>3, <1>4, <2>1 DEF G!BeginVerify
<1>5. ASSUME NEW a \in Applicants, NEW k \in Codes, G!BeginReset(w, a, k) PROVE G!IInv'
  <2>1. account[a] # "none" /\ G!ValidCode(k, a)
    BY <1>5 DEF G!BeginReset, G!TheOnly
  <2> QED
    BY <1>3, <1>5, <2>1 DEF G!BeginReset
<1>6. ASSUME G!BeginLogin(w) PROVE G!IInv'
  <2>1. PICK c : c = [op |-> "login", attempts |-> attempts]
    OBVIOUS
  <2>2. attempts \in 0 .. Attempts - 1
    BY <1>6, CountersAssumption DEF G!BeginLogin, G!BelowLimit, G!IInv, G!TypeOK
  <2>3. c \in G!Calls /\ c.op = "login" /\ c.attempts = attempts
    BY <2>1, <2>2 DEF G!Calls
  <2> QED
    BY <1>0, <1>6, <2>1, <2>3, CallMoves DEF G!BeginLogin
<1>7. ASSUME G!Abandon(w), ~G!Resending(w, TRUE) PROVE G!IInv'
  <2>1. G!InFlight(w, {"resend"}) => ~call[w].sent
    BY <1>7, CallsInFlight DEF G!Resending, G!InFlight
  <2>2. UNCHANGED overlapped
    BY <1>7, <2>1 DEF G!Abandon, G!InFlight
  <2> QED
    BY <1>7, <2>1, <2>2, CallMoves DEF G!Abandon
<1> QED
  BY <1>1, <1>2, <1>4, <1>5, <1>6, <1>7

Statuses == [Applicants -> {"none", "inactive", "active"}]

\* The codes after one of them was created for an account that exists, or changed.
CodesMove ==
    /\ code' \in [Codes -> CodeRows]
    /\ \A c \in Codes :
          /\ code[c] # G!NoCode => code'[c] # G!NoCode
          /\ code'[c].state \in {"none", "fresh"} => code[c].state \in {"none", "fresh"}
          /\ code'[c] # G!NoCode =>
                code'[c].of \in Applicants /\ account'[code'[c].of] # "none"

LEMMA CodeCreated ==
    ASSUME G!IInv, NEW a \in Applicants, account'[a] # "none",
           \A b \in Applicants : account[b] # "none" => account'[b] # "none",
           \E c \in Codes : G!Created(c, a)
    PROVE  CodesMove
<1>1. PICK c \in Codes : G!Created(c, a)
  OBVIOUS
<1>2. PICK new : new = [of |-> a, state |-> "fresh"]
  OBVIOUS
<1>3. new \in CodeRows /\ new.of = a /\ new.state = "fresh" /\ new # G!NoCode
  BY <1>2 DEF CodeRows, G!NoCode
<1>4. code' = [code EXCEPT ![c] = new] /\ code[c] = G!NoCode
  BY <1>1, <1>2 DEF G!Created
<1>5. code' \in [Codes -> CodeRows] /\ \A d \in Codes : code'[d] = IF d = c THEN new ELSE code[d]
  BY <1>3, <1>4 DEF G!IInv, CodeRows
<1>6. code[c].state = "none"
  BY <1>4 DEF G!NoCode
<1>7. \A d \in Codes : code[d] # G!NoCode =>
         code[d].of \in Applicants /\ account[code[d].of] # "none"
  BY DEF G!IInv, G!TypeOK
<1> QED
  BY <1>3, <1>5, <1>6, <1>7 DEF CodesMove

LEMMA CodeChanged ==
    ASSUME G!IInv, NEW c \in Codes, code[c] # G!NoCode, NEW s \in {"expired", "used"},
           \A b \in Applicants : account[b] # "none" => account'[b] # "none",
           code' = [code EXCEPT ![c].state = s]
    PROVE  CodesMove
<1>1. PICK new : new = [code[c] EXCEPT !.state = s]
  OBVIOUS
<1>2. code[c] \in CodeRows
  BY DEF G!IInv, CodeRows
<1>3. new \in CodeRows /\ new.of = code[c].of /\ new.state = s /\ new # G!NoCode
  BY <1>1, <1>2 DEF CodeRows, G!NoCode
<1>4. code' = [code EXCEPT ![c] = new]
  BY <1>1
<1>5. code' \in [Codes -> CodeRows] /\ \A d \in Codes : code'[d] = IF d = c THEN new ELSE code[d]
  BY <1>3, <1>4 DEF G!IInv, CodeRows
<1>6. \A d \in Codes : code[d] # G!NoCode =>
         code[d].of \in Applicants /\ account[code[d].of] # "none"
  BY DEF G!IInv, G!TypeOK
<1> QED
  BY <1>3, <1>5, <1>6 DEF CodesMove

LEMMA CodesUnchanged ==
    ASSUME G!IInv, code' = code,
           \A b \in Applicants : account[b] # "none" => account'[b] # "none"
    PROVE  CodesMove
BY DEF CodesMove, G!IInv, G!TypeOK, CodeRows

LEMMA RowStepsKeep ==
    ASSUME G!IInv, UNCHANGED <<served, call, cooldown, resent, attempts, failures, overlapped>>,
           account' \in Statuses, CodesMove,
           \A a \in Applicants : account'[a] = "none" <=> account[a] = "none"
    PROVE  G!IInv'
<1>1. CallsEnd /\ MailStays /\ G!Registered' = G!Registered
  BY DEF CallsEnd, MailStays, G!MailIsOut, G!InFlight, G!Registered
<1>2. G!EmailStillFree' /\ G!CodesStillUnused' /\ G!CooldownStillOver' /\ G!CounterStillRead'
  BY <1>1, EmailKept, CodesKept, CooldownKept, CounterKept DEF CodesMove
<1>3. G!RowsExist'
  BY <1>1, RowsKept DEF CodesMove
<1>4. G!TypeOK'
  <2>1. \A c \in Codes :
           /\ code'[c].state \in {"none", "fresh", "expired", "used"}
           /\ code'[c] # G!NoCode =>
                 code'[c].of \in Applicants /\ account'[code'[c].of] # "none"
    BY DEF CodesMove, CodeRows
  <2> QED
    BY <2>1 DEF G!TypeOK, G!IInv, Statuses, G!NoCode
<1> QED
  BY <1>2, <1>3, <1>4 DEF G!IInv, CodesMove, CodeRows

LEMMA StatusesKeep ==
    ASSUME G!IInv,
           \/ \E a \in Applicants : G!ForgotPassword(a) \/ G!Activate(a) \/ G!Deactivate(a)
           \/ \E c \in Codes : G!ExpireCode(c) \/ G!CleanUpCode(c)
    PROVE  G!IInv'
<1> USE DEF G!cache
<1>0. account \in Statuses
  BY DEF G!IInv, G!TypeOK, Statuses
<1>1. ASSUME NEW a \in Applicants, G!ForgotPassword(a) PROVE G!IInv'
  <2>1. CodesMove
    BY <1>1, CodeCreated DEF G!ForgotPassword
  <2> QED
    BY <1>0, <1>1, <2>1, RowStepsKeep DEF G!ForgotPassword
<1>2. ASSUME NEW a \in Applicants, NEW s \in {"active", "inactive"}, account[a] # "none",
             account' = [account EXCEPT ![a] = s],
             UNCHANGED <<code, served, call, cooldown, resent, attempts, failures, overlapped>>
      PROVE  G!IInv'
  <2>1. account' \in Statuses /\ \A b \in Applicants : account'[b] = "none" <=> account[b] = "none"
    BY <1>0, <1>2 DEF Statuses
  <2>2. CodesMove
    BY <1>2, <2>1, CodesUnchanged
  <2> QED
    BY <1>2, <2>1, <2>2, RowStepsKeep
<1>3. ASSUME NEW c \in Codes, NEW s \in {"expired", "used"},
             code[c].state \in {"fresh", "expired"}, code' = [code EXCEPT ![c].state = s],
             UNCHANGED <<account, served, call, cooldown, resent, attempts, failures, overlapped>>
      PROVE  G!IInv'
  <2>1. code[c] # G!NoCode
    BY <1>3 DEF G!NoCode
  <2>2. CodesMove
    BY <1>3, <2>1, CodeChanged
  <2> QED
    BY <1>0, <1>3, <2>2, RowStepsKeep
<1>4. ASSUME NEW a \in Applicants, G!Activate(a) \/ G!Deactivate(a) PROVE G!IInv'
  BY <1>2, <1>4 DEF G!Activate, G!Deactivate
<1>5. ASSUME NEW c \in Codes, G!ExpireCode(c) \/ G!CleanUpCode(c) PROVE G!IInv'
  BY <1>3, <1>5 DEF G!ExpireCode, G!CleanUpCode
<1> QED
  BY <1>1, <1>4, <1>5

\* A request that ends with a write: if nothing overlapped, no other of its kind
\* is in flight.
LEMMA WriteEnds ==
    ASSUME G!IInv, NEW w \in Desks, NEW op, G!EndWrite(w, op),
           op \in {"register", "resend", "login"}
    PROVE  /\ CallsEnd /\ call' \in [Desks -> G!Calls \cup {G!NoCall}]
           /\ G!InFlight(w, {op}) /\ op # "resend" => MailStays
           /\ \A x : x \in overlapped => x \in overlapped'
           /\ overlapped' \subseteq {"register", "resend", "login"} \cup Codes
           /\ op \notin overlapped' =>
                 op \notin overlapped /\ \A v \in Desks : ~G!InFlight(v, {op})'
<1>1. \A v \in Desks : call'[v] = IF v = w THEN G!NoCall ELSE call[v]
  BY DEF G!EndWrite, G!IInv
<1>2. /\ call' \in [Desks -> G!Calls \cup {G!NoCall}]
      /\ overlapped \subseteq {"register", "resend", "login"} \cup Codes
  BY DEF G!EndWrite, G!IInv, G!TypeOK
<1>3. /\ overlapped' = IF G!OthersIn(w, op) THEN overlapped \cup {op} ELSE overlapped
  BY DEF G!EndWrite
<1>4. op \notin overlapped' =>
         op \notin overlapped /\ \A v \in Desks : ~G!InFlight(v, {op})'
  <2> SUFFICES ASSUME op \notin overlapped', NEW v \in Desks
               PROVE  op \notin overlapped /\ ~G!InFlight(v, {op})'
    BY <1>3
  <2>1. ~G!OthersIn(w, op) /\ op \notin overlapped
    BY <1>3
  <2> QED
    BY <1>1, <2>1 DEF G!OthersIn, G!InFlight
<1>5. G!InFlight(w, {op}) /\ op # "resend" => MailStays
  BY MailKept DEF G!EndWrite, G!InFlight
<1> QED
  BY <1>1, <1>2, <1>3, <1>4, <1>5 DEF CallsEnd

\* The types after a step, and the rows that requests refer to.
LEMMA TypesKept ==
    ASSUME G!IInv, CallsEnd, CodesMove, account' \in Statuses,
           \A b \in Applicants : account[b] # "none" => account'[b] # "none",
           call' \in [Desks -> G!Calls \cup {G!NoCall}],
           served' \in [Codes -> 0 .. 2], resent' \in Nat, failures' \in Nat,
           cooldown' \in BOOLEAN, attempts' \in 0 .. Attempts,
           overlapped' \subseteq {"register", "resend", "login"} \cup Codes,
           G!EmailStillFree', G!CodesStillUnused', G!CooldownStillOver', G!CounterStillRead'
    PROVE  G!IInv'
<1>1. G!RowsExist'
  BY RowsKept DEF CodesMove
<1>2. G!TypeOK'
  <2>1. \A c \in Codes :
           /\ code'[c].state \in {"none", "fresh", "expired", "used"}
           /\ code'[c] # G!NoCode =>
                 code'[c].of \in Applicants /\ account'[code'[c].of] # "none"
    BY DEF CodesMove, CodeRows
  <2> QED
    BY <2>1 DEF G!TypeOK, Statuses, G!NoCode
<1> QED
  BY <1>1, <1>2 DEF G!IInv, CodesMove, CodeRows

LEMMA KnownTypes ==
    ASSUME G!IInv
    PROVE  /\ account \in Statuses /\ cooldown \in BOOLEAN /\ attempts \in 0 .. Attempts
           /\ served \in [Codes -> 0 .. 2] /\ resent \in Nat /\ failures \in Nat
           /\ overlapped \subseteq {"register", "resend", "login"} \cup Codes
BY DEF G!IInv, G!TypeOK, Statuses

LEMMA CommitRegisterKeeps ==
    ASSUME G!IInv, NEW w \in Desks, G!CommitRegister(w)
    PROVE  G!IInv'
<1>1. PICK a : a = call[w].account
  OBVIOUS
<1>2. G!InFlight(w, {"register"}) /\ a \in Applicants
  <2>1. G!InFlight(w, {"register"})
    BY DEF G!CommitRegister, G!InFlight
  <2> QED
    BY <1>1, <2>1, CallsInFlight
<1>3. /\ \E c \in Codes : G!Created(c, a)
      /\ account' = [account EXCEPT ![a] = "inactive"] /\ G!EndWrite(w, "register")
      /\ UNCHANGED <<served, cooldown, resent, attempts, failures>>
  BY <1>1 DEF G!CommitRegister, G!cache
<1>4. /\ account' \in Statuses /\ account'[a] = "inactive"
      /\ \A b \in Applicants \ {a} : account'[b] = account[b]
  BY <1>2, <1>3, KnownTypes DEF Statuses
<1>5. \A b \in Applicants : account[b] # "none" => account'[b] # "none"
  BY <1>4
<1>6. CodesMove
  BY <1>2, <1>3, <1>4, <1>5, CodeCreated
<1>7. /\ CallsEnd /\ MailStays /\ call' \in [Desks -> G!Calls \cup {G!NoCall}]
      /\ \A x : x \in overlapped => x \in overlapped'
      /\ overlapped' \subseteq {"register", "resend", "login"} \cup Codes
      /\ "register" \notin overlapped' =>
            "register" \notin overlapped /\ \A v \in Desks : ~G!InFlight(v, {"register"})'
  BY <1>2, <1>3, WriteEnds
<1>8. G!EmailStillFree'
  <2> SUFFICES ASSUME "register" \notin overlapped'
               PROVE  /\ \A v \in Desks : ~G!InFlight(v, {"register"})'
                      /\ \A b, d \in G!Registered' : b = d
    BY DEF G!EmailStillFree, G!InFlight, G!Registered
  <2>1. G!Registered = {}
    BY <1>2, <1>7 DEF G!IInv, G!EmailStillFree
  <2>2. G!Registered' \subseteq {a}
    BY <1>4, <2>1 DEF G!Registered
  <2> QED
    BY <1>7, <2>2
<1>9. G!CodesStillUnused' /\ G!CooldownStillOver' /\ G!CounterStillRead'
  BY <1>3, <1>6, <1>7, CodesKept, CooldownKept, CounterKept DEF CodesMove
<1> QED
  BY <1>3, <1>4, <1>5, <1>6, <1>7, <1>8, <1>9, KnownTypes, TypesKept

\* Who mails while no other is about to, mails the first code of the period.
LEMMA SendCodeKeeps ==
    ASSUME G!IInv, NEW w \in Desks, G!SendCode(w)
    PROVE  G!IInv'
<1>1. PICK a : a = call[w].account
  OBVIOUS
<1>2. /\ G!InFlight(w, {"resend"}) /\ ~call[w].sent
      /\ call[w] \in G!Calls /\ call[w].op = "resend"
      /\ a \in Applicants /\ account[a] # "none"
  <2>1. /\ G!InFlight(w, {"resend"}) /\ G!InFlight(w, {"verify", "reset", "resend"})
        /\ ~call[w].sent
    BY DEF G!SendCode, G!Resending, G!InFlight
  <2>2. call[w] \in G!Calls /\ call[w].op = "resend" /\ call[w].account \in Applicants
    BY <2>1, CallsInFlight DEF G!InFlight
  <2> QED
    BY <1>1, <2>1, <2>2 DEF G!IInv, G!RowsExist
<1>3. /\ \E c \in Codes : G!Created(c, a)
      /\ resent' = resent + 1 /\ call' = [call EXCEPT ![w].sent = TRUE]
      /\ overlapped' = IF G!OthersIn(w, "resend") THEN overlapped \cup {"resend"}
                                                 ELSE overlapped
      /\ UNCHANGED <<account, served, cooldown, attempts, failures>>
  BY <1>1 DEF G!SendCode
<1>4. PICK c : c = [call[w] EXCEPT !.sent = TRUE]
  OBVIOUS
<1>5. c \in G!Calls /\ c.op = "resend" /\ c.account = a /\ c.sent /\ c # G!NoCall
  <2>1. CASE call[w] \in [op : {"resend"}, account : Applicants, sent : BOOLEAN]
    <3>1. /\ c \in [op : {"resend"}, account : Applicants, sent : BOOLEAN]
          /\ c.account = a /\ c.sent
      BY <1>1, <1>4, <2>1
    <3> QED
      BY <3>1, CallFields DEF G!Calls
  <2>2. CASE call[w] \notin [op : {"resend"}, account : Applicants, sent : BOOLEAN]
    BY <1>2, <2>2 DEF G!Calls
  <2> QED
    BY <2>1, <2>2
<1>6. /\ \A v \in Desks : call'[v] = IF v = w THEN c ELSE call[v]
      /\ call' \in [Desks -> G!Calls \cup {G!NoCall}]
  <2>1. call' = [call EXCEPT ![w] = c]
    BY <1>3, <1>4
  <2> QED
    BY <1>5, <2>1 DEF G!IInv
<1>7. CallsEnd
  BY <1>1, <1>2, <1>5, <1>6 DEF CallsEnd, G!InFlight
<1>8. CodesMove
  BY <1>2, <1>3, CodeCreated
<1>9. /\ \A x : x \in overlapped => x \in overlapped'
      /\ overlapped' \subseteq {"register", "resend", "login"} \cup Codes
  BY <1>3, KnownTypes
<1>10. G!CooldownStillOver'
  <2> SUFFICES ASSUME "resend" \notin overlapped' PROVE resent' <= 1 /\ G!MailIsOut'
    BY DEF G!CooldownStillOver
  <2>1. "resend" \notin overlapped /\ ~G!OthersIn(w, "resend")
    BY <1>3, <1>9
  <2>2. ~G!MailIsOut
    BY <1>2, <2>1 DEF G!MailIsOut, G!OthersIn, G!InFlight
  <2>3. resent = 0
    BY <1>2, <2>1, <2>2 DEF G!IInv, G!CooldownStillOver
  <2>4. G!MailIsOut'
    BY <1>5, <1>6 DEF G!MailIsOut, G!InFlight
  <2> QED
    BY <1>3, <2>3, <2>4
<1>11. G!Registered' = G!Registered
  BY <1>3 DEF G!Registered
<1>12. G!EmailStillFree' /\ G!CodesStillUnused' /\ G!CounterStillRead'
  BY <1>3, <1>7, <1>8, <1>9, <1>11, EmailKept, CodesKept, CounterKept DEF CodesMove
<1>13. resent' \in Nat
  BY <1>3, KnownTypes
<1> QED
  BY <1>3, <1>6, <1>7, <1>8, <1>9, <1>10, <1>12, <1>13, KnownTypes, TypesKept

LEMMA FailToSendKeeps ==
    ASSUME G!IInv, NEW w \in Desks, G!FailToSend(w)
    PROVE  G!IInv'
<1>1. PICK a : a = call[w].account
  OBVIOUS
<1>2. ~call[w].sent /\ a \in Applicants /\ account[a] # "none"
  <2>1. G!InFlight(w, {"verify", "reset", "resend"}) /\ call[w].op = "resend" /\ ~call[w].sent
    BY DEF G!FailToSend, G!Resending, G!InFlight
  <2> QED
    BY <1>1, <2>1, CallsInFlight DEF G!IInv, G!RowsExist
<1>3. /\ \E c \in Codes : G!Created(c, a)
      /\ call' = [call EXCEPT ![w] = G!NoCall]
      /\ UNCHANGED <<account, served, cooldown, resent, attempts, failures, overlapped>>
  BY <1>1 DEF G!FailToSend, G!cache
<1>4. CodesMove
  BY <1>2, <1>3, CodeCreated
<1>5. CallsEnd /\ call' \in [Desks -> G!Calls \cup {G!NoCall}]
  BY <1>3 DEF G!IInv, CallsEnd
<1>6. MailStays /\ G!Registered' = G!Registered
  BY <1>2, <1>3, MailKept DEF G!Registered
<1>7. G!EmailStillFree' /\ G!CodesStillUnused' /\ G!CooldownStillOver' /\ G!CounterStillRead'
  BY <1>3, <1>4, <1>5, <1>6, EmailKept, CodesKept, CooldownKept, CounterKept DEF CodesMove
<1> QED
  BY <1>3, <1>4, <1>5, <1>7, KnownTypes, TypesKept

\* With the cooldown set and no other about to mail, none can.
LEMMA SetCooldownKeeps ==
    ASSUME G!IInv, NEW w \in Desks, G!SetCooldown(w)
    PROVE  G!IInv'
<1>1. /\ cooldown' = TRUE /\ G!EndWrite(w, "resend")
      /\ UNCHANGED <<account, code, served, resent, attempts, failures>>
  BY DEF G!SetCooldown, G!rows
<1>2. /\ CallsEnd /\ call' \in [Desks -> G!Calls \cup {G!NoCall}]
      /\ \A x : x \in overlapped => x \in overlapped'
      /\ overlapped' \subseteq {"register", "resend", "login"} \cup Codes
      /\ "resend" \notin overlapped' =>
            "resend" \notin overlapped /\ \A v \in Desks : ~G!InFlight(v, {"resend"})'
  BY <1>1, WriteEnds
<1>3. CodesMove /\ G!Registered' = G!Registered
  BY <1>1, CodesUnchanged DEF G!Registered
<1>4. G!CooldownStillOver'
  <2>1. "resend" \notin overlapped' => resent' <= 1
    BY <1>1, <1>2 DEF G!IInv, G!CooldownStillOver
  <2> QED
    BY <1>1, <1>2, <2>1 DEF G!CooldownStillOver, G!InFlight
<1>5. G!EmailStillFree' /\ G!CodesStillUnused' /\ G!CounterStillRead'
  BY <1>1, <1>2, <1>3, EmailKept, CodesKept, CounterKept DEF CodesMove
<1> QED
  BY <1>1, <1>2, <1>3, <1>4, <1>5, KnownTypes, TypesKept

\* A request that stops after the mail leaves no cooldown, which is recorded.
LEMMA StoppedMailKeeps ==
    ASSUME G!IInv, NEW w \in Desks, G!Abandon(w), G!Resending(w, TRUE)
    PROVE  G!IInv'
<1>1. /\ call' = [call EXCEPT ![w] = G!NoCall] /\ overlapped' = overlapped \cup {"resend"}
      /\ UNCHANGED <<account, code, served, cooldown, resent, attempts, failures>>
  BY DEF G!Abandon, G!Resending, G!rows, G!cache
<1>2. CallsEnd /\ call' \in [Desks -> G!Calls \cup {G!NoCall}]
  BY <1>1 DEF G!IInv, CallsEnd
<1>3. CodesMove /\ G!Registered' = G!Registered
  BY <1>1, CodesUnchanged DEF G!Registered
<1>4. G!CooldownStillOver'
  BY <1>1 DEF G!CooldownStillOver
<1>5. G!EmailStillFree' /\ G!CodesStillUnused' /\ G!CounterStillRead'
  BY <1>1, <1>2, <1>3, EmailKept, CodesKept, CounterKept DEF CodesMove
<1>6. overlapped' \subseteq {"register", "resend", "login"} \cup Codes
  BY <1>1, KnownTypes
<1> QED
  BY <1>1, <1>2, <1>3, <1>4, <1>5, <1>6, KnownTypes, TypesKept

\* A code that serves a request cannot serve another, unless two had found it
\* unused.
LEMMA CodeUsedKeeps ==
    ASSUME G!IInv, NEW w \in Desks, G!InFlight(w, {"verify", "reset"}),
           account' = [account EXCEPT ![call[w].account] = "active"], G!UseCode(w)
    PROVE  G!IInv'
<1>1. PICK a, c : a = call[w].account /\ c = call[w].code
  OBVIOUS
<1>2. /\ a \in Applicants /\ account[a] # "none" /\ c \in Codes /\ code[c] # G!NoCode
      /\ call[w] # G!NoCall /\ call[w].op \in {"verify", "reset"}
  <2>1. G!InFlight(w, {"verify", "reset", "resend"})
    BY DEF G!InFlight
  <2> QED
    BY <1>1, <2>1, CallsInFlight DEF G!IInv, G!RowsExist, G!InFlight
<1>3. /\ account' = [account EXCEPT ![a] = "active"]
      /\ code' = [code EXCEPT ![c].state = "used"]
      /\ served' = [served EXCEPT ![c] = IF @ < 2 THEN @ + 1 ELSE @]
      /\ call' = [call EXCEPT ![w] = G!NoCall]
      /\ overlapped' = IF \E v \in Desks \ {w} : call[v] # G!NoCall
                              /\ call[v].op \in {"verify", "reset"} /\ call[v].code = c
                       THEN overlapped \cup {c} ELSE overlapped
      /\ UNCHANGED <<cooldown, resent, attempts, failures>>
  BY <1>1 DEF G!UseCode, G!cache
<1>4. /\ account' \in Statuses
      /\ \A b \in Applicants : account[b] # "none" <=> account'[b] # "none"
  BY <1>2, <1>3, KnownTypes DEF Statuses
<1>5. CodesMove
  BY <1>2, <1>3, <1>4, CodeChanged
<1>6. /\ \A v \in Desks : call'[v] = IF v = w THEN G!NoCall ELSE call[v]
      /\ call' \in [Desks -> G!Calls \cup {G!NoCall}]
  BY <1>3 DEF G!IInv
<1>7. /\ CallsEnd /\ \A x : x \in overlapped => x \in overlapped'
      /\ overlapped' \subseteq {"register", "resend", "login"} \cup Codes
  BY <1>2, <1>3, <1>6, KnownTypes DEF CallsEnd
<1>8. served[c] \in 0 .. 2 /\ \A d \in Codes \ {c} : served'[d] = served[d]
  BY <1>2, <1>3, KnownTypes
<1>9. served'[c] = IF served[c] < 2 THEN served[c] + 1 ELSE served[c]
  BY <1>2, <1>3, KnownTypes
<1>10. served' \in [Codes -> 0 .. 2]
  <2>1. served'[c] \in 0 .. 2
    BY <1>8, <1>9
  <2>2. DOMAIN served' = Codes /\ served' = [d \in Codes |-> served'[d]]
    BY <1>3, KnownTypes
  <2>3. \A d \in Codes : served'[d] \in 0 .. 2
    BY <1>8, <2>1, KnownTypes
  <2> QED
    BY <2>2, <2>3
<1>11. G!CodesStillUnused'
  <2> SUFFICES ASSUME NEW d \in Codes
               PROVE  /\ code'[d].state \in {"none", "fresh"} => served'[d] = 0
                      /\ d \notin overlapped' =>
                            /\ \A v \in Desks :
                                  G!InFlight(v, {"verify", "reset"})' /\ call'[v].code = d
                                      => served'[d] = 0
                            /\ served'[d] <= 1
    BY DEF G!CodesStillUnused, G!InFlight
  <2>1. CASE d = c
    <3>1. code'[c].state = "used"
      BY <1>2, <1>3 DEF G!IInv
    <3>2. c \notin overlapped' =>
             /\ c \notin overlapped
             /\ \A v \in Desks : ~(G!InFlight(v, {"verify", "reset"})' /\ call'[v].code = c)
      BY <1>3, <1>6, <1>7 DEF G!InFlight
    <3>3. c \notin overlapped => served[c] = 0
      BY <1>1, <1>2 DEF G!IInv, G!CodesStillUnused, G!InFlight
    <3>4. c \notin overlapped' => served'[c] = 1
      BY <1>9, <3>2, <3>3
    <3> QED
      BY <2>1, <3>1, <3>2, <3>4
  <2>2. CASE d # c
    <3>1. served'[d] = served[d] /\ code'[d] = code[d]
      BY <1>3, <1>8, <2>2 DEF G!IInv
    <3>2. d \notin overlapped' => d \notin overlapped
      BY <1>7
    <3> QED
      BY <1>6, <3>1, <3>2 DEF G!IInv, G!CodesStillUnused, G!InFlight
  <2> QED
    BY <2>1, <2>2
<1>12. G!Registered' = G!Registered
  BY <1>4 DEF G!Registered
<1>13. MailStays
  BY <1>2, <1>3, MailKept DEF G!InFlight
<1>14. G!EmailStillFree' /\ G!CooldownStillOver' /\ G!CounterStillRead'
  BY <1>3, <1>7, <1>12, <1>13, EmailKept, CooldownKept, CounterKept
<1> QED
  BY <1>3, <1>4, <1>5, <1>6, <1>7, <1>10, <1>11, <1>14, KnownTypes, TypesKept

LEMMA EndCooldownKeeps ==
    ASSUME G!IInv, G!EndCooldown
    PROVE  G!IInv'
<1>1. /\ cooldown' = FALSE /\ resent' = 0
      /\ UNCHANGED <<account, code, served, call, attempts, failures>>
      /\ \A x : x # "resend" /\ x \in overlapped => x \in overlapped'
      /\ overlapped' \subseteq overlapped
  BY DEF G!EndCooldown, G!rows
<1>2. CallsEnd /\ G!Registered' = G!Registered /\ CodesMove
  BY <1>1, CodesUnchanged DEF CallsEnd, G!Registered
<1>3. G!CooldownStillOver'
  BY <1>1 DEF G!CooldownStillOver
<1>4. \A c \in Codes : c # "resend"
  BY CodesAssumption
<1>5. G!EmailStillFree' /\ G!CodesStillUnused' /\ G!CounterStillRead'
  BY <1>1, <1>2, <1>4, EmailKept, CodesKept, CounterKept
<1>6. call' \in [Desks -> G!Calls \cup {G!NoCall}]
  BY <1>1 DEF G!IInv
<1> QED
  BY <1>1, <1>2, <1>3, <1>5, <1>6, KnownTypes, TypesKept

LEMMA LoginsKeep ==
    ASSUME G!IInv, NEW w \in Desks, G!WrongPassword(w) \/ G!RightPassword(w)
    PROVE  G!IInv'
<1>1. G!InFlight(w, {"login"}) /\ call[w].attempts \in 0 .. Attempts - 1
  <2>1. G!InFlight(w, {"login"})
    BY DEF G!WrongPassword, G!RightPassword, G!InFlight
  <2> QED
    BY <2>1, CallsInFlight DEF G!InFlight
<1>2. /\ G!EndWrite(w, "login")
      /\ UNCHANGED <<account, code, served, cooldown, resent>>
      /\ \/ attempts' = call[w].attempts + 1 /\ failures' = failures + 1
         \/ attempts' = 0 /\ failures' = 0
  BY DEF G!WrongPassword, G!RightPassword, G!rows, G!AfterFailure
<1>3. /\ CallsEnd /\ MailStays /\ call' \in [Desks -> G!Calls \cup {G!NoCall}]
      /\ \A x : x \in overlapped => x \in overlapped'
      /\ overlapped' \subseteq {"register", "resend", "login"} \cup Codes
      /\ "login" \notin overlapped' =>
            "login" \notin overlapped /\ \A v \in Desks : ~G!InFlight(v, {"login"})'
  BY <1>1, <1>2, WriteEnds
<1>4. attempts' \in 0 .. Attempts /\ failures' \in Nat
  BY <1>1, <1>2, KnownTypes, CountersAssumption
<1>5. G!CounterStillRead'
  <2>1. "login" \notin overlapped => failures = attempts /\ call[w].attempts = attempts
    BY <1>1 DEF G!IInv, G!CounterStillRead
  <2>2. "login" \notin overlapped' => failures' = attempts'
    BY <1>2, <1>3, <2>1
  <2> QED
    BY <1>3, <2>2 DEF G!CounterStillRead, G!InFlight
<1>6. G!Registered' = G!Registered /\ CodesMove
  BY <1>2, CodesUnchanged DEF G!Registered
<1>7. G!EmailStillFree' /\ G!CodesStillUnused' /\ G!CooldownStillOver'
  BY <1>2, <1>3, <1>6, EmailKept, CodesKept, CooldownKept
<1> QED
  BY <1>2, <1>3, <1>4, <1>5, <1>6, <1>7, KnownTypes, TypesKept

LEMMA EndWindowKeeps ==
    ASSUME G!IInv, G!EndWindow
    PROVE  G!IInv'
<1>1. /\ attempts' = 0 /\ failures' = 0
      /\ UNCHANGED <<account, code, served, call, cooldown, resent>>
      /\ \A x : x # "login" /\ x \in overlapped => x \in overlapped'
      /\ overlapped' \subseteq overlapped \cup {"login"}
      /\ "login" \notin overlapped' => \A w \in Desks : ~G!InFlight(w, {"login"})
  BY DEF G!EndWindow, G!rows, G!InFlight
<1>2. CallsEnd /\ MailStays /\ G!Registered' = G!Registered /\ CodesMove
  BY <1>1, CodesUnchanged DEF CallsEnd, MailStays, G!MailIsOut, G!InFlight, G!Registered
<1>3. G!CounterStillRead'
  BY <1>1 DEF G!CounterStillRead, G!InFlight
<1>4. \A c \in Codes : c # "login"
  BY CodesAssumption
<1>5. G!EmailStillFree' /\ G!CodesStillUnused' /\ G!CooldownStillOver'
  BY <1>1, <1>2, <1>4, EmailKept, CodesKept, CooldownKept
<1>6. /\ call' \in [Desks -> G!Calls \cup {G!NoCall}]
      /\ attempts' \in 0 .. Attempts
  BY <1>1, CountersAssumption DEF G!IInv
<1> QED
  BY <1>1, <1>2, <1>3, <1>5, <1>6, KnownTypes, TypesKept

LEMMA RegistrationStep == G!IInv /\ [G!Next]_(G!vars) => G!IInv'
<1> SUFFICES ASSUME G!IInv, [G!Next]_(G!vars) PROVE G!IInv'
  OBVIOUS
<1>1. ASSUME NEW w \in Desks,
             \/ \E a \in Applicants : G!BeginRegister(w, a) \/ G!BeginResend(w, a)
             \/ \E a \in Applicants, c \in Codes :
                   G!BeginVerify(w, a, c) \/ G!BeginReset(w, a, c)
             \/ G!BeginLogin(w)
             \/ G!Abandon(w) /\ ~G!Resending(w, TRUE)
      PROVE  G!IInv'
  BY <1>1, RequestsKeep
<1>2. ASSUME NEW w \in Desks, G!CommitRegister(w) PROVE G!IInv'
  BY <1>2, CommitRegisterKeeps
<1>3. ASSUME NEW w \in Desks, G!CommitVerify(w) \/ G!CommitReset(w) PROVE G!IInv'
  BY <1>3, CodeUsedKeeps DEF G!CommitVerify, G!CommitReset, G!InFlight
<1>4. ASSUME NEW w \in Desks, G!SendCode(w) \/ G!FailToSend(w) \/ G!SetCooldown(w)
      PROVE  G!IInv'
  BY <1>4, SendCodeKeeps, FailToSendKeeps, SetCooldownKeeps
<1>5. ASSUME NEW w \in Desks, G!WrongPassword(w) \/ G!RightPassword(w) PROVE G!IInv'
  BY <1>5, LoginsKeep
<1>6. ASSUME \/ \E a \in Applicants : G!ForgotPassword(a) \/ G!Activate(a) \/ G!Deactivate(a)
             \/ \E c \in Codes : G!ExpireCode(c) \/ G!CleanUpCode(c)
      PROVE  G!IInv'
  BY <1>6, StatusesKeep
<1>7. CASE G!EndCooldown
  BY <1>7, EndCooldownKeeps
<1>8. CASE G!EndWindow
  BY <1>8, EndWindowKeeps
<1>9. CASE UNCHANGED G!vars
  <2>1. UNCHANGED <<account, code, served, call, cooldown, resent, attempts, failures, overlapped>>
    BY <1>9 DEF G!vars, G!rows, G!cache
  <2>2. CodesMove /\ account' \in Statuses
    BY <2>1, CodesUnchanged, KnownTypes
  <2> QED
    BY <2>1, <2>2, RowStepsKeep
<1>10. ASSUME NEW w \in Desks, G!Abandon(w), G!Resending(w, TRUE) PROVE G!IInv'
  BY <1>10, StoppedMailKeeps
<1> QED
  BY <1>1, <1>2, <1>3, <1>4, <1>5, <1>6, <1>7, <1>8, <1>9, <1>10 DEF G!Next

LEMMA RegistrationInvariance == AccountsSpec => []G!IInv
<1>1. AccountsInit => G!IInv
  BY RegistrationInit DEF AccountsInit
<1>2. G!IInv /\ [AccountsNext]_<<part, vars, noticeVars, accountVars>> => G!IInv'
  <2>1. [AccountsNext]_<<part, vars, noticeVars, accountVars>> => [G!Next]_(G!vars)
    BY DEF AccountsNext, accountVars, registrationVars, G!vars, G!rows, G!cache
  <2> QED
    BY <2>1, RegistrationStep
<1> QED
  BY <1>1, <1>2, PTL DEF AccountsSpec

\* Addresses, codes, the cooldown and the login counter obey their rules among
\* requests that do not overlap, and the rows are well-typed (RegistrationSerializer,
\* OTPVerificationSerializer, ResendOTPView, LoginView, BaseProfile.save).
THEOREM RulesWithoutRaces == AccountsSpec => []RulesHoldWithoutRaces
<1>1. G!IInv => G!OneAccountPerEmail
  <2> SUFFICES ASSUME G!IInv, "register" \notin overlapped
               PROVE  G!Cardinality(G!Registered) <= 1
    BY DEF G!OneAccountPerEmail
  <2>1. \A S : G!Cardinality(S) = Cardinality(S)
    BY DEF G!Cardinality, Cardinality, G!IsFiniteSet, IsFiniteSet
  <2>2. \A a, b \in G!Registered : a = b
    BY DEF G!IInv, G!EmailStillFree
  <2>3. CASE G!Registered = {}
    BY <2>1, <2>3, FS_EmptySet
  <2>4. CASE G!Registered # {}
    <3>1. PICK a : G!Registered = {a}
      BY <2>2, <2>4
    <3> QED
      BY <2>1, <3>1, FS_Singleton
  <2> QED
    BY <2>3, <2>4
<1>2. G!IInv => G!CodeServesOnce /\ G!OneCodePerCooldown
  BY DEF G!IInv, G!CodesStillUnused, G!CooldownStillOver, G!CodeServesOnce,
         G!OneCodePerCooldown
<1>3. G!IInv => G!FailuresAreCounted
  <2> SUFFICES ASSUME G!IInv PROVE G!FailuresAreCounted
    OBVIOUS
  <2>1. attempts <= Attempts
    BY KnownTypes, CountersAssumption
  <2> QED
    BY <2>1 DEF G!IInv, G!CounterStillRead, G!FailuresAreCounted
<1>4. P!IInv /\ G!IInv => RulesHoldWithoutRaces
  BY <1>1, <1>2, <1>3 DEF P!IInv, G!IInv, G!RulesHoldWithoutRaces, RulesHoldWithoutRaces
<1> QED
  BY <1>4, ProfileInvariance, RegistrationInvariance, PTL
=============================================================================
