-------------------------- MODULE WithdrawalsProofs --------------------------
(***************************************************************************)
(* Theorems about Withdrawals, for any number of concurrent requests,      *)
(* withdrawals and amounts, with or without the unlocked writers, and then *)
(* about Settlements.                                                      *)
(***************************************************************************)
EXTENDS MCWallets, SumLemmas, Sequences

\* The wallet starts with no request in flight.
LEMMA InvInit == Init => IInv
<1> SUFFICES ASSUME Init PROVE IInv
  OBVIOUS
<1>1. TypeOK
  BY OpeningAssumption, AmountsAssumption
  DEF Init, TypeOK, Idle, Request, Status
<1> QED
  BY <1>1
  DEF Init, IInv, PayoutIsDeducted, FeeWasCovered, PayoutInFlightIsDeducted,
      RowWasFetched, RowsComeFirst, Idle, StatusOps

\* The end of a request leaves every worker with a well-formed request.
LEMMA FinishType ==
    ASSUME TypeOK, NEW w \in Workers, Finish(w)
    PROVE  req' \in [Workers -> Request]
<1>1. Idle \in Request
  BY DEF Idle, Request, Status
<1> QED
  BY <1>1 DEF TypeOK, Finish

\* A finished request adds no obligation to those in flight, as long as no
\* deduction is forgotten.
LEMMA FinishInFlight ==
    ASSUME IInv, NEW w \in Workers, Finish(w),
           deductions' \in [Withdrawals -> Nat],
           \A r \in Withdrawals : deductions'[r] >= deductions[r]
    PROVE  /\ FeeWasCovered'
           /\ PayoutInFlightIsDeducted'
           /\ RowWasFetched'
<1> USE DEF IInv
<1>1. \A v \in Workers : req'[v] = IF v = w THEN Idle ELSE req[v]
  BY DEF TypeOK, Finish
<1>2. FeeWasCovered'
  BY <1>1 DEF FeeWasCovered, Idle
<1>3. RowWasFetched'
  BY <1>1 DEF RowWasFetched, Idle, StatusOps
<1>4. ASSUME NEW v \in Workers,
             \/ req'[v].op = "retry"
             \/ req'[v].op = "confirm" /\ req'[v].status # "approved"
      PROVE  deductions'[req'[v].row] > 0
  <2>1. req'[v] = req[v] /\ req[v].op \in StatusOps
    BY <1>1, <1>4 DEF Idle, StatusOps
  <2>2. req[v].row \in Withdrawals /\ deductions[req[v].row] > 0
    BY <1>4, <2>1 DEF PayoutInFlightIsDeducted, RowWasFetched
  <2>3. /\ deductions[req[v].row] \in Nat
        /\ deductions'[req[v].row] \in Nat
    BY <2>2 DEF TypeOK
  <2> QED
    BY <1>4, <2>1, <2>2, <2>3
<1> QED
  BY <1>2, <1>3, <1>4 DEF PayoutInFlightIsDeducted

\* A deduction takes what the wallet holds, and is recorded.
LEMMA DeductEffect ==
    ASSUME IInv, NEW w \in Workers, req[w].op \in StatusOps, Deduct(w)
    PROVE  /\ balance' \in Nat
           /\ deductions' \in [Withdrawals -> Nat]
           /\ deductions'[req[w].row] > 0
           /\ \A r \in Withdrawals : deductions'[r] >= deductions[r]
<1>1. req[w].row \in Withdrawals
  BY DEF IInv, RowWasFetched
<1>2. amount[req[w].row] \in Nat
  <2>1. amount[req[w].row] \in Amounts \cup {0}
    BY <1>1 DEF IInv, TypeOK
  <2>2. \A a \in Amounts : a \in Nat
    BY AmountsAssumption
  <2> QED
    BY <2>1, <2>2
<1>3. balance' \in Nat
  BY <1>2 DEF IInv, TypeOK, Deduct, HasFunds, BalanceForDeduction
<1>4. \A r \in Withdrawals :
        deductions'[r] = IF r = req[w].row THEN deductions[r] + 1
                                           ELSE deductions[r]
  BY <1>1 DEF IInv, TypeOK, Deduct
<1>5. deductions' \in [Withdrawals -> Nat]
  BY <1>1 DEF IInv, TypeOK, Deduct
<1> QED
  BY <1>1, <1>3, <1>4, <1>5 DEF IInv, TypeOK

\* A gateway call for a deducted request keeps every payout deducted.
LEMMA PayOutEffect ==
    ASSUME IInv, NEW w \in Workers, req[w].op \in StatusOps, PayOut(w),
           deductions' \in [Withdrawals -> Nat],
           deductions'[req[w].row] > 0,
           \A r \in Withdrawals : deductions'[r] >= deductions[r]
    PROVE  /\ request' \in [Withdrawals -> Status]
           /\ payouts' \in [Withdrawals -> Nat]
           /\ PayoutIsDeducted'
<1>1. req[w].row \in Withdrawals
  BY DEF IInv, RowWasFetched
<1>2. request' \in [Withdrawals -> Status]
  BY <1>1 DEF IInv, TypeOK, PayOut, SetStatus, Status
<1>3. payouts' \in [Withdrawals -> Nat]
  BY <1>1 DEF IInv, TypeOK, PayOut
<1>4. ASSUME NEW r \in Withdrawals, r # req[w].row
      PROVE  request'[r] = request[r] /\ payouts'[r] = payouts[r]
  BY <1>1, <1>4 DEF IInv, TypeOK, PayOut, SetStatus
<1>5. ASSUME NEW r \in Withdrawals,
             request'[r] \in {"processing", "failed", "paid"} \/ payouts'[r] > 0
      PROVE  deductions'[r] > 0
  <2>1. CASE r = req[w].row
    BY <2>1
  <2>2. CASE r # req[w].row
    <3>1. deductions[r] > 0
      BY <1>4, <1>5, <2>2 DEF IInv, PayoutIsDeducted
    <3> QED
      BY <3>1 DEF IInv, TypeOK
  <2> QED
    BY <2>1, <2>2
<1> QED
  BY <1>2, <1>3, <1>5 DEF PayoutIsDeducted

\* Every worker either keeps its request or is done with it.
LEMMA FinishKeeps ==
    ASSUME TypeOK, NEW w \in Workers, Finish(w)
    PROVE  \A v \in Workers : req'[v] = req[v] \/ req'[v] = Idle
BY DEF TypeOK, Finish

\* A row exists before it is fetched or deducted, and never ceases to exist.
LEMMA RowsStep ==
    ASSUME IInv, [Next]_vars
    PROVE  RowsComeFirst'
<1> USE DEF requestVars, otherVars
<1> TypeOK /\ RowWasFetched /\ RowsComeFirst
  BY DEF IInv
<1>1. ASSUME UNCHANGED <<request, deductions>>,
             \A v \in Workers : req'[v] = req[v] \/ req'[v] = Idle
      PROVE  RowsComeFirst'
  BY <1>1 DEF RowsComeFirst, Idle, StatusOps
<1>2. ASSUME NEW w \in Workers, NEW op \in StatusOps, NEW r \in Withdrawals,
             BeginStatus(w, op, r)
      PROVE  RowsComeFirst'
  <2>1. request[r] # "none"
    BY <1>2 DEF BeginStatus, MayStart, StatusOps
  <2>2. ASSUME NEW v \in Workers
        PROVE  req'[v] = req[v] \/ req'[v].row = r
    BY <1>2 DEF BeginStatus, TypeOK
  <2> QED
    BY <1>2, <2>1, <2>2 DEF BeginStatus, RowsComeFirst
<1>3. ASSUME NEW w \in Workers, req[w].op \in StatusOps, Finish(w),
             NEW s \in Status \ {"none"}, SetStatus(w, s),
             \A r \in Withdrawals : r # req[w].row => deductions'[r] = deductions[r]
      PROVE  RowsComeFirst'
  <2>1. req[w].row \in Withdrawals /\ request[req[w].row] # "none"
    BY <1>3 DEF RowWasFetched, RowsComeFirst
  <2>2. \A r \in Withdrawals :
          request'[r] = IF r = req[w].row THEN s ELSE request[r]
    BY <1>3, <2>1 DEF SetStatus, TypeOK
  <2>3. \A r \in Withdrawals : request'[r] = "none" => deductions'[r] = 0
    BY <1>3, <2>2 DEF RowsComeFirst
  <2>4. ASSUME NEW v \in Workers, req'[v].op \in StatusOps
        PROVE  request'[req'[v].row] # "none"
    <3>1. req'[v] = req[v]
      BY <1>3, <2>4, FinishKeeps DEF Idle, StatusOps
    <3>2. req[v].row \in Withdrawals /\ request[req[v].row] # "none"
      BY <2>4, <3>1 DEF RowWasFetched, RowsComeFirst
    <3> QED
      BY <2>2, <3>1, <3>2
  <2> QED
    BY <2>3, <2>4 DEF RowsComeFirst
<1>4. ASSUME NEW w \in Workers, CommitDecision(w) PROVE RowsComeFirst'
  BY <1>3, <1>4 DEF CommitDecision, StatusOps, Status
<1>5. ASSUME NEW w \in Workers, PayOut(w)
      PROVE  \E s \in Status \ {"none"} : SetStatus(w, s)
  BY <1>5 DEF PayOut, Status
<1>6. ASSUME NEW w \in Workers, Deduct(w)
      PROVE  \A r \in Withdrawals :
                r # req[w].row => deductions'[r] = deductions[r]
  BY <1>6 DEF Deduct, TypeOK
<1>7. ASSUME NEW w \in Workers, CommitProcess(w) PROVE RowsComeFirst'
  BY <1>3, <1>6, <1>7 DEF CommitProcess, StatusOps, Status
<1>8. ASSUME NEW w \in Workers, CommitConfirm(w) PROVE RowsComeFirst'
  <2>1. \A r \in Withdrawals : r # req[w].row => deductions'[r] = deductions[r]
    BY <1>6, <1>8 DEF CommitConfirm
  <2> QED
    BY <1>3, <1>5, <1>8, <2>1 DEF CommitConfirm, StatusOps
<1>9. ASSUME NEW w \in Workers, CommitRetry(w) PROVE RowsComeFirst'
  BY <1>3, <1>5, <1>9 DEF CommitRetry, StatusOps
<1>10. ASSUME NEW w \in Workers, CommitRelease(w) \/ CommitFee(w) \/ Rollback(w)
       PROVE  RowsComeFirst'
  BY <1>1, <1>10, FinishKeeps DEF CommitRelease, CommitFee, Rollback
<1>11. ASSUME NEW w \in Workers, NEW op \in UnlockedOps, BeginUnlocked(w, op)
       PROVE  RowsComeFirst'
  <2>1. op \notin StatusOps
    BY UnlockedAssumption DEF StatusOps
  <2>2. ASSUME NEW v \in Workers
        PROVE  req'[v] = req[v] \/ req'[v].op = op
    BY <1>11 DEF BeginUnlocked, TypeOK
  <2> QED
    BY <1>11, <2>1, <2>2 DEF BeginUnlocked, RowsComeFirst
<1>12. ASSUME NEW r \in Withdrawals, NEW a \in Amounts, Create(r, a)
       PROVE  RowsComeFirst'
  <2>1. \A x \in Withdrawals :
          request'[x] = IF x = r THEN "pending" ELSE request[x]
    BY <1>12 DEF Create, TypeOK
  <2> QED
    BY <1>12, <2>1 DEF Create, RowsComeFirst, RowWasFetched
<1>13. CASE SettlementCredit \/ DisputeReversal \/ UNCHANGED vars
  BY <1>1, <1>13 DEF SettlementCredit, DisputeReversal, vars
<1> QED
  BY <1>2, <1>4, <1>7, <1>8, <1>9, <1>10, <1>11, <1>12, <1>13
  DEF Next, WorkerStep

\* Every step keeps the inductive invariant, one step per action.
LEMMA InvStep ==
    ASSUME IInv, [Next]_vars
    PROVE  IInv'
<1> USE DEF requestVars, otherVars
<1> RowsComeFirst'
  BY RowsStep
<1> DEFINE Grows == /\ deductions' \in [Withdrawals -> Nat]
                    /\ \A r \in Withdrawals : deductions'[r] >= deductions[r]
<1>1. UNCHANGED deductions => Grows
  BY DEF IInv, TypeOK
<1> HIDE DEF Grows
<1>2. CASE UNCHANGED vars
  BY <1>2
  DEF IInv, TypeOK, PayoutIsDeducted, FeeWasCovered, PayoutInFlightIsDeducted,
      RowWasFetched, vars
<1>3. ASSUME NEW w \in Workers, NEW op \in StatusOps, NEW r \in Withdrawals,
             BeginStatus(w, op, r)
      PROVE  IInv'
  <2>1. [op |-> op, row |-> r, status |-> request[r], balance |-> balance]
            \in Request
    BY DEF IInv, TypeOK, Request
  <2>2. TypeOK'
    BY <1>3, <2>1 DEF IInv, TypeOK, BeginStatus
  <2>3. \A v \in Workers :
          req'[v] = IF v = w
                    THEN [op |-> op, row |-> r, status |-> request[r],
                          balance |-> balance]
                    ELSE req[v]
    BY <1>3 DEF IInv, TypeOK, BeginStatus
  <2>4. PayoutIsDeducted' /\ UNCHANGED deductions
    BY <1>3 DEF IInv, PayoutIsDeducted, BeginStatus
  <2>5. FeeWasCovered' /\ RowWasFetched'
    BY <2>3 DEF IInv, FeeWasCovered, RowWasFetched, StatusOps
  <2>6. op = "retry" \/ (op = "confirm" /\ request[r] # "approved")
            => request[r] \in {"processing", "failed"}
    BY <1>3 DEF BeginStatus, MayStart
  <2>7. op = "retry" \/ (op = "confirm" /\ request[r] # "approved")
            => deductions[r] > 0
    BY <2>6 DEF IInv, PayoutIsDeducted
  <2>8. ASSUME NEW v \in Workers,
               \/ req'[v].op = "retry"
               \/ req'[v].op = "confirm" /\ req'[v].status # "approved"
        PROVE  deductions'[req'[v].row] > 0
    <3>1. CASE v = w
      BY <2>3, <2>4, <2>7, <2>8, <3>1
    <3>2. CASE v # w
      BY <2>3, <2>4, <2>8, <3>2 DEF IInv, PayoutInFlightIsDeducted
    <3> QED
      BY <3>1, <3>2
  <2> QED
    BY <2>2, <2>4, <2>5, <2>8 DEF IInv, PayoutInFlightIsDeducted
<1>4. ASSUME NEW w \in Workers, NEW op \in UnlockedOps, BeginUnlocked(w, op)
      PROVE  IInv'
  <2>1. [op |-> op, row |-> NoRow, status |-> "none", balance |-> balance]
            \in Request
    BY DEF IInv, TypeOK, Request, Status
  <2>2. TypeOK'
    BY <1>4, <2>1, MaxOtherAssumption DEF IInv, TypeOK, BeginUnlocked
  <2>3. \A v \in Workers :
          req'[v] = IF v = w
                    THEN [op |-> op, row |-> NoRow, status |-> "none",
                          balance |-> balance]
                    ELSE req[v]
    BY <1>4 DEF IInv, TypeOK, BeginUnlocked
  <2>4. op \in {"release", "fee"}
    BY UnlockedAssumption
  <2>5. PayoutIsDeducted' /\ UNCHANGED deductions
    BY <1>4 DEF IInv, PayoutIsDeducted, BeginUnlocked
  <2>6. FeeWasCovered'
    BY <1>4, <2>3 DEF IInv, FeeWasCovered, BeginUnlocked
  <2>7. PayoutInFlightIsDeducted' /\ RowWasFetched'
    BY <2>3, <2>4, <2>5
    DEF IInv, PayoutInFlightIsDeducted, RowWasFetched, StatusOps
  <2> QED
    BY <2>2, <2>5, <2>6, <2>7 DEF IInv
<1>5. ASSUME NEW w \in Workers, CommitDecision(w) PROVE IInv'
  <2>1. /\ req[w].row \in Withdrawals
        /\ Finish(w)
        /\ UNCHANGED <<balance, amount, deductions, payouts, otherVars>>
    BY <1>5 DEF IInv, RowWasFetched, CommitDecision, StatusOps
  <2>2. PICK s \in {"approved", "rejected", "canceled"} : SetStatus(w, s)
    BY <1>5 DEF CommitDecision
  <2>3. \A r \in Withdrawals :
          request'[r] = IF r = req[w].row THEN s ELSE request[r]
    BY <2>2 DEF IInv, TypeOK, SetStatus
  <2>4. request' \in [Withdrawals -> Status]
    BY <2>2 DEF IInv, TypeOK, SetStatus, Status
  <2>5. TypeOK'
    BY <2>1, <2>4, FinishType DEF IInv, TypeOK
  <2>6. PayoutIsDeducted'
    BY <2>1, <2>2, <2>3 DEF IInv, PayoutIsDeducted
  <2> QED
    BY <1>1, <2>1, <2>5, <2>6, FinishInFlight DEF IInv, Grows
<1>6. ASSUME NEW w \in Workers, CommitProcess(w) PROVE IInv'
  <2>1. /\ req[w].op \in StatusOps
        /\ Deduct(w) /\ SetStatus(w, "processing") /\ Finish(w)
        /\ UNCHANGED <<amount, payouts, otherVars>>
    BY <1>6 DEF CommitProcess, StatusOps
  <2>2. req[w].row \in Withdrawals
    BY <2>1 DEF IInv, RowWasFetched
  <2>3. /\ balance' \in Nat
        /\ deductions' \in [Withdrawals -> Nat]
        /\ deductions'[req[w].row] > 0
        /\ \A r \in Withdrawals : deductions'[r] >= deductions[r]
    BY <2>1, DeductEffect
  <2>4. \A r \in Withdrawals :
          request'[r] = IF r = req[w].row THEN "processing" ELSE request[r]
    BY <2>1 DEF IInv, TypeOK, SetStatus
  <2>5. request' \in [Withdrawals -> Status]
    BY <2>1 DEF IInv, TypeOK, SetStatus, Status
  <2>6. TypeOK'
    BY <2>1, <2>3, <2>5, FinishType DEF IInv, TypeOK
  <2>7. PayoutIsDeducted'
    BY <2>1, <2>3, <2>4 DEF IInv, TypeOK, PayoutIsDeducted
  <2> QED
    BY <2>1, <2>3, <2>6, <2>7, FinishInFlight DEF IInv
<1>7. ASSUME NEW w \in Workers, CommitConfirm(w) PROVE IInv'
  <2>1. /\ req[w].op = "confirm" /\ req[w].op \in StatusOps
        /\ PayOut(w) /\ Finish(w)
        /\ UNCHANGED <<amount, otherVars>>
    BY <1>7 DEF CommitConfirm, StatusOps
  <2>2. req[w].row \in Withdrawals
    BY <2>1 DEF IInv, RowWasFetched
  <2>3. /\ balance' \in Nat
        /\ deductions' \in [Withdrawals -> Nat]
        /\ deductions'[req[w].row] > 0
        /\ \A r \in Withdrawals : deductions'[r] >= deductions[r]
    <3>1. CASE DeductsOnConfirm(w)
      <4>1. Deduct(w)
        BY <1>7, <3>1 DEF CommitConfirm
      <4> QED
        BY <2>1, <4>1, DeductEffect
    <3>2. CASE ~DeductsOnConfirm(w)
      <4>1. UNCHANGED <<balance, deductions>>
        BY <1>7, <3>2 DEF CommitConfirm
      <4>2. deductions[req[w].row] > 0
        BY <2>1, <3>2 DEF IInv, PayoutInFlightIsDeducted, DeductsOnConfirm
      <4> QED
        BY <4>1, <4>2 DEF IInv, TypeOK
    <3> QED
      BY <3>1, <3>2
  <2>4. /\ request' \in [Withdrawals -> Status]
        /\ payouts' \in [Withdrawals -> Nat]
        /\ PayoutIsDeducted'
    BY <2>1, <2>3, PayOutEffect
  <2>5. TypeOK'
    BY <2>1, <2>3, <2>4, FinishType DEF IInv, TypeOK
  <2> QED
    BY <2>1, <2>3, <2>4, <2>5, FinishInFlight DEF IInv
<1>8. ASSUME NEW w \in Workers, CommitRetry(w) PROVE IInv'
  <2>1. /\ req[w].op = "retry" /\ req[w].op \in StatusOps
        /\ PayOut(w) /\ Finish(w)
        /\ UNCHANGED <<balance, amount, deductions, otherVars>>
    BY <1>8 DEF CommitRetry, StatusOps
  <2>2. req[w].row \in Withdrawals
    BY <2>1 DEF IInv, RowWasFetched
  <2>3. /\ deductions' \in [Withdrawals -> Nat]
        /\ deductions'[req[w].row] > 0
        /\ \A r \in Withdrawals : deductions'[r] >= deductions[r]
    BY <2>1, <2>2 DEF IInv, TypeOK, PayoutInFlightIsDeducted
  <2>4. /\ request' \in [Withdrawals -> Status]
        /\ payouts' \in [Withdrawals -> Nat]
        /\ PayoutIsDeducted'
    BY <2>1, <2>3, PayOutEffect
  <2>5. TypeOK'
    BY <2>1, <2>4, FinishType DEF IInv, TypeOK
  <2> QED
    BY <2>1, <2>3, <2>4, <2>5, FinishInFlight DEF IInv
<1>9. ASSUME NEW w \in Workers, CommitRelease(w) \/ CommitFee(w) PROVE IInv'
  <2>1. /\ Finish(w)
        /\ UNCHANGED <<requestVars, other>>
    BY <1>9 DEF CommitRelease, CommitFee
  <2>2. req[w].balance \in Nat
    BY DEF IInv, TypeOK, Request
  <2>3. balance' \in Nat /\ credited' \in Nat /\ debited' \in Nat
    BY <1>9, <2>2, UnitAssumption
    DEF IInv, TypeOK, FeeWasCovered, CommitRelease, CommitFee
  <2>4. TypeOK'
    BY <2>1, <2>3, FinishType DEF IInv, TypeOK
  <2>5. PayoutIsDeducted'
    BY <2>1 DEF IInv, PayoutIsDeducted
  <2> QED
    BY <1>1, <2>1, <2>4, <2>5, FinishInFlight DEF IInv, Grows
<1>10. ASSUME NEW w \in Workers, Rollback(w) PROVE IInv'
  <2>1. /\ Finish(w)
        /\ UNCHANGED <<balance, requestVars, otherVars>>
    BY <1>10 DEF Rollback
  <2>2. TypeOK'
    BY <2>1, FinishType DEF IInv, TypeOK
  <2>3. PayoutIsDeducted'
    BY <2>1 DEF IInv, PayoutIsDeducted
  <2> QED
    BY <1>1, <2>1, <2>2, <2>3, FinishInFlight DEF IInv, Grows
<1>11. ASSUME NEW r \in Withdrawals, NEW a \in Amounts, Create(r, a)
       PROVE  IInv'
  <2>1. TypeOK'
    BY <1>11 DEF IInv, TypeOK, Create, Status
  <2>2. PayoutIsDeducted'
    BY <1>11 DEF IInv, TypeOK, PayoutIsDeducted, Create
  <2> QED
    BY <1>11, <2>1, <2>2
    DEF IInv, FeeWasCovered, PayoutInFlightIsDeducted, RowWasFetched, Create
<1>12. ASSUME SettlementCredit \/ DisputeReversal PROVE IInv'
  <2>1. UNCHANGED <<requestVars, req>>
    BY <1>12 DEF SettlementCredit, DisputeReversal
  <2>2. balance' \in Nat /\ credited' \in Nat /\ debited' \in Nat
        /\ other' \in Nat
    BY <1>12, UnitAssumption
    DEF IInv, TypeOK, SettlementCredit, DisputeReversal, Recoverable
  <2>3. TypeOK'
    BY <2>1, <2>2 DEF IInv, TypeOK
  <2> QED
    BY <2>1, <2>3
    DEF IInv, PayoutIsDeducted, FeeWasCovered, PayoutInFlightIsDeducted,
        RowWasFetched
<1> QED
  BY <1>2, <1>3, <1>4, <1>5, <1>6, <1>7, <1>8, <1>9, <1>10, <1>11, <1>12
  DEF Next, WorkerStep

\* The inductive invariant holds in every state: InvInit and InvStep.
THEOREM Invariance == Spec => []IInv
<1>1. IInv /\ [Next]_vars => IInv'
  BY InvStep
<1> QED
  BY InvInit, <1>1, PTL DEF Spec

\* The wallet and its requests are well formed, and in particular the balance is
\* never negative: a fee that writes back a stale balance, a reversal, and every
\* deduction take only what they saw (Wallet.save's check never fires).
THEOREM TypeCorrect == Spec => []TypeOK
BY Invariance, PTL DEF IInv

\* No request is processed, paid out or retried without having been deducted,
\* however stale the status its endpoint acts on (confirm_withdrawal_payout,
\* retry_failed_withdrawal).
THEOREM PayoutsAreDeducted == Spec => []PayoutIsDeducted
BY Invariance, PTL DEF IInv

-----------------------------------------------------------------------------
(***************************************************************************)
(* The ledger of a wallet whose writers all lock it.                       *)
(***************************************************************************)

\* What has been deducted for each request: Withdrawn is its sum.
Deducted == [r \in Withdrawals |-> deductions[r] * amount[r]]

LEMMA DeductedType ==
    ASSUME TypeOK
    PROVE  /\ \A r \in Withdrawals : deductions[r] \in Nat /\ amount[r] \in Nat
           /\ Deducted \in [Withdrawals -> Nat]
           /\ Withdrawn = SumFunction(Deducted) /\ Withdrawn \in Nat
<1>1. \A r \in Withdrawals : deductions[r] \in Nat /\ amount[r] \in Nat
  <2>1. \A a \in Amounts \cup {0} : a \in Nat
    BY AmountsAssumption
  <2> QED
    BY <2>1 DEF TypeOK
<1>2. Deducted \in [Withdrawals -> Nat]
  <2>1. \A m, n \in Nat : m * n \in Nat
    OBVIOUS
  <2> QED
    BY <1>1, <2>1 DEF Deducted
<1>3. Withdrawn = SumFunction(Deducted)
  BY DEF Withdrawn, Deducted
<1> QED
  BY <1>1, <1>2, <1>3, WithdrawalsAssumption, SumType

\* The total deducted only changes with a deduction.
LEMMA WithdrawnKept ==
    ASSUME UNCHANGED deductions,
           \A r \in Withdrawals : amount'[r] = amount[r] \/ deductions[r] = 0,
           TypeOK, TypeOK'
    PROVE  Withdrawn' = Withdrawn
<1>1. /\ \A r \in Withdrawals : deductions[r] \in Nat /\ amount[r] \in Nat
      /\ \A r \in Withdrawals : amount'[r] \in Nat
  <2>1. \A a \in Amounts \cup {0} : a \in Nat
    BY AmountsAssumption
  <2> QED
    BY <2>1 DEF TypeOK
<1>2. \A r \in Withdrawals : deductions'[r] * amount'[r] = deductions[r] * amount[r]
  <2>1. \A m, n \in Nat : 0 * m = 0 * n
    OBVIOUS
  <2> QED
    BY <1>1, <2>1
<1>3. Deducted' = Deducted
  BY <1>2 DEF Deducted
<1> QED
  BY <1>3 DEF Withdrawn, Deducted

\* A deduction adds the amount of its request to the total.
LEMMA WithdrawnGrows ==
    ASSUME IInv, TypeOK', NEW w \in Workers, req[w].op \in StatusOps,
           Deduct(w), UNCHANGED amount
    PROVE  /\ amount[req[w].row] \in Nat
           /\ Withdrawn' = Withdrawn + amount[req[w].row]
<1> DEFINE r == req[w].row
<1>1. r \in Withdrawals /\ TypeOK
  BY DEF IInv, RowWasFetched
<1>2. deductions[r] \in Nat /\ amount[r] \in Nat
  BY <1>1, DeductedType
<1>3. \A x \in Withdrawals :
        deductions'[x] = IF x = r THEN deductions[x] + 1 ELSE deductions[x]
  BY <1>1 DEF TypeOK, Deduct
<1>4. Deducted \in [Withdrawals -> Int] /\ Deducted' \in [Withdrawals -> Int]
  <2>1. Deducted \in [Withdrawals -> Nat]
    BY <1>1, DeductedType
  <2>2. \A x \in Withdrawals : deductions'[x] \in Nat /\ amount'[x] \in Nat
    BY <1>1, <1>3, DeductedType
  <2>3. \A m, n \in Nat : m * n \in Int
    OBVIOUS
  <2>4. Deducted' \in [Withdrawals -> Int]
    BY <2>2, <2>3 DEF Deducted
  <2> QED
    BY <2>1, <2>4
<1>5. \A x \in Withdrawals \ {r} : Deducted'[x] = Deducted[x]
  BY <1>3 DEF Deducted
<1>6. Deducted'[r] - Deducted[r] = amount[r] /\ Deducted[r] \in Nat
  <2>1. \A m, n \in Nat : (m + 1) * n = m * n + n /\ m * n \in Nat
    OBVIOUS
  <2>2. /\ Deducted[r] = deductions[r] * amount[r]
        /\ Deducted'[r] = (deductions[r] + 1) * amount[r]
    BY <1>1, <1>3 DEF Deducted
  <2> QED
    BY <1>2, <2>1, <2>2
<1> HIDE DEF r
<1>7. SumFunction(Deducted') = SumFunction(Deducted) + Deducted'[r] - Deducted[r]
  BY <1>1, <1>4, <1>5, WithdrawalsAssumption, SumStep
<1>8. /\ Withdrawn = SumFunction(Deducted) /\ Withdrawn' = SumFunction(Deducted')
      /\ Withdrawn \in Nat
  BY <1>1, DeductedType DEF Withdrawn, Deducted
<1>9. Deducted'[r] \in Nat
  BY <1>2, <1>6, <1>1, <1>4
<1>10. Withdrawn' = Withdrawn + amount[r]
  BY <1>2, <1>6, <1>7, <1>8, <1>9
<1> QED
  BY <1>2, <1>10 DEF r

\* A step of a wallet whose writers all lock it keeps its transactions equal to
\* its balance.
LEMMA LedgerStep ==
    ASSUME IInv, IInv', AllLock, LedgerExplainsBalance, Next
    PROVE  LedgerExplainsBalance'
<1> USE DEF requestVars, otherVars
<1> TypeOK /\ TypeOK'
  BY DEF IInv
<1>1. /\ balance \in Nat /\ credited \in Nat /\ debited \in Nat
      /\ Opening \in Nat /\ Withdrawn \in Nat /\ Unit \in Nat
  BY DeductedType, OpeningAssumption, UnitAssumption DEF TypeOK
<1>2. ASSUME UNCHANGED <<balance, amount, deductions, credited, debited>>
      PROVE  LedgerExplainsBalance'
  BY <1>2, WithdrawnKept DEF LedgerExplainsBalance
<1>3. ASSUME NEW w \in Workers, req[w].op \in StatusOps, Deduct(w),
             UNCHANGED <<amount, credited, debited>>
      PROVE  LedgerExplainsBalance'
  <2>1. /\ amount[req[w].row] \in Nat
        /\ Withdrawn' = Withdrawn + amount[req[w].row]
    BY <1>3, WithdrawnGrows
  <2> QED
    BY <1>1, <1>3, <2>1 DEF LedgerExplainsBalance, Deduct, BalanceForDeduction
<1>4. ASSUME NEW w \in Workers, CommitProcess(w) PROVE LedgerExplainsBalance'
  BY <1>3, <1>4 DEF CommitProcess, StatusOps
<1>5. ASSUME NEW w \in Workers, CommitConfirm(w) PROVE LedgerExplainsBalance'
  <2>1. CASE DeductsOnConfirm(w)
    BY <1>3, <1>5, <2>1 DEF CommitConfirm, StatusOps
  <2>2. CASE ~DeductsOnConfirm(w)
    BY <1>2, <1>5, <2>2 DEF CommitConfirm
  <2> QED
    BY <2>1, <2>2
<1>6. ASSUME NEW w \in Workers PROVE ~CommitRelease(w) /\ ~CommitFee(w)
  BY DEF AllLock, TypeOK, Request, StatusOps, CommitRelease, CommitFee
<1>7. ASSUME NEW w \in Workers,
             \/ \E op \in StatusOps, r \in Withdrawals : BeginStatus(w, op, r)
             \/ \E op \in UnlockedOps : BeginUnlocked(w, op)
             \/ CommitDecision(w) \/ CommitRetry(w) \/ Rollback(w)
      PROVE  LedgerExplainsBalance'
  BY <1>2, <1>7
  DEF BeginStatus, BeginUnlocked, CommitDecision, CommitRetry, Rollback
<1>8. ASSUME NEW r \in Withdrawals, NEW a \in Amounts, Create(r, a)
      PROVE  LedgerExplainsBalance'
  <2>1. \A x \in Withdrawals : amount'[x] = amount[x] \/ deductions[x] = 0
    BY <1>8 DEF Create, TypeOK, IInv, RowsComeFirst
  <2> QED
    BY <1>8, <2>1, WithdrawnKept DEF Create, LedgerExplainsBalance
<1>9. CASE SettlementCredit
  <2>1. Withdrawn' = Withdrawn
    BY <1>9, WithdrawnKept DEF SettlementCredit
  <2> QED
    BY <1>1, <1>9, <2>1 DEF SettlementCredit, LedgerExplainsBalance
<1>10. CASE DisputeReversal
  <2>1. Withdrawn' = Withdrawn
    BY <1>10, WithdrawnKept DEF DisputeReversal
  <2>2. Recoverable \in Nat
    BY <1>1 DEF Recoverable
  <2> QED
    BY <1>1, <1>10, <2>1, <2>2 DEF DisputeReversal, LedgerExplainsBalance
<1> QED
  BY <1>4, <1>5, <1>6, <1>7, <1>8, <1>9, <1>10 DEF Next, WorkerStep

\* As long as every writer of a wallet locks it, its transactions explain its
\* balance to the last dinar, for any interleaving of staff requests, the
\* settlement and the reversal (process_withdrawal_request,
\* confirm_withdrawal_payout, settle_completed_contract, _execute_refund).
THEOREM LockedLedger == WalletsSpec => []LockedLedgerExplainsBalance
<1> DEFINE LInv == /\ IInv
                   /\ part = "locked" => AllLock /\ LedgerExplainsBalance
<1>1. WalletsInit => LInv
  <2> SUFFICES ASSUME WalletsInit PROVE LInv
    OBVIOUS
  <2>1. Init /\ IInv
    BY InvInit DEF WalletsInit
  <2>2. AllLock
    BY <2>1, UnlockedAssumption DEF Init, AllLock, Idle
  <2>3. \A r \in Withdrawals : Deducted[r] = 0
    BY <2>1 DEF Init, Deducted
  <2>4. Withdrawn = 0
    BY <2>1, <2>3, DeductedType, WithdrawalsAssumption, SumType DEF IInv
  <2>5. LedgerExplainsBalance
    BY <2>1, <2>4, OpeningAssumption DEF Init, LedgerExplainsBalance
  <2> QED
    BY <2>1, <2>2, <2>5
<1>2. LInv /\ [WalletsNext]_<<part, vars, settlementVars>> => LInv'
  <2> SUFFICES ASSUME LInv, [WalletsNext]_<<part, vars, settlementVars>>
               PROVE  LInv'
    OBVIOUS
  <2>1. [Next]_vars /\ UNCHANGED part
    BY DEF WalletsNext
  <2>2. IInv'
    BY <2>1, InvStep
  <2>3. ASSUME part = "locked" PROVE AllLock' /\ LedgerExplainsBalance'
    <3>1. (Next /\ AllLock') \/ UNCHANGED vars
      BY <2>3 DEF WalletsNext
    <3>2. CASE Next /\ AllLock'
      BY <2>2, <2>3, <3>2, LedgerStep
    <3>3. CASE UNCHANGED vars
      BY <2>3, <3>3
      DEF vars, requestVars, otherVars, AllLock, LedgerExplainsBalance, Withdrawn
    <3> QED
      BY <3>1, <3>2, <3>3
  <2> QED
    BY <2>1, <2>2, <2>3
<1>3. LInv => LockedLedgerExplainsBalance
  BY DEF LockedLedgerExplainsBalance
<1> QED
  BY <1>1, <1>2, <1>3, PTL DEF WalletsSpec

-----------------------------------------------------------------------------
(***************************************************************************)
(* Settlements, for any amounts and whole rates and any finite set of      *)
(* contracts.                                                              *)
(***************************************************************************)
\* The sum of a list is the sum of a function.
LEMMA ListSum ==
    ASSUME NEW f
    PROVE  S!Sum(f) = SumFunction(f) /\ S!SumFunction(f) = SumFunction(f)
BY Zenon DEF S!Sum, S!SumFunction, S!SumFunctionOnSet, S!FoldFunctionOnSet, S!MapThenFoldSet,
             SumFunction, SumFunctionOnSet, FoldFunctionOnSet, MapThenFoldSet

LEMMA Roundings ==
    ASSUME NEW n \in Nat
    PROVE  S!HalfUp(n) \in Nat /\ S!HalfEven(n) \in Nat
<1>1. S!HalfUp(n) \in Nat
  BY DEF S!HalfUp
<1>2. 2 * ((n \div 100 + 1) \div 2) \in Nat
  <2>1. PICK q \in Nat : q = n \div 100
    OBVIOUS
  <2>2. PICK h \in Nat : h = (q + 1) \div 2
    OBVIOUS
  <2>3. QED
    BY <2>1, <2>2
<1>3. QED
  BY <1>1, <1>2 DEF S!HalfEven

LEMMA AmountTypes ==
    /\ S!ActivationFee \in Nat /\ S!Commission \in Nat /\ S!ServiceFee \in Nat
    /\ S!ClientTotal \in Nat /\ S!NetAmount \in Int
    /\ CommissionRate <= 100 => S!NetAmount \in Nat
<1>1. PICK a \in Nat : a = Agreed
  BY RatesAssumption
<1>2. PICK r \in Nat : r = CommissionRate
  BY RatesAssumption
<1>3. /\ Agreed * ActivationRate \in Nat
      /\ Agreed * CommissionRate \in Nat /\ Agreed * ServiceRate \in Nat
  BY RatesAssumption
<1>4. S!ActivationFee \in Nat /\ S!Commission \in Nat /\ S!ServiceFee \in Nat
  BY <1>3, Roundings DEF S!ActivationFee, S!Commission, S!ServiceFee
<1>5. ASSUME r <= 100 PROVE S!Commission <= a
  <2>1. PICK d \in Nat : r + d = 100
    <3>1. 100 - r \in Nat /\ r + (100 - r) = 100
      BY <1>5
    <3>2. QED
      BY <3>1
  <2>2. PICK x \in Nat : x = a * r
    OBVIOUS
  <2>3. PICK y \in Nat : y = a * d
    OBVIOUS
  <2>4. x + y = 100 * a
    <3>1. a * (r + d) = x + y
      BY <2>2, <2>3
    <3>2. QED
      BY <2>1, <3>1
  <2>5. (x + 50) \div 100 <= a
    BY <2>4
  <2>6. S!Commission = (x + 50) \div 100
    BY <1>1, <1>2, <2>2 DEF S!Commission, S!HalfUp
  <2>7. QED
    BY <2>5, <2>6
<1>6. PICK c \in Nat : c = S!Commission /\ (r <= 100 => c <= a)
  BY <1>4, <1>5
<1>7. PICK f \in Nat : f = S!ServiceFee
  BY <1>4
<1>8. S!NetAmount = a - c /\ S!ClientTotal = a + f
  BY <1>1, <1>6, <1>7 DEF S!NetAmount, S!ClientTotal
<1>9. QED
  BY <1>2, <1>4, <1>6, <1>8

-----------------------------------------------------------------------------
LEMMA Appended ==
    ASSUME NEW D, NEW s \in Seq(D), NEW e \in D
    PROVE  /\ Append(s, e) \in Seq(D)
           /\ Len(s) \in Nat /\ DOMAIN s = 1 .. Len(s)
           /\ Len(Append(s, e)) = Len(s) + 1
           /\ DOMAIN Append(s, e) = 1 .. Len(s) + 1
           /\ \A i \in 1 .. Len(s) : Append(s, e)[i] = s[i]
           /\ Append(s, e)[Len(s) + 1] = e
OBVIOUS

LEMMA ListAppended ==
    ASSUME NEW s \in Seq(Int), NEW e \in Int
    PROVE  /\ Append(s, e) \in Seq(Int) /\ S!Sum(s) \in Int /\ S!Sum(Append(s, e)) = S!Sum(s) + e
           /\ S!Sum(S!Losses(s)) \in Int
           /\ S!Sum(S!Losses(Append(s, e))) = S!Sum(S!Losses(s)) + S!Smaller(e, 0)
<1>1. PICK n \in Nat : n = Len(s) /\ DOMAIN s = 1 .. n
  BY Appended
<1>2. PICK t : t = Append(s, e)
  OBVIOUS
<1>3. /\ s \in [1 .. n -> Int] /\ t \in [1 .. n + 1 -> Int] /\ t \in Seq(Int)
      /\ t[n + 1] = e /\ \A i \in 1 .. n : t[i] = s[i]
  <2>1. /\ t \in Seq(Int) /\ Len(t) = n + 1 /\ DOMAIN t = 1 .. n + 1
        /\ t[n + 1] = e /\ \A i \in 1 .. n : t[i] = s[i]
    BY <1>1, <1>2, Appended
  <2>2. s \in [1 .. n -> Int]
    BY <1>1
  <2>3. t \in [1 .. n + 1 -> Int]
    BY <2>1
  <2>4. QED
    BY <2>1, <2>2, <2>3
<1>4. SumFunction(t) = SumFunction(s) + t[n + 1]
  BY <1>3, SumAppended
<1>5. SumFunction(s) \in Int
  BY <1>3, FS_Interval, SumOfIntegers
<1>6. PICK f, g : f = S!Losses(s) /\ g = S!Losses(t)
  OBVIOUS
<1>7. \A x \in Int : S!Smaller(x, 0) \in Int
  BY DEF S!Smaller
<1>8. /\ f \in [1 .. n -> Int] /\ g \in [1 .. n + 1 -> Int]
      /\ g[n + 1] = S!Smaller(e, 0) /\ \A i \in 1 .. n : g[i] = f[i]
  <2>1. /\ f = [i \in 1 .. n |-> S!Smaller(s[i], 0)]
        /\ g = [i \in 1 .. n + 1 |-> S!Smaller(t[i], 0)]
    BY <1>3, <1>6 DEF S!Losses
  <2>2. n + 1 \in 1 .. n + 1 /\ \A i \in 1 .. n : i \in 1 .. n + 1
    OBVIOUS
  <2>3. QED
    BY <1>3, <1>7, <2>1, <2>2
<1>9. SumFunction(g) = SumFunction(f) + g[n + 1]
  BY <1>8, SumAppended
<1>10. SumFunction(f) \in Int
  BY <1>8, FS_Interval, SumOfIntegers
<1>11. QED
  BY <1>2, <1>3, <1>4, <1>5, <1>6, <1>8, <1>9, <1>10, ListSum

LEMMA EmptyLists == S!Sum(<<>>) = 0 /\ S!Sum(S!Losses(<<>>)) = 0 /\ <<>> \in Seq(Int)
<1>1. <<>> \in [{} -> Nat] /\ S!Losses(<<>>) \in [{} -> Nat]
  BY DEF S!Losses
<1>2. IsFiniteSet({})
  BY FS_EmptySet
<1>3. SumFunction(<<>>) = 0 /\ SumFunction(S!Losses(<<>>)) = 0
  BY <1>1, <1>2, SumType
<1>4. QED
  BY <1>3, ListSum

\* Two positive credits are no losses.
LEMMA TwoCredits ==
    ASSUME NEW s \in Seq(Int), NEW a \in Nat, NEW b \in Nat
    PROVE  /\ s \o <<a, b>> \in Seq(Int)
           /\ S!Sum(s) \in Int /\ S!Sum(s \o <<a, b>>) = S!Sum(s) + (a + b)
           /\ S!Sum(S!Losses(s)) \in Int /\ S!Sum(S!Losses(s \o <<a, b>>)) = S!Sum(S!Losses(s))
<1>1. a \in Int /\ b \in Int
  OBVIOUS
<1>2. PICK t \in Seq(Int) : t = Append(s, a)
  BY <1>1, Appended
<1>3. s \o <<a, b>> = Append(t, b)
  BY <1>1, <1>2
<1>4. S!Smaller(a, 0) = 0 /\ S!Smaller(b, 0) = 0
  BY DEF S!Smaller
<1>5. /\ S!Sum(s) \in Int /\ S!Sum(t) = S!Sum(s) + a
      /\ S!Sum(S!Losses(s)) \in Int /\ S!Sum(S!Losses(t)) = S!Sum(S!Losses(s)) + 0
  BY <1>1, <1>2, <1>4, ListAppended
<1>6. /\ Append(t, b) \in Seq(Int) /\ S!Sum(Append(t, b)) = S!Sum(t) + b
      /\ S!Sum(S!Losses(Append(t, b))) = S!Sum(S!Losses(t)) + 0
  BY <1>1, <1>4, ListAppended
<1>7. PICK x \in Int, y \in Int : x = S!Sum(s) /\ y = S!Sum(S!Losses(s))
  BY <1>5
<1>8. S!Sum(Append(t, b)) = x + (a + b) /\ S!Sum(S!Losses(Append(t, b))) = y
  <2>1. S!Sum(t) = x + a /\ S!Sum(S!Losses(t)) = y
    BY <1>5, <1>7
  <2>2. (x + a) + b = x + (a + b) /\ y + 0 = y
    BY <1>1
  <2>3. QED
    BY <1>6, <2>1, <2>2
<1>9. QED
  BY <1>3, <1>6, <1>7, <1>8

\* What is credited for one contract raises what is credited in all.
LEMMA CreditsRaised ==
    ASSUME S!IInv, NEW c \in Agreements, NEW s \in Seq(Int), NEW d \in Int,
           credits' = [credits EXCEPT ![c] = s], S!Sum(s) = S!Sum(credits[c]) + d
    PROVE  S!Credited \in Int /\ S!Credited' = S!Credited + d
<1>1. credits \in [Agreements -> Seq(Int)]
  BY DEF S!IInv, S!WellTyped
<1>2. PICK f, g : /\ f = [b \in Agreements |-> S!Sum(credits[b])]
                  /\ g = [b \in Agreements |-> S!Sum(credits'[b])]
  OBVIOUS
<1>3. \A b \in Agreements : S!Sum(credits[b]) \in Int
  BY <1>1, ListAppended
<1>4. S!Sum(s) \in Int
  BY ListAppended
<1>5. credits'[c] = s /\ \A b \in Agreements \ {c} : credits'[b] = credits[b]
  BY <1>1
<1>6. f \in [Agreements -> Int] /\ g \in [Agreements -> Int]
      /\ \A b \in Agreements \ {c} : g[b] = f[b]
  BY <1>2, <1>3, <1>4, <1>5
<1>7. SumFunction(g) = SumFunction(f) + g[c] - f[c] /\ SumFunction(f) \in Int
  BY <1>6, AgreementsAssumption, SumStep, SumOfIntegers
<1>8. g[c] = f[c] + d /\ f[c] \in Int
  BY <1>2, <1>3, <1>5
<1>9. SumFunction(g) = SumFunction(f) + d
  BY <1>7, <1>8
<1>10. QED
  BY <1>2, <1>7, <1>9, ListSum DEF S!Credited
-----------------------------------------------------------------------------
LEMMA HoldingShapes ==
    ASSUME NEW j \in S!Holding
    PROVE  /\ j # S!Idle => j.on \in Agreements
           /\ j.op = "activate" => /\ j \in [op : {"activate"}, on : Agreements,
                                            read : [wallets : S!Wallet, collected : Int]]
                                   /\ j.read.wallets \in S!Wallet /\ j.read.collected \in Int
           /\ j.op = "fund" => j.read.client \in Int
           /\ j.op = "approve_stage" => j.read.technician \in Int
<1>1. \/ j \in [op : {"activate"}, on : Agreements, read : [wallets : S!Wallet, collected : Int]]
      \/ j \in [op : {"fund"}, on : Agreements, read : [client : Int]]
      \/ j \in [op : {"approve_stage"}, on : Agreements, read : [technician : Int]]
      \/ j = S!Idle /\ j.op = "none"
  BY DEF S!Holding, S!Idle
<1>2. /\ j # S!Idle => j.on \in Agreements
      /\ j.op = "fund" => j.read.client \in Int
      /\ j.op = "approve_stage" => j.read.technician \in Int
  BY <1>1
<1>3. ASSUME j.op = "activate"
      PROVE  j \in [op : {"activate"}, on : Agreements,
                    read : [wallets : S!Wallet, collected : Int]]
  BY <1>1, <1>3
<1>4. QED
  BY <1>2, <1>3

\* One request goes on.
LEMMA RequestMoves ==
    ASSUME S!IInv, NEW w \in Clerks, NEW j \in S!Holding, held' = [held EXCEPT ![w] = j]
    PROVE  /\ held' \in [Clerks -> S!Holding] /\ held'[w] = j
           /\ \A v \in Clerks \ {w} : held'[v] = held[v]
BY DEF S!IInv, S!WellTyped

LEMMA Finished ==
    ASSUME S!IInv, NEW w \in Clerks, held' = [held EXCEPT ![w] = S!Idle]
    PROVE  /\ held' \in [Clerks -> S!Holding]
           /\ \A v \in Clerks : held'[v] = held[v] \/ held'[v] = S!Idle
           /\ \A v \in Clerks : S!Covered(held'[v])
<1>1. S!Idle \in S!Holding /\ S!Covered(S!Idle)
  BY DEF S!Holding, S!Covered, S!Idle
<1>2. /\ held' \in [Clerks -> S!Holding]
      /\ \A v \in Clerks : held'[v] = held[v] \/ held'[v] = S!Idle
  BY <1>1 DEF S!IInv, S!WellTyped
<1>3. QED
  BY <1>1, <1>2 DEF S!IInv

LEMMA SolventStays ==
    ASSUME S!IInv, \A v \in Clerks : held'[v] = held[v] \/ held'[v] = S!Idle,
           CommissionRate <= 100 => wallet'.client >= 0 /\ wallet'.technician >= 0
    PROVE  S!Solvent'
<1>1. S!Idle.op \notin {"fund", "approve_stage"}
  BY DEF S!Idle
<1>2. QED
  BY <1>1 DEF S!IInv, S!Solvent

LEMMA BooksStay ==
    ASSUME S!IInv, \A v \in Clerks : held'[v] = held[v] \/ held'[v] = S!Idle,
           \/ overwritten'
           \/ (/\ ~overwritten
               /\ wallet'.platform = collected' /\ wallet'.platform = S!Credited')
    PROVE  S!InBalance'
<1>1. S!Idle.op # "activate"
  BY DEF S!Idle
<1>2. QED
  BY <1>1 DEF S!IInv, S!InBalance

LEMMA ExplainedStays ==
    ASSUME S!IInv, NEW c \in Agreements,
           credits'[c] = credits[c], paid'[c] = paid[c], earnings'[c] = earnings[c],
           deal'[c].staged = deal[c].staged, deal'[c].settled = deal[c].settled,
           deal'[c].client_platform_fee = deal[c].client_platform_fee,
           deal'[c].status = "signed" => deal[c].status = "signed"
    PROVE  S!Explained(c)'
BY DEF S!IInv, S!Explained, S!FullyEarned, S!Losses

LEMMA WalletTypes ==
    ASSUME S!IInv
    PROVE  /\ wallet \in S!Wallet /\ collected \in Int /\ held \in [Clerks -> S!Holding]
           /\ wallet.client \in Int /\ wallet.technician \in Int /\ wallet.platform \in Nat
           /\ overwritten \in BOOLEAN /\ deal \in [Agreements -> S!Deal]
BY DEF S!IInv, S!WellTyped, S!Wallet

LEMMA ReadsKeep ==
    ASSUME S!IInv, NEW w \in Clerks,
           \/ \E c \in Agreements :
                 S!BeginActivate(w, c) \/ S!BeginFund(w, c) \/ S!BeginApproveStage(w, c)
           \/ S!Abandon(w)
    PROVE  S!IInv'
<1>1. UNCHANGED <<wallet, collected, deal, paid, credits, earnings, overwritten>>
  BY DEF S!BeginActivate, S!BeginFund, S!BeginApproveStage, S!Begin, S!Abandon
<1>2. PICK j \in S!Holding :
          /\ held' = [held EXCEPT ![w] = j] /\ S!Covered(j)
          /\ j.op = "activate" => j.read.wallets = wallet /\ j.read.collected = collected
          /\ j.op = "fund" => j.read.client = wallet.client
          /\ j.op = "approve_stage" => j.read.technician = wallet.technician
  <2>1. CASE S!Abandon(w)
    <3>1. S!Idle \in S!Holding /\ S!Idle.op = "none"
      BY DEF S!Holding, S!Idle
    <3>2. QED
      BY <2>1, <3>1 DEF S!Abandon, S!Covered
  <2>2. ASSUME NEW c \in Agreements, S!BeginActivate(w, c)
        PROVE  \E j \in S!Holding :
                   /\ held' = [held EXCEPT ![w] = j] /\ S!Covered(j)
                   /\ j.op = "activate" /\ j.read.wallets = wallet /\ j.read.collected = collected
    <3>1. PICK r : r = [wallets |-> wallet, collected |-> collected]
      OBVIOUS
    <3>2. /\ r \in [wallets : S!Wallet, collected : Int]
          /\ r.wallets = wallet /\ r.collected = collected
      BY <3>1, WalletTypes
    <3>3. PICK j : j = [op |-> "activate", on |-> c, read |-> r]
      OBVIOUS
    <3>4. j \in S!Holding /\ j.op = "activate" /\ j.read = r
      BY <3>2, <3>3 DEF S!Holding
    <3>5. held' = [held EXCEPT ![w] = j]
      BY <2>2, <3>1, <3>3 DEF S!BeginActivate, S!Begin
    <3>6. wallet.client >= Agreed + S!ActivationFee /\ wallet.technician >= S!ActivationFee
      BY <2>2 DEF S!BeginActivate
    <3>7. QED
      BY <3>2, <3>4, <3>5, <3>6 DEF S!Covered
  <2>3. ASSUME NEW c \in Agreements, S!BeginFund(w, c)
        PROVE  \E j \in S!Holding :
                   held' = [held EXCEPT ![w] = j] /\ j.op = "fund" /\ j.read.client = wallet.client
    <3>1. PICK j : j = [op |-> "fund", on |-> c, read |-> [client |-> wallet.client]]
      OBVIOUS
    <3>2. j \in S!Holding /\ j.op = "fund" /\ j.read.client = wallet.client
      BY <3>1, WalletTypes DEF S!Holding
    <3>3. QED
      BY <2>3, <3>1, <3>2 DEF S!BeginFund, S!Begin
  <2>4. ASSUME NEW c \in Agreements, S!BeginApproveStage(w, c)
        PROVE  \E j \in S!Holding : /\ held' = [held EXCEPT ![w] = j] /\ j.op = "approve_stage"
                                  /\ j.read.technician = wallet.technician
    <3>1. PICK j : j = [op |-> "approve_stage", on |-> c,
                        read |-> [technician |-> wallet.technician]]
      OBVIOUS
    <3>2. j \in S!Holding /\ j.op = "approve_stage" /\ j.read.technician = wallet.technician
      BY <3>1, WalletTypes DEF S!Holding
    <3>3. QED
      BY <2>4, <3>1, <3>2 DEF S!BeginApproveStage, S!Begin
  <2>5. QED
    BY <2>1, <2>2, <2>3, <2>4 DEF S!Covered
<1>3. /\ held' \in [Clerks -> S!Holding] /\ held'[w] = j
      /\ \A v \in Clerks \ {w} : held'[v] = held[v]
  BY <1>2, RequestMoves
<1>4. S!WellTyped' /\ \A v \in Clerks : S!Covered(held'[v])
  BY <1>1, <1>2, <1>3 DEF S!IInv, S!WellTyped
<1>5. S!Solvent'
  <2>1. CommissionRate <= 100 => wallet.client >= 0 /\ wallet.technician >= 0
    BY DEF S!IInv, S!Solvent
  <2>2. QED
    BY <1>1, <1>2, <1>3, <2>1 DEF S!IInv, S!Solvent
<1>6. S!InBalance'
  BY <1>1, <1>2, <1>3 DEF S!IInv, S!InBalance, S!Credited
<1>7. \A c \in Agreements : S!Explained(c)'
  BY <1>1, ExplainedStays
<1>8. QED
  BY <1>4, <1>5, <1>6, <1>7 DEF S!IInv, S!Covered

LEMMA FundingsKeep == ASSUME S!IInv, NEW w \in Clerks, S!CommitFund(w) PROVE S!IInv'
<1>1. PICK j \in S!Holding : j = held[w] /\ j.op = "fund"
  BY WalletTypes DEF S!CommitFund
<1>2. PICK c \in Agreements, read \in Int, total \in Nat :
          c = j.on /\ read = j.read.client /\ total = S!ClientTotal
  BY <1>1, HoldingShapes, AmountTypes DEF S!Idle
<1>3. PICK new \in Int : new = read + total
  OBVIOUS
<1>4. /\ wallet' = [wallet EXCEPT !.client = new]
      /\ deal' = [deal EXCEPT ![c].funded = TRUE, ![c].escrow = Agreed]
      /\ held' = [held EXCEPT ![w] = S!Idle]
      /\ UNCHANGED <<collected, paid, credits, earnings, overwritten>>
  BY <1>1, <1>2, <1>3 DEF S!CommitFund, S!Breakdown
<1>5. /\ wallet' \in S!Wallet /\ wallet'.client = new
      /\ wallet'.technician = wallet.technician /\ wallet'.platform = wallet.platform
  BY <1>4, WalletTypes DEF S!Wallet
<1>6. PICK d \in S!Deal : d = [deal[c] EXCEPT !.funded = TRUE, !.escrow = Agreed]
  <2>1. deal[c] \in S!Deal
    BY WalletTypes
  <2>2. QED
    BY <2>1 DEF S!Deal
<1>7. deal' = [deal EXCEPT ![c] = d]
  BY <1>4, <1>6, WalletTypes
<1>8. /\ deal' \in [Agreements -> S!Deal] /\ deal'[c] = d
      /\ \A b \in Agreements \ {c} : deal'[b] = deal[b]
  BY <1>7, WalletTypes
<1>9. /\ d.staged = deal[c].staged /\ d.settled = deal[c].settled
      /\ d.client_platform_fee = deal[c].client_platform_fee /\ d.status = deal[c].status
  <2>1. deal[c] \in S!Deal
    BY WalletTypes
  <2>2. QED
    BY <1>6, <2>1 DEF S!Deal
<1>10. S!WellTyped'
  BY <1>4, <1>5, <1>8, Finished DEF S!IInv, S!WellTyped
<1>11. S!Solvent'
  <2>1. CommissionRate <= 100 => read >= 0 /\ wallet.technician >= 0
    BY <1>1, <1>2 DEF S!IInv, S!Solvent
  <2>2. CommissionRate <= 100 => new >= 0
    BY <1>3, <2>1
  <2>3. QED
    BY <1>4, <1>5, <2>1, <2>2, Finished, SolventStays
<1>12. S!InBalance'
  <2>1. overwritten \/ (wallet.platform = collected /\ wallet.platform = S!Credited)
    BY DEF S!IInv, S!InBalance
  <2>2. S!Credited' = S!Credited
    BY <1>4 DEF S!Credited
  <2>3. QED
    BY <1>4, <1>5, <2>1, <2>2, Finished, BooksStay
<1>13. ASSUME NEW b \in Agreements PROVE S!Explained(b)'
  BY <1>4, <1>8, <1>9, ExplainedStays
<1>14. QED
  BY <1>4, <1>10, <1>11, <1>12, <1>13, Finished DEF S!IInv, S!Covered

LEMMA CompletionsKeep == ASSUME S!IInv, NEW c \in Agreements, S!Complete(c) PROVE S!IInv'
<1>1. deal' = [deal EXCEPT ![c].status = "completed"]
      /\ UNCHANGED <<wallet, collected, paid, credits, earnings, held, overwritten>>
  BY DEF S!Complete
<1>2. deal[c] \in S!Deal
  BY WalletTypes
<1>3. PICK d \in S!Deal : /\ d = [deal[c] EXCEPT !.status = "completed"]
                        /\ d.staged = deal[c].staged /\ d.settled = deal[c].settled
                        /\ d.client_platform_fee = deal[c].client_platform_fee
                        /\ d.status # "signed"
  <2>1. PICK d \in S!Deal : d = [deal[c] EXCEPT !.status = "completed"]
    BY <1>2 DEF S!Deal
  <2>2. /\ d.staged = deal[c].staged /\ d.settled = deal[c].settled
        /\ d.client_platform_fee = deal[c].client_platform_fee /\ d.status = "completed"
    BY <1>2, <2>1 DEF S!Deal
  <2>3. QED
    BY <2>1, <2>2
<1>4. /\ deal' \in [Agreements -> S!Deal] /\ deal'[c] = d
      /\ \A b \in Agreements \ {c} : deal'[b] = deal[b]
  BY <1>1, <1>3, WalletTypes
<1>5. S!WellTyped'
  BY <1>1, <1>4 DEF S!IInv, S!WellTyped
<1>6. S!Solvent' /\ S!InBalance' /\ \A w \in Clerks : S!Covered(held[w])'
  BY <1>1 DEF S!IInv, S!Solvent, S!InBalance, S!Covered, S!Credited
<1>7. ASSUME NEW b \in Agreements PROVE S!Explained(b)'
  BY <1>1, <1>3, <1>4, ExplainedStays
<1>8. QED
  BY <1>5, <1>6, <1>7 DEF S!IInv

LEMMA EarnedTypes ==
    /\ S!Earned \in Seq(S!Earning) /\ S!FullyEarned(S!Earned) /\ <<>> \o S!Earned = S!Earned
    /\ \A s \in Seq(S!Earning) : s \o S!Earned \in Seq(S!Earning)
<1>1. PICK e, f : /\ e = [type |-> "commission", amount |-> S!Commission, status |-> "earned"]
                  /\ f = [type |-> "service fee", amount |-> S!ServiceFee, status |-> "earned"]
  OBVIOUS
<1>2. e \in S!Earning /\ f \in S!Earning /\ S!Earned = <<e, f>>
  BY <1>1 DEF S!Earning, S!Earned
<1>3. <<e, f>> \in Seq(S!Earning) /\ Len(<<e, f>>) = 2 /\ <<e, f>>[1] = e /\ <<e, f>>[2] = f
  BY <1>2
<1>4. S!FullyEarned(<<e, f>>)
  BY <1>1, <1>3 DEF S!FullyEarned
<1>5. \A s \in Seq(S!Earning) : s \o <<e, f>> \in Seq(S!Earning)
  BY <1>2
<1>6. <<>> \o <<e, f>> = <<e, f>>
  OBVIOUS
<1>7. QED
  BY <1>2, <1>3, <1>4, <1>5, <1>6

LEMMA StagePaymentsKeep == ASSUME S!IInv, NEW w \in Clerks, S!CommitApproveStage(w) PROVE S!IInv'
<1>1. PICK j \in S!Holding : j = held[w] /\ j.op = "approve_stage"
  BY WalletTypes DEF S!CommitApproveStage
<1>2. PICK c \in Agreements, read \in Int, price \in Nat :
          c = j.on /\ read = j.read.technician /\ price = Agreed
  BY <1>1, HoldingShapes, RatesAssumption DEF S!Idle
<1>3. PICK new \in Int : new = read + price
  OBVIOUS
<1>4. PICK s \in Seq(Int) : s = paid[c]
  BY DEF S!IInv, S!WellTyped
<1>5. PICK t \in Seq(Int) : t = Append(s, price) /\ Len(t) = Len(s) + 1 /\ Len(s) \in Nat
  <2>1. price \in Int
    OBVIOUS
  <2>2. QED
    BY <2>1, Appended
<1>6. deal[c] \in S!Deal /\ earnings[c] \in Seq(S!Earning)
  BY DEF S!IInv, S!WellTyped
<1>7. PICK e \in Seq(S!Earning) :
          e = IF deal[c].staged THEN earnings[c] ELSE earnings[c] \o S!Earned
  BY <1>6, EarnedTypes
<1>8. PICK d \in S!Deal : /\ d = [deal[c] EXCEPT !.status = "completed", !.staged = TRUE]
                        /\ d.staged /\ d.settled = deal[c].settled
                        /\ d.client_platform_fee = deal[c].client_platform_fee
                        /\ d.status # "signed"
  <2>1. PICK d \in S!Deal : d = [deal[c] EXCEPT !.status = "completed", !.staged = TRUE]
    BY <1>6 DEF S!Deal
  <2>2. /\ d.staged /\ d.settled = deal[c].settled
        /\ d.client_platform_fee = deal[c].client_platform_fee /\ d.status = "completed"
    BY <1>6, <2>1 DEF S!Deal
  <2>3. QED
    BY <2>1, <2>2
<1>9. /\ wallet' = [wallet EXCEPT !.technician = new]
      /\ paid' = [paid EXCEPT ![c] = t]
      /\ earnings' = [earnings EXCEPT ![c] = e]
      /\ deal' = [deal EXCEPT ![c] = d]
      /\ held' = [held EXCEPT ![w] = S!Idle]
      /\ UNCHANGED <<collected, credits, overwritten>>
  <2>1. /\ wallet' = [wallet EXCEPT !.technician = new]
        /\ paid' = [paid EXCEPT ![c] = Append(@, price)]
        /\ earnings' = [earnings EXCEPT ![c] = IF deal[c].staged THEN @ ELSE @ \o S!Earned]
        /\ deal' = [deal EXCEPT ![c].status = "completed", ![c].staged = TRUE]
        /\ held' = [held EXCEPT ![w] = S!Idle]
        /\ UNCHANGED <<collected, credits, overwritten>>
    BY <1>1, <1>2, <1>3 DEF S!CommitApproveStage
  <2>2. paid' = [paid EXCEPT ![c] = t]
    BY <1>4, <1>5, <2>1 DEF S!IInv, S!WellTyped
  <2>3. earnings' = [earnings EXCEPT ![c] = e]
    BY <1>7, <2>1 DEF S!IInv, S!WellTyped
  <2>4. deal' = [deal EXCEPT ![c] = d]
    BY <1>8, <2>1, WalletTypes
  <2>5. QED
    BY <2>1, <2>2, <2>3, <2>4
<1>10. /\ wallet' \in S!Wallet /\ wallet'.technician = new
       /\ wallet'.client = wallet.client /\ wallet'.platform = wallet.platform
  BY <1>9, WalletTypes DEF S!Wallet
<1>11. /\ deal' \in [Agreements -> S!Deal] /\ deal'[c] = d
       /\ \A b \in Agreements \ {c} : deal'[b] = deal[b]
       /\ paid' \in [Agreements -> Seq(Int)] /\ paid'[c] = t
       /\ \A b \in Agreements \ {c} : paid'[b] = paid[b]
       /\ earnings' \in [Agreements -> Seq(S!Earning)]
       /\ \A b \in Agreements \ {c} : earnings'[b] = earnings[b]
  BY <1>9 DEF S!IInv, S!WellTyped
<1>12. S!WellTyped'
  BY <1>9, <1>10, <1>11, Finished DEF S!IInv, S!WellTyped
<1>13. S!Solvent'
  <2>1. CommissionRate <= 100 => read >= 0 /\ wallet.client >= 0
    BY <1>1, <1>2 DEF S!IInv, S!Solvent
  <2>2. CommissionRate <= 100 => new >= 0
    BY <1>3, <2>1
  <2>3. QED
    BY <1>9, <1>10, <2>1, <2>2, Finished, SolventStays
<1>14. S!InBalance'
  <2>1. overwritten \/ (wallet.platform = collected /\ wallet.platform = S!Credited)
    BY DEF S!IInv, S!InBalance
  <2>2. S!Credited' = S!Credited
    BY <1>9 DEF S!Credited
  <2>3. QED
    BY <1>9, <1>10, <2>1, <2>2, Finished, BooksStay
<1>15. S!Explained(c)'
  <2>1. Len(t) > IF deal[c].settled THEN 1 ELSE 0
    <3>1. CASE deal[c].settled
      <4>1. Len(s) > 0
        <5>1. CASE deal[c].staged
          BY <1>4, <1>5, <3>1, <5>1 DEF S!IInv, S!Explained
        <5>2. CASE ~deal[c].staged
          <6>1. s = <<S!NetAmount>>
            BY <1>4, <3>1, <5>2 DEF S!IInv, S!Explained
          <6>2. QED
            BY <6>1
        <5>3. QED
          BY <5>1, <5>2
      <4>2. QED
        BY <1>5, <3>1, <4>1
    <3>2. CASE ~deal[c].settled
      BY <1>5, <3>2
    <3>3. QED
      BY <3>1, <3>2
  <2>2. QED
    BY <1>8, <1>9, <1>11, <2>1 DEF S!IInv, S!Explained, S!Losses
<1>16. ASSUME NEW b \in Agreements PROVE S!Explained(b)'
  <2>1. CASE b # c
    BY <1>9, <1>11, <2>1, ExplainedStays
  <2>2. QED
    BY <1>15, <2>1
<1>17. QED
  BY <1>9, <1>12, <1>13, <1>14, <1>16, Finished DEF S!IInv, S!Covered

LEMMA ActivationsKeep == ASSUME S!IInv, NEW w \in Clerks, S!CommitActivate(w) PROVE S!IInv'
<1>1. PICK j \in S!Holding : j = held[w] /\ j.op = "activate"
  BY WalletTypes DEF S!CommitActivate
<1>2. PICK c \in Agreements : c = j.on /\ deal[c].status = "signed"
  BY <1>1, HoldingShapes DEF S!Idle, S!CommitActivate
<1>3. PICK read \in S!Wallet, sum \in Int : read = j.read.wallets /\ sum = j.read.collected
  BY <1>1, HoldingShapes
<1>4. PICK fee \in Nat, price \in Nat : fee = S!ActivationFee /\ price = Agreed
  BY AmountTypes, RatesAssumption
<1>5. PICK client \in Int, technician \in Int, platform \in Nat :
          /\ client = read.client - price - fee /\ technician = read.technician - fee
          /\ platform = read.platform + 2 * fee
          /\ client >= 0 /\ technician >= 0
  <2>1. read.client \in Int /\ read.technician \in Int /\ read.platform \in Nat
    BY DEF S!Wallet
  <2>2. read.client >= price + fee /\ read.technician >= fee
    BY <1>1, <1>3, <1>4 DEF S!IInv, S!Covered
  <2>3. QED
    BY <2>1, <2>2
<1>6. deal[c] \in S!Deal /\ credits[c] \in Seq(Int)
  BY DEF S!IInv, S!WellTyped
<1>7. PICK s : s = credits[c] \o <<fee, fee>>
  OBVIOUS
<1>8. /\ s \in Seq(Int) /\ S!Sum(credits[c]) \in Int /\ S!Sum(s) = S!Sum(credits[c]) + (fee + fee)
      /\ S!Sum(S!Losses(credits[c])) \in Int /\ S!Sum(S!Losses(s)) = S!Sum(S!Losses(credits[c]))
  BY <1>6, <1>7, TwoCredits
<1>9. PICK d \in S!Deal : /\ d = [deal[c] EXCEPT !.status = "working", !.escrow = price,
                                              !.client_platform_fee = fee]
                        /\ d.staged = deal[c].staged /\ d.settled = deal[c].settled
                        /\ d.client_platform_fee = fee /\ d.status # "signed"
  <2>1. PICK d \in S!Deal : d = [deal[c] EXCEPT !.status = "working", !.escrow = price,
                                              !.client_platform_fee = fee]
    BY <1>4, <1>6 DEF S!Deal
  <2>2. /\ d.staged = deal[c].staged /\ d.settled = deal[c].settled
        /\ d.client_platform_fee = fee /\ d.status = "working"
    BY <1>6, <2>1 DEF S!Deal
  <2>3. QED
    BY <2>1, <2>2
<1>10. /\ wallet' = [client |-> client, technician |-> technician, platform |-> platform]
       /\ collected' = sum + 2 * fee
       /\ deal' = [deal EXCEPT ![c] = d]
       /\ credits' = [credits EXCEPT ![c] = s]
       /\ overwritten' = (overwritten \/ read.platform # wallet.platform)
       /\ held' = [held EXCEPT ![w] = S!Idle]
       /\ UNCHANGED <<paid, earnings>>
  <2>1. /\ wallet' = [client |-> client, technician |-> technician, platform |-> platform]
        /\ collected' = sum + 2 * fee
        /\ deal' = [deal EXCEPT ![c].status = "working", ![c].escrow = price,
                                 ![c].client_platform_fee = fee]
        /\ credits' = [credits EXCEPT ![c] = @ \o <<fee, fee>>]
        /\ overwritten' = (overwritten \/ read.platform # wallet.platform)
        /\ held' = [held EXCEPT ![w] = S!Idle]
        /\ UNCHANGED <<paid, earnings>>
    BY <1>1, <1>2, <1>3, <1>4, <1>5 DEF S!CommitActivate
  <2>2. deal' = [deal EXCEPT ![c] = d]
    BY <1>9, <2>1, WalletTypes
  <2>3. credits' = [credits EXCEPT ![c] = s]
    BY <1>7, <2>1 DEF S!IInv, S!WellTyped
  <2>4. QED
    BY <2>1, <2>2, <2>3
<1>11. /\ wallet' \in S!Wallet /\ wallet'.technician = technician
       /\ wallet'.client = client /\ wallet'.platform = platform
  BY <1>10 DEF S!Wallet
<1>12. /\ deal' \in [Agreements -> S!Deal] /\ deal'[c] = d
       /\ \A b \in Agreements \ {c} : deal'[b] = deal[b]
       /\ credits' \in [Agreements -> Seq(Int)] /\ credits'[c] = s
       /\ \A b \in Agreements \ {c} : credits'[b] = credits[b]
  BY <1>8, <1>10 DEF S!IInv, S!WellTyped
<1>13. S!WellTyped'
  <2>1. collected' \in Int /\ overwritten' \in BOOLEAN
    BY <1>10, WalletTypes
  <2>2. QED
    BY <1>10, <1>11, <1>12, <2>1, Finished DEF S!IInv, S!WellTyped
<1>14. S!Solvent'
  BY <1>5, <1>10, <1>11, Finished, SolventStays
<1>15. S!InBalance'
  <2>1. ASSUME ~overwritten'
        PROVE  ~overwritten /\ platform = collected' /\ platform = S!Credited'
    <3>1. ~overwritten /\ read.platform = wallet.platform
      BY <1>10, <2>1
    <3>2. read.platform = sum /\ wallet.platform = S!Credited
      BY <1>1, <1>3, <3>1 DEF S!IInv, S!InBalance
    <3>3. PICK e \in Int : e = fee + fee
      OBVIOUS
    <3>4. S!Credited \in Int /\ S!Credited' = S!Credited + e
      BY <1>8, <1>10, <3>3, CreditsRaised
    <3>5. PICK x \in Nat : x = read.platform
      BY DEF S!Wallet
    <3>6. S!Credited = x /\ sum = x
      BY <3>1, <3>2, <3>5
    <3>7. S!Credited' = x + (fee + fee) /\ collected' = x + 2 * fee /\ platform = x + 2 * fee
      BY <1>5, <1>10, <3>3, <3>4, <3>5, <3>6
    <3>8. QED
      BY <3>1, <3>7
  <2>2. QED
    BY <1>10, <1>11, <2>1, Finished, BooksStay
<1>16. S!Explained(c)'
  <2>1. PICK x \in Int, y \in Int : x = S!Sum(credits[c]) /\ y = S!Sum(S!Losses(credits[c]))
    BY <1>8
  <2>2. PICK f \in Nat : f = IF deal[c].settled THEN S!Commission + S!ServiceFee ELSE 0
    BY AmountTypes
  <2>3. x = y + f
    <3>1. S!Sum(credits[c]) = 2 * deal[c].client_platform_fee + S!Sum(S!Losses(credits[c]))
                            + (IF deal[c].settled THEN S!Commission + S!ServiceFee ELSE 0)
          /\ deal[c].client_platform_fee = 0
      BY <1>2 DEF S!IInv, S!Explained
    <3>2. x = 2 * 0 + y + f
      BY <2>1, <2>2, <3>1
    <3>3. QED
      BY <3>2
  <2>4. S!Sum(s) = 2 * fee + y + f /\ S!Sum(S!Losses(s)) = y
    BY <1>8, <2>1, <2>3
  <2>5. S!Sum(s) = 2 * d.client_platform_fee + S!Sum(S!Losses(s))
                 + (IF d.settled THEN S!Commission + S!ServiceFee ELSE 0)
    BY <1>9, <2>2, <2>4
  <2>6. QED
    BY <1>9, <1>10, <1>12, <2>5 DEF S!IInv, S!Explained, S!FullyEarned, S!Losses
<1>17. ASSUME NEW b \in Agreements PROVE S!Explained(b)'
  <2>1. CASE b # c
    BY <1>10, <1>12, <2>1, ExplainedStays
  <2>2. QED
    BY <1>16, <2>1
<1>18. QED
  BY <1>10, <1>13, <1>14, <1>15, <1>17, Finished DEF S!IInv, S!Covered

LEMMA SettlementsKeep == ASSUME S!IInv, NEW c \in Agreements, S!Settle(c) PROVE S!IInv'
<1>1. ~deal[c].settled /\ deal[c].escrow > 0 /\ deal[c].status = "completed"
  BY DEF S!Settle, S!MaySettle
<1>2. PICK net \in Int, cut \in Nat, extra \in Nat :
          /\ net = S!NetAmount /\ cut = S!Commission /\ extra = S!ServiceFee
          /\ CommissionRate <= 100 => net >= 0
  <2>1. PICK net \in Int : net = S!NetAmount /\ (CommissionRate <= 100 => net \in Nat)
    BY AmountTypes
  <2>2. QED
    BY <2>1, AmountTypes
<1>3. PICK fee \in Nat : fee = cut + extra
  OBVIOUS
<1>4. deal[c] \in S!Deal /\ credits[c] \in Seq(Int) /\ earnings[c] \in Seq(S!Earning)
  BY DEF S!IInv, S!WellTyped
<1>5. PICK s \in Seq(Int) : s = paid[c]
  BY DEF S!IInv, S!WellTyped
<1>6. PICK t \in Seq(Int) : t = Append(s, net) /\ Len(t) = Len(s) + 1 /\ Len(s) \in Nat
  BY Appended
<1>7. PICK e \in Seq(S!Earning) : e = earnings[c] \o S!Earned
  BY <1>4, EarnedTypes
<1>8. PICK r : r = credits[c] \o <<cut, extra>>
  OBVIOUS
<1>9. /\ r \in Seq(Int) /\ S!Sum(credits[c]) \in Int /\ S!Sum(r) = S!Sum(credits[c]) + fee
      /\ S!Sum(S!Losses(credits[c])) \in Int /\ S!Sum(S!Losses(r)) = S!Sum(S!Losses(credits[c]))
  BY <1>3, <1>4, <1>8, TwoCredits
<1>10. deal[c].escrow \in {0, Agreed} /\ deal[c].escrow - deal[c].escrow = 0
  <2>1. deal[c].escrow \in {0, Agreed}
    BY <1>4 DEF S!Deal
  <2>2. QED
    BY <2>1, RatesAssumption
<1>11. PICK d \in S!Deal : /\ d = [deal[c] EXCEPT !.escrow = 0, !.settled = TRUE]
                         /\ d.staged = deal[c].staged /\ d.settled
                         /\ d.client_platform_fee = deal[c].client_platform_fee
                         /\ d.status = deal[c].status
  <2>1. PICK d \in S!Deal : d = [deal[c] EXCEPT !.escrow = 0, !.settled = TRUE]
    BY <1>4 DEF S!Deal
  <2>2. /\ d.staged = deal[c].staged /\ d.settled /\ d.status = deal[c].status
        /\ d.client_platform_fee = deal[c].client_platform_fee
    BY <1>4, <2>1 DEF S!Deal
  <2>3. QED
    BY <2>1, <2>2
<1>12. /\ wallet' = [wallet EXCEPT !.technician = @ + net, !.platform = @ + fee]
       /\ collected' = collected + fee
       /\ deal' = [deal EXCEPT ![c] = d]
       /\ paid' = [paid EXCEPT ![c] = t]
       /\ earnings' = [earnings EXCEPT ![c] = e]
       /\ credits' = [credits EXCEPT ![c] = r]
       /\ UNCHANGED <<held, overwritten>>
  <2>1. /\ wallet' = [wallet EXCEPT !.technician = @ + net, !.platform = @ + fee]
        /\ collected' = collected + fee
        /\ deal' = [deal EXCEPT ![c].escrow = @ - deal[c].escrow, ![c].settled = TRUE]
        /\ paid' = [paid EXCEPT ![c] = Append(@, net)]
        /\ earnings' = [earnings EXCEPT ![c] = @ \o S!Earned]
        /\ credits' = [credits EXCEPT ![c] = @ \o <<cut, extra>>]
        /\ UNCHANGED <<held, overwritten>>
    BY <1>2, <1>3 DEF S!Settle, S!Release, S!Settlement, S!Breakdown
  <2>2. deal' = [deal EXCEPT ![c] = d]
    BY <1>10, <1>11, <2>1, WalletTypes
  <2>3. paid' = [paid EXCEPT ![c] = t]
    BY <1>5, <1>6, <2>1 DEF S!IInv, S!WellTyped
  <2>4. earnings' = [earnings EXCEPT ![c] = e]
    BY <1>7, <2>1 DEF S!IInv, S!WellTyped
  <2>5. credits' = [credits EXCEPT ![c] = r]
    BY <1>8, <2>1 DEF S!IInv, S!WellTyped
  <2>6. QED
    BY <2>1, <2>2, <2>3, <2>4, <2>5
<1>13. PICK has \in Int, platform \in Nat :
           has = wallet.technician /\ platform = wallet.platform
  BY WalletTypes
<1>14. PICK earned \in Int, grown \in Nat : earned = has + net /\ grown = platform + fee
  OBVIOUS
<1>15. /\ wallet' \in S!Wallet /\ wallet'.technician = earned
       /\ wallet'.client = wallet.client /\ wallet'.platform = grown
  <2>1. wallet' = [wallet EXCEPT !.technician = earned, !.platform = grown]
    BY <1>12, <1>13, <1>14, WalletTypes DEF S!Wallet
  <2>2. QED
    BY <2>1, WalletTypes DEF S!Wallet
<1>16. /\ deal' \in [Agreements -> S!Deal] /\ deal'[c] = d
       /\ \A b \in Agreements \ {c} : deal'[b] = deal[b]
       /\ paid' \in [Agreements -> Seq(Int)] /\ paid'[c] = t
       /\ \A b \in Agreements \ {c} : paid'[b] = paid[b]
  BY <1>12 DEF S!IInv, S!WellTyped
<1>17. /\ earnings' \in [Agreements -> Seq(S!Earning)] /\ earnings'[c] = e
       /\ \A b \in Agreements \ {c} : earnings'[b] = earnings[b]
       /\ credits' \in [Agreements -> Seq(Int)] /\ credits'[c] = r
       /\ \A b \in Agreements \ {c} : credits'[b] = credits[b]
  BY <1>9, <1>12 DEF S!IInv, S!WellTyped
<1>18. S!WellTyped'
  <2>1. collected' \in Int
    BY <1>12, WalletTypes
  <2>2. QED
    BY <1>12, <1>15, <1>16, <1>17, <2>1, WalletTypes DEF S!IInv, S!WellTyped
<1>19. \A v \in Clerks : held'[v] = held[v] \/ held'[v] = S!Idle
  BY <1>12
<1>20. S!Solvent'
  <2>1. CommissionRate <= 100 => has >= 0 /\ wallet.client >= 0
    BY <1>13 DEF S!IInv, S!Solvent
  <2>2. CommissionRate <= 100 => earned >= 0
    BY <1>2, <1>14, <2>1
  <2>3. QED
    BY <1>15, <1>19, <2>1, <2>2, SolventStays
<1>21. S!InBalance'
  <2>1. ASSUME ~overwritten'
        PROVE  ~overwritten /\ grown = collected' /\ grown = S!Credited'
    <3>1. ~overwritten /\ platform = collected /\ platform = S!Credited
      BY <1>12, <1>13, <2>1 DEF S!IInv, S!InBalance
    <3>2. fee \in Int
      OBVIOUS
    <3>3. S!Credited' = S!Credited + fee
      BY <1>9, <1>12, <3>2, CreditsRaised
    <3>4. QED
      BY <1>12, <1>14, <3>1, <3>3
  <2>2. QED
    BY <1>15, <1>19, <2>1, BooksStay
<1>22. S!Explained(c)'
  <2>1. PICK x \in Int, y \in Int : x = S!Sum(credits[c]) /\ y = S!Sum(S!Losses(credits[c]))
    BY <1>9
  <2>2. PICK charge \in Nat : charge = deal[c].client_platform_fee
    BY <1>4, AmountTypes DEF S!Deal
  <2>3. x = 2 * charge + y
    <3>1. S!Sum(credits[c]) = 2 * deal[c].client_platform_fee + S!Sum(S!Losses(credits[c])) + 0
      BY <1>1 DEF S!IInv, S!Explained
    <3>2. QED
      BY <2>1, <2>2, <3>1
  <2>4. S!Sum(r) = 2 * charge + y + fee /\ S!Sum(S!Losses(r)) = y
    BY <1>9, <2>1, <2>3
  <2>5. S!Sum(r) = 2 * d.client_platform_fee + S!Sum(S!Losses(r))
                 + (IF d.settled THEN S!Commission + S!ServiceFee ELSE 0)
    BY <1>2, <1>3, <1>11, <2>2, <2>4
  <2>6. d.staged => Len(t) > 1
    <3>1. d.staged => Len(s) > 0
      BY <1>1, <1>5, <1>11 DEF S!IInv, S!Explained
    <3>2. QED
      BY <1>6, <3>1
  <2>7. ~d.staged => t = <<S!NetAmount>> /\ S!FullyEarned(e)
    <3>1. ASSUME ~d.staged PROVE s = <<>> /\ earnings[c] = <<>>
      BY <1>1, <1>5, <1>11, <3>1 DEF S!IInv, S!Explained
    <3>2. s = <<>> => t = <<net>>
      BY <1>6
    <3>3. QED
      BY <1>2, <1>7, <3>1, <3>2, EarnedTypes
  <2>8. d.status # "signed"
    BY <1>1, <1>11
  <2>9. QED
    BY <1>11, <1>16, <1>17, <2>5, <2>6, <2>7, <2>8 DEF S!Explained, S!FullyEarned, S!Losses
<1>23. ASSUME NEW b \in Agreements PROVE S!Explained(b)'
  <2>1. CASE b # c
    BY <1>16, <1>17, <2>1, ExplainedStays
  <2>2. QED
    BY <1>22, <2>1
<1>24. QED
  BY <1>12, <1>18, <1>20, <1>21, <1>23 DEF S!IInv, S!Covered

\* A reversal changes the status of earnings, and nothing else of them.
LEMMA ReversalTypes ==
    ASSUME NEW list \in Seq(S!Earning), NEW price
    PROVE  /\ S!Reversed(list, price) \in Seq(S!Earning)
           /\ S!FullyEarned(list) => S!FullyEarned(S!Reversed(list, price))
           /\ list = <<>> => S!Reversed(list, price) = <<>>
<1>1. PICK n \in Nat : n = Len(list) /\ DOMAIN list = 1 .. n
  OBVIOUS
<1>2. PICK new : new = S!Reversed(list, price)
  OBVIOUS
<1>3. DOMAIN new = 1 .. n
  BY <1>1, <1>2 DEF S!Reversed
<1>4. \A i \in 1 .. n : new[i] = list[i] \/ new[i] = [list[i] EXCEPT !.status = "reversed"]
  BY <1>1, <1>2 DEF S!Reversed
<1>5. ASSUME NEW i \in 1 .. n
      PROVE  new[i] \in S!Earning /\ new[i].type = list[i].type /\ new[i].amount = list[i].amount
  <2>1. list[i] \in S!Earning
    BY <1>1
  <2>2. PICK x \in S!Earning : x = list[i]
    BY <2>1
  <2>3. PICK y \in S!Earning : y = [x EXCEPT !.status = "reversed"]
    BY DEF S!Earning
  <2>4. y.type = x.type /\ y.amount = x.amount
    BY <2>3 DEF S!Earning
  <2>5. QED
    BY <1>4, <2>2, <2>3, <2>4
<1>6. new = [i \in 1 .. n |-> new[i]]
  BY <1>1, <1>2 DEF S!Reversed
<1>7. new \in Seq(S!Earning)
  BY <1>5, <1>6
<1>8. Len(new) = n
  BY <1>3, <1>7
<1>9. S!FullyEarned(list) => S!FullyEarned(new)
  <2>1. n = 2 => 1 \in 1 .. n /\ 2 \in 1 .. n
    OBVIOUS
  <2>2. n = 2 => /\ new[1].type = list[1].type /\ new[1].amount = list[1].amount
                 /\ new[2].type = list[2].type /\ new[2].amount = list[2].amount
    BY <1>5, <2>1
  <2>3. QED
    BY <1>1, <1>8, <2>2 DEF S!FullyEarned
<1>10. list = <<>> => new = <<>>
  BY <1>1, <1>7, <1>8
<1>11. QED
  BY <1>2, <1>7, <1>9, <1>10

LEMMA ResolutionsKeep ==
    ASSUME S!IInv, NEW c \in Agreements, NEW refund \in Refunds, NEW fee \in Reversals,
           S!Resolve(c, refund, fee)
    PROVE  S!IInv'
<1>1. PICK has \in Int, client \in Int, platform \in Nat :
          has = wallet.technician /\ client = wallet.client /\ platform = wallet.platform
  BY WalletTypes
<1>2. PICK asked \in Nat, named \in Int : asked = refund /\ named = fee
  BY ResolvedAssumption
<1>3. PICK back \in Nat :
          /\ back = IF S!Smaller(refund, has) > 0 THEN S!Smaller(refund, has) ELSE 0
          /\ has >= 0 => back <= has
  <2>1. PICK least \in Int : least = S!Smaller(refund, has) /\ least <= has
    BY <1>2 DEF S!Smaller
  <2>2. CASE least > 0
    BY <2>1, <2>2
  <2>3. CASE ~(least > 0)
    BY <2>1, <2>3
  <2>4. QED
    BY <2>2, <2>3
<1>4. PICK returned \in Nat : /\ returned = IF fee > 0 THEN S!Smaller(fee, platform) ELSE 0
                              /\ returned <= platform
  <2>1. CASE named > 0
    BY <1>2, <2>1 DEF S!Smaller
  <2>2. CASE ~(named > 0)
    BY <1>2, <2>2
  <2>3. QED
    BY <2>1, <2>2
<1>5. PICK loss \in Int : loss = -returned /\ loss + returned = 0 /\ S!Smaller(loss, 0) = loss
  BY DEF S!Smaller
<1>6. deal[c] \in S!Deal /\ credits[c] \in Seq(Int) /\ earnings[c] \in Seq(S!Earning)
  BY DEF S!IInv, S!WellTyped
<1>7. PICK e \in Seq(S!Earning) :
          /\ e = S!Reversed(earnings[c], fee)
          /\ S!FullyEarned(earnings[c]) => S!FullyEarned(e)
          /\ earnings[c] = <<>> => e = <<>>
  BY <1>6, ReversalTypes
<1>8. PICK r : r = IF fee > 0 THEN Append(credits[c], loss) ELSE credits[c]
  OBVIOUS
<1>9. /\ r \in Seq(Int) /\ S!Sum(credits[c]) \in Int /\ S!Sum(r) = S!Sum(credits[c]) + loss
      /\ S!Sum(S!Losses(credits[c])) \in Int
      /\ S!Sum(S!Losses(r)) = S!Sum(S!Losses(credits[c])) + loss
  <2>1. S!Sum(credits[c]) \in Int /\ S!Sum(S!Losses(credits[c])) \in Int
    BY <1>6, ListAppended
  <2>2. CASE fee > 0
    <3>1. /\ Append(credits[c], loss) \in Seq(Int)
          /\ S!Sum(Append(credits[c], loss)) = S!Sum(credits[c]) + loss
          /\ S!Sum(S!Losses(Append(credits[c], loss))) =
                 S!Sum(S!Losses(credits[c])) + S!Smaller(loss, 0)
      BY <1>6, ListAppended
    <3>2. r = Append(credits[c], loss)
      BY <1>8, <2>2
    <3>3. QED
      BY <1>5, <2>1, <3>1, <3>2
  <2>3. CASE ~(fee > 0)
    <3>1. r = credits[c]
      BY <1>8, <2>3
    <3>2. returned = 0
      BY <1>4, <2>3
    <3>3. loss = 0
      <4>1. loss + returned = 0
        BY <1>5
      <4>2. QED
        BY <3>2, <4>1
    <3>4. QED
      BY <1>6, <2>1, <3>1, <3>3
  <2>4. QED
    BY <2>2, <2>3
<1>10. PICK d \in S!Deal : /\ d = [deal[c] EXCEPT !.resolutions = @ + 1]
                         /\ d.staged = deal[c].staged /\ d.settled = deal[c].settled
                         /\ d.client_platform_fee = deal[c].client_platform_fee
                         /\ d.status = deal[c].status
  <2>1. PICK d \in S!Deal : d = [deal[c] EXCEPT !.resolutions = @ + 1]
    <3>1. PICK next \in Nat : next = deal[c].resolutions + 1
      BY <1>6 DEF S!Deal
    <3>2. [deal[c] EXCEPT !.resolutions = next] \in S!Deal
      BY <1>6 DEF S!Deal
    <3>3. QED
      BY <3>1, <3>2
  <2>2. /\ d.staged = deal[c].staged /\ d.settled = deal[c].settled /\ d.status = deal[c].status
        /\ d.client_platform_fee = deal[c].client_platform_fee
    BY <1>6, <2>1 DEF S!Deal
  <2>3. QED
    BY <2>1, <2>2
<1>11. PICK richer \in Int, poorer \in Int, left \in Nat :
           /\ richer = client + back /\ poorer = has - back /\ left = platform - returned
  BY <1>4
<1>12. /\ wallet' = [client |-> richer, technician |-> poorer, platform |-> left]
       /\ collected' = collected - returned
       /\ deal' = [deal EXCEPT ![c] = d]
       /\ credits' = [credits EXCEPT ![c] = r]
       /\ earnings' = [earnings EXCEPT ![c] = e]
       /\ UNCHANGED <<paid, held, overwritten>>
  <2>1. /\ back = IF S!Smaller(refund, wallet.technician) > 0
                    THEN S!Smaller(refund, wallet.technician) ELSE 0
        /\ returned = IF fee > 0 THEN S!Recoverable(fee) ELSE 0
    BY <1>1, <1>3, <1>4 DEF S!Recoverable
  <2>2. /\ wallet' = [client |-> wallet.client + back, technician |-> wallet.technician - back,
                      platform |-> wallet.platform - returned]
        /\ collected' = collected - returned
        /\ deal' = [deal EXCEPT ![c].resolutions = @ + 1]
        /\ credits' = [credits EXCEPT ![c] = IF fee > 0 THEN Append(@, -returned) ELSE @]
        /\ earnings' = [earnings EXCEPT ![c] = S!Reversed(@, fee)]
        /\ UNCHANGED <<paid, held, overwritten>>
    BY <2>1 DEF S!Resolve
  <2>3. wallet' = [client |-> richer, technician |-> poorer, platform |-> left]
    BY <1>1, <1>11, <2>2
  <2>4. deal' = [deal EXCEPT ![c] = d]
    BY <1>10, <2>2, WalletTypes
  <2>5. credits' = [credits EXCEPT ![c] = r]
    BY <1>5, <1>8, <2>2 DEF S!IInv, S!WellTyped
  <2>6. earnings' = [earnings EXCEPT ![c] = e]
    BY <1>7, <2>2 DEF S!IInv, S!WellTyped
  <2>7. QED
    BY <2>2, <2>3, <2>4, <2>5, <2>6
<1>13. /\ wallet' \in S!Wallet /\ wallet'.client = richer
       /\ wallet'.technician = poorer /\ wallet'.platform = left
  BY <1>12 DEF S!Wallet
<1>14. /\ deal' \in [Agreements -> S!Deal] /\ deal'[c] = d
       /\ \A b \in Agreements \ {c} : deal'[b] = deal[b]
  BY <1>12, WalletTypes
<1>15. /\ earnings' \in [Agreements -> Seq(S!Earning)] /\ earnings'[c] = e
       /\ \A b \in Agreements \ {c} : earnings'[b] = earnings[b]
       /\ credits' \in [Agreements -> Seq(Int)] /\ credits'[c] = r
       /\ \A b \in Agreements \ {c} : credits'[b] = credits[b]
  BY <1>9, <1>12 DEF S!IInv, S!WellTyped
<1>16. S!WellTyped'
  <2>1. collected' \in Int
    BY <1>12, WalletTypes
  <2>2. QED
    BY <1>12, <1>13, <1>14, <1>15, <2>1, WalletTypes DEF S!IInv, S!WellTyped
<1>17. \A v \in Clerks : held'[v] = held[v] \/ held'[v] = S!Idle
  BY <1>12
<1>18. S!Solvent'
  <2>1. CommissionRate <= 100 => has >= 0 /\ client >= 0
    BY <1>1 DEF S!IInv, S!Solvent
  <2>2. CommissionRate <= 100 => richer >= 0 /\ poorer >= 0
    BY <1>3, <1>11, <2>1
  <2>3. QED
    BY <1>13, <1>17, <2>2, SolventStays
<1>19. S!InBalance'
  <2>1. ASSUME ~overwritten'
        PROVE  ~overwritten /\ left = collected' /\ left = S!Credited'
    <3>1. ~overwritten /\ platform = collected /\ platform = S!Credited
      BY <1>1, <1>12, <2>1 DEF S!IInv, S!InBalance
    <3>2. S!Credited' = S!Credited + loss
      BY <1>9, <1>12, CreditsRaised
    <3>3. QED
      BY <1>5, <1>11, <1>12, <3>1, <3>2
  <2>2. QED
    BY <1>13, <1>17, <2>1, BooksStay
<1>20. S!Explained(c)'
  <2>1. PICK x \in Int, y \in Int : x = S!Sum(credits[c]) /\ y = S!Sum(S!Losses(credits[c]))
    BY <1>9
  <2>2. PICK charge \in Nat : charge = deal[c].client_platform_fee
    BY <1>6, AmountTypes DEF S!Deal
  <2>3. PICK f \in Nat : f = IF deal[c].settled THEN S!Commission + S!ServiceFee ELSE 0
    BY AmountTypes
  <2>4. x = 2 * charge + y + f
    <3>1. S!Sum(credits[c]) = 2 * deal[c].client_platform_fee + S!Sum(S!Losses(credits[c]))
                            + (IF deal[c].settled THEN S!Commission + S!ServiceFee ELSE 0)
      BY DEF S!IInv, S!Explained
    <3>2. QED
      BY <2>1, <2>2, <2>3, <3>1
  <2>5. S!Sum(r) = 2 * charge + (y + loss) + f /\ S!Sum(S!Losses(r)) = y + loss
    BY <1>9, <2>1, <2>4
  <2>6. S!Sum(r) = 2 * d.client_platform_fee + S!Sum(S!Losses(r))
                 + (IF d.settled THEN S!Commission + S!ServiceFee ELSE 0)
    BY <1>10, <2>2, <2>3, <2>5
  <2>7. ~d.staged => IF d.settled THEN paid'[c] = <<S!NetAmount>> /\ S!FullyEarned(e)
                                  ELSE paid'[c] = <<>> /\ e = <<>>
    BY <1>7, <1>10, <1>12 DEF S!IInv, S!Explained
  <2>8. d.staged => Len(paid'[c]) > IF d.settled THEN 1 ELSE 0
    BY <1>10, <1>12 DEF S!IInv, S!Explained
  <2>9. d.status = "signed" => d.client_platform_fee = 0
    BY <1>10 DEF S!IInv, S!Explained
  <2>10. QED
    BY <1>14, <1>15, <2>6, <2>7, <2>8, <2>9 DEF S!Explained, S!FullyEarned, S!Losses
<1>21. ASSUME NEW b \in Agreements PROVE S!Explained(b)'
  <2>1. CASE b # c
    BY <1>12, <1>14, <1>15, <2>1, ExplainedStays
  <2>2. QED
    BY <1>20, <2>1
<1>22. QED
  BY <1>12, <1>16, <1>18, <1>19, <1>21 DEF S!IInv, S!Covered

LEMMA SettlementsStart == ASSUME S!Init PROVE S!IInv
<1>1. PICK started \in SUBSET Agreements :
          deal = [c \in Agreements |->
             [status |-> IF c \in started THEN "working" ELSE "signed", escrow |-> 0,
              client_platform_fee |-> 0, staged |-> FALSE,
              funded |-> FALSE, settled |-> FALSE, resolutions |-> 0]]
  BY DEF S!Init
<1>2. deal \in [Agreements -> S!Deal]
  BY <1>1 DEF S!Deal
<1>3. \A c \in Agreements : /\ deal[c].client_platform_fee = 0
                            /\ ~deal[c].staged /\ ~deal[c].settled
  BY <1>1
<1>4. /\ wallet = [client |-> ClientOpening, technician |-> TechnicianOpening, platform |-> 0]
      /\ collected = 0 /\ overwritten = FALSE
      /\ paid = [c \in Agreements |-> <<>>] /\ credits = [c \in Agreements |-> <<>>]
      /\ earnings = [c \in Agreements |-> <<>>] /\ held = [w \in Clerks |-> S!Idle]
  BY DEF S!Init
<1>5. S!Idle \in S!Holding /\ S!Idle.op = "none"
  BY DEF S!Holding, S!Idle
<1>6. /\ wallet \in S!Wallet
      /\ wallet.client \in Nat /\ wallet.technician \in Nat /\ wallet.platform = 0
  BY <1>4, OpeningsAssumption DEF S!Wallet
<1>7. S!WellTyped
  <2>1. <<>> \in Seq(Int) /\ <<>> \in Seq(S!Earning)
    OBVIOUS
  <2>2. /\ paid \in [Agreements -> Seq(Int)] /\ credits \in [Agreements -> Seq(Int)]
        /\ earnings \in [Agreements -> Seq(S!Earning)]
    BY <1>4, <2>1
  <2>3. held \in [Clerks -> S!Holding]
    BY Zenon, <1>4, <1>5
  <2>4. collected \in Int
    BY <1>4
  <2>5. overwritten \in BOOLEAN
    BY Zenon, <1>4
  <2>6. QED
    BY <1>2, <1>6, <2>2, <2>3, <2>4, <2>5 DEF S!WellTyped
<1>8. S!Solvent /\ \A w \in Clerks : S!Covered(held[w])
  BY <1>4, <1>5, <1>6 DEF S!Solvent, S!Covered
<1>9. S!Credited = 0
  <2>1. PICK f : f = [c \in Agreements |-> S!Sum(credits[c])]
    OBVIOUS
  <2>2. f \in [Agreements -> Nat] /\ \A c \in Agreements : f[c] = 0
    BY <1>4, <2>1, EmptyLists
  <2>3. SumFunction(f) = 0
    BY <2>2, AgreementsAssumption, SumType
  <2>4. QED
    BY <2>1, <2>3, ListSum DEF S!Credited
<1>10. S!InBalance
  BY <1>4, <1>5, <1>6, <1>9 DEF S!InBalance
<1>11. ASSUME NEW c \in Agreements PROVE S!Explained(c)
  <2>1. credits[c] = <<>> /\ paid[c] = <<>> /\ earnings[c] = <<>>
    BY <1>4
  <2>2. S!Sum(credits[c]) = 0 /\ S!Sum(S!Losses(credits[c])) = 0
    BY <2>1, EmptyLists
  <2>3. QED
    BY <1>3, <2>1, <2>2 DEF S!Explained
<1>12. QED
  BY <1>7, <1>8, <1>10, <1>11 DEF S!IInv

LEMMA SettlementsStep == ASSUME S!IInv, [S!Next]_(S!vars) PROVE S!IInv'
<1>1. ASSUME NEW w \in Clerks, NEW c \in Agreements,
             S!BeginActivate(w, c) \/ S!BeginFund(w, c) \/ S!BeginApproveStage(w, c)
      PROVE  S!IInv'
  BY <1>1, ReadsKeep
<1>2. ASSUME NEW w \in Clerks,
             S!CommitActivate(w) \/ S!CommitFund(w) \/ S!CommitApproveStage(w) \/ S!Abandon(w)
      PROVE  S!IInv'
  BY <1>2, ActivationsKeep, FundingsKeep, StagePaymentsKeep, ReadsKeep
<1>3. ASSUME NEW c \in Agreements, S!Complete(c) \/ S!Settle(c) PROVE S!IInv'
  BY <1>3, CompletionsKeep, SettlementsKeep
<1>4. ASSUME NEW c \in Agreements, NEW refund \in Refunds, NEW fee \in Reversals,
             S!Resolve(c, refund, fee)
      PROVE  S!IInv'
  BY <1>4, ResolutionsKeep
<1>5. CASE UNCHANGED S!vars
  BY <1>5 DEF S!vars, S!IInv, S!WellTyped, S!Solvent, S!InBalance, S!Covered, S!Explained,
              S!FullyEarned, S!Losses, S!Credited
<1>6. QED
  BY <1>1, <1>2, <1>3, <1>4, <1>5 DEF S!Next

LEMMA NothingReported ==
    ASSUME NEW c \in Agreements
    PROVE  S!Discrepancies(c) = {} <=>
               /\ S!Sum(paid[c]) = S!NetAmount
               /\ S!Sum(S!AmountsOf(earnings[c])) = S!Commission + S!ServiceFee
               /\ S!Sum(credits[c]) = S!Sum(S!AmountsOf(earnings[c]))
               /\ ~S!Twice(earnings[c], "commission") /\ ~S!Twice(earnings[c], "service fee")
               /\ ~(Len(paid[c]) > 1)
<1>1. PICK total, earned, booked, commissions, services, releases :
          /\ total = IF S!Sum(paid[c]) # S!NetAmount THEN {"release total"} ELSE {}
          /\ earned = IF S!Sum(S!AmountsOf(earnings[c])) # S!Commission + S!ServiceFee
                      THEN {"earnings total"} ELSE {}
          /\ booked = IF S!Sum(credits[c]) # S!Sum(S!AmountsOf(earnings[c]))
                        THEN {"platform credit"} ELSE {}
          /\ commissions = IF S!Twice(earnings[c], "commission")
                           THEN {"duplicate commission"} ELSE {}
          /\ services = IF S!Twice(earnings[c], "service fee")
                        THEN {"duplicate service fee"} ELSE {}
          /\ releases = IF Len(paid[c]) > 1 THEN {"duplicate release"} ELSE {}
  OBVIOUS
<1>2. S!Discrepancies(c) =
          total \cup earned \cup booked \cup commissions \cup services \cup releases
  BY <1>1 DEF S!Discrepancies
<1>3. S!Discrepancies(c) = {} <=>
          /\ total = {} /\ earned = {} /\ booked = {}
          /\ commissions = {} /\ services = {} /\ releases = {}
  BY <1>2
<1>4. (total = {} <=> S!Sum(paid[c]) = S!NetAmount)
      /\ (earned = {} <=> S!Sum(S!AmountsOf(earnings[c])) = S!Commission + S!ServiceFee)
      /\ (booked = {} <=> S!Sum(credits[c]) = S!Sum(S!AmountsOf(earnings[c])))
  BY Zenon, <1>1
<1>5. (commissions = {} <=> ~S!Twice(earnings[c], "commission"))
      /\ (services = {} <=> ~S!Twice(earnings[c], "service fee"))
      /\ (releases = {} <=> ~(Len(paid[c]) > 1))
  BY Zenon, <1>1
<1>6. QED
  BY Zenon, <1>3, <1>4, <1>5

\* The lists of a contract that only its settlement has paid.
LEMMA SettledLists ==
    ASSUME NEW c \in Agreements, S!IInv, deal[c].settled, ~deal[c].staged
    PROVE  /\ S!Sum(paid[c]) = S!NetAmount /\ ~(Len(paid[c]) > 1)
           /\ S!Sum(S!AmountsOf(earnings[c])) = S!Commission + S!ServiceFee
           /\ ~S!Twice(earnings[c], "commission") /\ ~S!Twice(earnings[c], "service fee")
<1>1. paid[c] = <<S!NetAmount>> /\ S!FullyEarned(earnings[c])
  BY DEF S!IInv, S!Explained
<1>2. PICK net \in Int, cut \in Int, extra \in Int :
          net = S!NetAmount /\ cut = S!Commission /\ extra = S!ServiceFee
  BY AmountTypes
<1>3. \A n \in Int : S!Sum(<<n>>) = n /\ <<n>> \in Seq(Int)
  <2>1. TAKE n \in Int
  <2>2. Append(<<>>, n) \in Seq(Int) /\ S!Sum(Append(<<>>, n)) = 0 + n
    BY ListAppended, EmptyLists
  <2>3. Append(<<>>, n) = <<n>>
    OBVIOUS
  <2>4. QED
    BY <2>2, <2>3
<1>4. S!Sum(<<net>>) = net
  BY <1>3
<1>5. S!Sum(<<cut, extra>>) = cut + extra
  <2>1. cut \in Nat /\ extra \in Nat
    BY <1>2, AmountTypes
  <2>2. S!Sum(<<>> \o <<cut, extra>>) = 0 + (cut + extra)
    <3>1. <<>> \in Seq(Int) /\ S!Sum(<<>>) = 0
      BY EmptyLists
    <3>2. S!Sum(<<>> \o <<cut, extra>>) = S!Sum(<<>>) + (cut + extra)
      BY Zenon, <2>1, <3>1, TwoCredits
    <3>3. QED
      BY <3>1, <3>2
  <2>3. <<>> \o <<cut, extra>> = <<cut, extra>>
    OBVIOUS
  <2>4. QED
    BY <2>2, <2>3
<1>6. PICK list \in Seq(S!Earning) : list = earnings[c]
  BY DEF S!IInv, S!WellTyped
<1>7. /\ Len(list) = 2
      /\ list[1].type = "commission" /\ list[1].amount = cut
      /\ list[2].type = "service fee" /\ list[2].amount = extra
  BY <1>1, <1>2, <1>6 DEF S!FullyEarned
<1>8. DOMAIN list = 1 .. 2
  <2>1. DOMAIN list = 1 .. Len(list)
    OBVIOUS
  <2>2. QED
    BY <1>7, <2>1
<1>9. S!AmountsOf(list) = <<cut, extra>>
  <2>1. PICK f : f = S!AmountsOf(list)
    OBVIOUS
  <2>2. f = [i \in 1 .. 2 |-> list[i].amount]
    BY <1>8, <2>1 DEF S!AmountsOf
  <2>3. f[1] = cut /\ f[2] = extra
    <3>1. 1 \in 1 .. 2 /\ 2 \in 1 .. 2
      OBVIOUS
    <3>2. QED
      BY <1>7, <2>2, <3>1
  <2>4. \A i \in 1 .. 2 : i = 1 \/ i = 2
    OBVIOUS
  <2>5. \A i \in 1 .. 2 : f[i] \in Int
    BY <2>3, <2>4
  <2>6. f = [i \in 1 .. 2 |-> f[i]]
    BY <2>2
  <2>7. f \in Seq(Int) /\ Len(f) = 2
    BY <2>5, <2>6
  <2>8. f = <<cut, extra>>
    BY <2>3, <2>4, <2>7
  <2>9. QED
    BY <2>1, <2>8
<1>10. ~S!Twice(list, "commission") /\ ~S!Twice(list, "service fee")
  <2>1. \A i, j \in 1 .. 2 : i # j => (i = 1 /\ j = 2) \/ (i = 2 /\ j = 1)
    OBVIOUS
  <2>2. "commission" # "service fee"
    OBVIOUS
  <2>3. QED
    BY <1>7, <1>8, <2>1, <2>2 DEF S!Twice
<1>11. ~(Len(<<net>>) > 1)
  OBVIOUS
<1>12. QED
  BY <1>1, <1>2, <1>4, <1>5, <1>6, <1>9, <1>10, <1>11

LEMMA BooksFollow == ASSUME S!IInv, CommissionRate <= 100 PROVE S!PlatformBooksAgree
<1>1. S!TypeOK
  <2>1. wallet \in S!Wallet /\ wallet.client >= 0 /\ wallet.technician >= 0
    BY DEF S!IInv, S!WellTyped, S!Solvent
  <2>2. wallet \in [client : Nat, technician : Nat, platform : Nat]
    <3>1. wallet = [client |-> wallet.client, technician |-> wallet.technician,
                    platform |-> wallet.platform]
      BY <2>1 DEF S!Wallet
    <3>2. wallet.client \in Nat /\ wallet.technician \in Nat /\ wallet.platform \in Nat
      BY <2>1 DEF S!Wallet
    <3>3. QED
      BY <3>1, <3>2
  <2>3. ASSUME NEW c \in Agreements
        PROVE  /\ deal[c].status \in {"signed", "working", "completed"}
               /\ deal[c].escrow \in {0, Agreed}
    <3>1. deal[c] \in S!Deal
      BY DEF S!IInv, S!WellTyped
    <3>2. QED
      BY <3>1 DEF S!Deal
  <2>4. QED
    BY <2>2, <2>3 DEF S!TypeOK
<1>2. QED
  BY <1>1 DEF S!PlatformBooksAgree, S!IInv, S!InBalance

LEMMA ReportsFollow == ASSUME S!IInv PROVE S!ReconciliationIsExplained
<1>1. ASSUME NEW c \in Agreements, deal[c].settled, deal[c].staged
      PROVE  S!Discrepancies(c) # {}
  <2>1. Len(paid[c]) > 1
    BY <1>1 DEF S!IInv, S!Explained
  <2>2. QED
    BY <2>1, NothingReported
<1>2. ASSUME NEW c \in Agreements, deal[c].settled, ~deal[c].staged
      PROVE  S!Discrepancies(c) = {} <=>
                 S!Sum(S!Losses(credits[c])) = -2 * deal[c].client_platform_fee
  <2>1. S!Discrepancies(c) = {} <=> S!Sum(credits[c]) = S!Commission + S!ServiceFee
    <3>1. /\ S!Sum(paid[c]) = S!NetAmount /\ ~(Len(paid[c]) > 1)
          /\ S!Sum(S!AmountsOf(earnings[c])) = S!Commission + S!ServiceFee
          /\ ~S!Twice(earnings[c], "commission") /\ ~S!Twice(earnings[c], "service fee")
      BY <1>2, SettledLists
    <3>2. QED
      BY <3>1, NothingReported
  <2>2. credits[c] \in Seq(Int) /\ deal[c] \in S!Deal
    BY DEF S!IInv, S!WellTyped
  <2>3. PICK x \in Int, y \in Int : x = S!Sum(credits[c]) /\ y = S!Sum(S!Losses(credits[c]))
    <3>1. 0 \in Int
      OBVIOUS
    <3>2. S!Sum(credits[c]) \in Int /\ S!Sum(S!Losses(credits[c])) \in Int
      BY <2>2, <3>1, ListAppended
    <3>3. QED
      BY <3>2
  <2>4. PICK charge \in Nat, fees \in Nat :
            charge = deal[c].client_platform_fee /\ fees = S!Commission + S!ServiceFee
    BY <2>2, AmountTypes DEF S!Deal
  <2>5. x = 2 * charge + y + fees
    BY <1>2, <2>3, <2>4 DEF S!IInv, S!Explained
  <2>6. x = fees <=> y = -2 * charge
    BY <2>5
  <2>7. QED
    BY <2>1, <2>3, <2>4, <2>6
<1>3. QED
  BY <1>1, <1>2 DEF S!ReconciliationIsExplained

-----------------------------------------------------------------------------
\* The amounts do not move while a wallet's withdrawals are exercised.
LEMMA SettlementsInvariance == WalletsSpec => []S!IInv
<1>1. WalletsInit => S!IInv
  BY SettlementsStart DEF WalletsInit
<1>2. S!IInv /\ [WalletsNext]_<<part, vars, settlementVars>> => S!IInv'
  <2>1. [WalletsNext]_<<part, vars, settlementVars>> => [S!Next]_(S!vars)
    BY DEF WalletsNext, settlementVars, S!vars
  <2>2. QED
    BY <2>1, SettlementsStep
<1>3. QED
  BY <1>1, <1>2, PTL DEF WalletsSpec

\* With a commission of no more than the amount, no settlement, stage payment or
\* resolution leaves a balance negative, and the platform's balance, its counter and the
\* sum of its transactions agree unless an activation overwrote one of them
\* (settle_completed_contract, _execute_refund, _setup_contract_escrow).  The rate is a
\* hypothesis: PlatformFeeConfig tests only its sign.
THEOREM PlatformBooks ==
    ASSUME CommissionRate <= 100 PROVE WalletsSpec => []PlatformBooksAgree
<1>1. S!IInv => PlatformBooksAgree
  BY BooksFollow DEF PlatformBooksAgree
<1>2. QED
  BY <1>1, SettlementsInvariance, PTL

\* Whatever the rates, the order of the steps and the requests that overwrite one
\* another, the report of a settled contract is empty exactly when no stage approval paid
\* it too and the reversals took what its activation had brought (reconcile_contract).
THEOREM ReportsExplained == WalletsSpec => []ReconciliationIsExplained
<1>1. S!IInv => ReconciliationIsExplained
  BY ReportsFollow DEF ReconciliationIsExplained
<1>2. QED
  BY <1>1, SettlementsInvariance, PTL
=============================================================================
