------------------------ MODULE ContractEscrowProofs ------------------------
(***************************************************************************)
(* Proofs about ContractEscrow, and about the disputes over its contract,  *)
(* for any number of requests, intents, stages, completion requests and    *)
(* disputes, and for amounts of any sign.                                  *)
(* At the end, proofs about the desk where its disputes are decided.       *)
(***************************************************************************)
EXTENDS MCDisputeDesk, Sequences, FiniteSets, FiniteSetTheorems, TLAPS

\* Counting one more transaction of a row leaves counters of every row.
LEMMA CountType ==
    ASSUME NEW S, NEW f \in [S -> Nat], NEW r
    PROVE  [f EXCEPT ![r] = @ + 1] \in [S -> Nat]
<1> DEFINE g == [f EXCEPT ![r] = @ + 1]
<1>1. CASE r \in S
  <2>1. \A x \in S : g[x] = IF x = r THEN f[r] + 1 ELSE f[x]
    BY <1>1
  <2> QED
    BY <1>1, <2>1
<1>2. CASE r \notin S
  <2>1. g = [x \in S |-> f[x]]
    BY <1>2
  <2> QED
    BY <2>1
<1> QED
  BY <1>1, <1>2

\* What an escrow can hold: nothing, an amount, or what is left of one.
LEMMA EscrowValues ==
    /\ Agreements \subseteq Int /\ Escrows \subseteq Int
    /\ NoAmount \in Agreements /\ Agreements \subseteq Escrows /\ 0 \in Escrows
BY AmountsAssumption DEF Agreements, Escrows, NoAmount

LEMMA EscrowLeft ==
    ASSUME NEW e \in Escrows, NEW r \in Int, 0 <= r, r <= e
    PROVE  e - r \in Escrows
<1>1. e \in Int /\ e - r \in Int /\ 0 <= e - r /\ e - r <= e
  BY EscrowValues
<1>2. CASE e - r = 0
  BY <1>2, EscrowValues
<1>3. CASE e - r # 0
  <2>1. PICK a \in Amounts : e = a \/ (0 < e /\ e < a)
    BY <1>1, <1>3 DEF Escrows
  <2>2. a \in Int
    BY AmountsAssumption
  <2>3. e - r = a \/ (0 < e - r /\ e - r < a)
    BY <1>1, <1>3, <2>1, <2>2
  <2> QED
    BY <1>1, <2>3 DEF Escrows
<1> QED
  BY <1>2, <1>3

\* Every endpoint that works on a fetched row begins by fetching it.
LEMMA BeginFetches ==
    ASSUME NEW w \in Workers, Begin(w)
    PROVE  \E op \in Ops, r \in Rows : Fetch(w, op, r)
BY DEF Begin, BeginPropose, BeginAccept, BeginSign, BeginFinalize,
       BeginCreateIntent, BeginConfirm, BeginMarkPaid, BeginActivate,
       BeginRequestCompletion, BeginConfirmCompletion, BeginRejectCompletion,
       BeginCancel, BeginApproveStage, Ops, Rows

\* A fetch stores a well-formed request.
LEMMA FetchType ==
    ASSUME TypeOK, NEW w \in Workers, NEW op \in Ops, NEW r \in Rows,
           Fetch(w, op, r)
    PROVE  TypeOK'
<1> DEFINE fetched == [op |-> op, row |-> r,
                       escrow |-> IF op \in UsesEscrow THEN escrow ELSE 0,
                       agreed |-> IF op \in UsesAgreed THEN agreed ELSE NoAmount]
<1>1. fetched \in Request
  BY EscrowValues DEF TypeOK, Request
<1>2. req' \in [Workers -> Request]
  BY <1>1 DEF TypeOK, Fetch
<1> QED
  BY <1>2
  DEF TypeOK, Fetch, contractVars, rowVars, ledgerVars, fundingVars, stageVars,
      payoutVars

\* The end of a request leaves every worker with a well-formed request.
LEMMA FinishType ==
    ASSUME TypeOK, NEW w \in Workers, Finish(w)
    PROVE  req' \in [Workers -> Request]
<1>1. Idle \in Request
  BY EscrowValues DEF Idle, Request, Rows
<1> QED
  BY <1>1 DEF TypeOK, Finish

\* What a request in flight holds of its fetched row.
LEMMA Held ==
    ASSUME TypeOK, NEW w \in Workers
    PROVE  /\ req[w].escrow \in Escrows /\ req[w].escrow \in Int
           /\ req[w].agreed \in Agreements /\ req[w].agreed \in Int
BY EscrowValues DEF TypeOK, Request

\* The save of a whole row keeps the types.
LEMMA SaveRowType ==
    ASSUME TypeOK, NEW w \in Workers, NEW s \in ContractStatus,
           NEW a \in Agreements, SaveRow(w, s, a), staged' \in BOOLEAN
    PROVE  TypeOK'
<1>1. /\ req[w].escrow \in Escrows /\ req[w].escrow \in Int
      /\ escrow \in Int
  BY Held, EscrowValues DEF TypeOK
<1>2. lost' \in Nat /\ restored' \in Nat
  BY <1>1 DEF TypeOK, SaveRow, Positive
<1>3. req' \in [Workers -> Request]
  BY FinishType DEF SaveRow
<1> QED
  BY <1>1, <1>2, <1>3 DEF TypeOK, SaveRow, fundingVars, stageVars, payoutVars

\* Every step keeps the type invariant, one step per action.
LEMMA TypeStep ==
    ASSUME TypeOK, [Next]_vars
    PROVE  TypeOK'
<1> USE DEF contractVars, rowVars, ledgerVars, fundingVars, stageVars, payoutVars
<1>1. CASE UNCHANGED vars
  BY <1>1 DEF TypeOK, vars
<1>2. ASSUME NEW w \in Workers, Begin(w) PROVE TypeOK'
  <2>1. PICK op \in Ops, r \in Rows : Fetch(w, op, r)
    BY <1>2, BeginFetches
  <2> QED
    BY <2>1, FetchType
<1>3. ASSUME NEW w \in Workers, Commit(w) PROVE TypeOK'
  <2> req' \in [Workers -> Request]
    BY <1>3, FinishType
    DEF Commit, CommitPropose, CommitAccept, CommitSign, SaveRow,
        CommitFinalize, CommitCreateIntent, CommitConfirm, CommitMarkPaid,
        CommitActivate, CommitRequestCompletion, CommitConfirmCompletion,
        CommitRejectCompletion, CommitCancel, CommitApproveStage
  <2> /\ req[w].escrow \in Escrows /\ req[w].escrow \in Int
      /\ req[w].agreed \in Agreements /\ req[w].agreed \in Int
      /\ escrow \in Int
    BY Held, EscrowValues DEF TypeOK
  <2>1. CASE CommitPropose(w)
    <3>1. PICK a \in Agreements :
            /\ SaveRow(w, "draft", a) \/ SaveRow(w, "pending_acceptance", a)
            /\ staged' = (staged \/ a # NoAmount)
      BY <2>1 DEF CommitPropose
    <3>2. staged' \in BOOLEAN
      BY <3>1 DEF TypeOK
    <3>3. "draft" \in ContractStatus /\ "pending_acceptance" \in ContractStatus
      BY DEF ContractStatus
    <3> QED
      BY <3>1, <3>2, <3>3, SaveRowType
  <2>2. CASE CommitAccept(w)
    <3>1. PICK s \in {"pending_acceptance", "pending_signatures"} :
            SaveRow(w, s, req[w].agreed)
      BY <2>2 DEF CommitAccept
    <3>2. staged' \in BOOLEAN /\ s \in ContractStatus
      BY <2>2 DEF CommitAccept, TypeOK, ContractStatus
    <3> QED
      BY <3>1, <3>2, SaveRowType
  <2>3. CASE CommitSign(w)
    BY <2>3 DEF CommitSign, TypeOK, ContractStatus
  <2>4. CASE CommitFinalize(w)
    <3>1. /\ Charged(w) \in Int /\ Positive(Charged(w)) \in Nat
          /\ req[w].escrow + Charged(w) \in Escrows
      BY EscrowValues DEF Charged, Positive
    <3>2. intent' \in [Intents -> IntentStatus]
      BY <2>4 DEF CommitFinalize, TypeOK, IntentStatus
    <3> QED
      BY <2>4, <3>1, <3>2 DEF CommitFinalize, TypeOK, ContractStatus
  <2>5. CASE CommitCreateIntent(w)
    BY <2>5 DEF CommitCreateIntent, TypeOK, IntentStatus
  <2>6. CASE CommitConfirm(w)
    <3>1. PICK r : /\ intent' = [intent EXCEPT ![r] = "paid"]
                   /\ deposits' = [deposits EXCEPT ![r] = @ + 1]
      BY <2>6 DEF CommitConfirm
    <3>2. intent' \in [Intents -> IntentStatus]
      BY <3>1 DEF TypeOK, IntentStatus
    <3>3. deposits' \in [Intents -> Nat]
      BY <3>1, CountType DEF TypeOK
    <3>4. escrow' \in Escrows /\ booked' \in Nat /\ lost' \in Nat
      BY <2>6, EscrowValues DEF CommitConfirm, Positive, TypeOK
    <3> QED
      BY <2>6, <3>2, <3>3, <3>4 DEF CommitConfirm, TypeOK
  <2>7. CASE CommitMarkPaid(w)
    <3>1. PICK r : /\ intent' = [intent EXCEPT ![r] = "paid"]
                   /\ deposits' = [deposits EXCEPT ![r] = @ + 1]
      BY <2>7 DEF CommitMarkPaid
    <3>2. intent' \in [Intents -> IntentStatus]
      BY <3>1 DEF TypeOK, IntentStatus
    <3>3. deposits' \in [Intents -> Nat]
      BY <3>1, CountType DEF TypeOK
    <3> QED
      BY <2>7, <3>2, <3>3 DEF CommitMarkPaid, TypeOK
  <2>8. CASE CommitActivate(w)
    BY <2>8 DEF CommitActivate, TypeOK, ContractStatus
  <2>9. CASE CommitRequestCompletion(w)
    BY <2>9
    DEF CommitRequestCompletion, TypeOK, ContractStatus, CompletionStatus
  <2>10. CASE CommitConfirmCompletion(w)
    BY <2>10
    DEF CommitConfirmCompletion, TypeOK, ContractStatus, CompletionStatus
  <2>11. CASE CommitRejectCompletion(w)
    BY <2>11
    DEF CommitRejectCompletion, TypeOK, ContractStatus, CompletionStatus
  <2>12. CASE CommitCancel(w)
    <3>1. refunded' \in Int /\ escrow' \in Escrows
      BY <2>12, EscrowValues
      DEF CommitCancel, EscrowAfterCancel, Positive, TypeOK
    <3> QED
      BY <2>12, <3>1 DEF CommitCancel, TypeOK, ContractStatus
  <2>13. CASE CommitApproveStage(w)
    <3>1. PICK r : releases' = [releases EXCEPT ![r] = @ + 1]
      BY <2>13 DEF CommitApproveStage
    <3>2. releases' \in [Stages -> Nat]
      BY <3>1, CountType DEF TypeOK
    <3> QED
      BY <2>13, <3>2 DEF CommitApproveStage, TypeOK, ContractStatus
  <2> QED
    BY <1>3, <2>1, <2>2, <2>3, <2>4, <2>5, <2>6, <2>7, <2>8, <2>9, <2>10,
       <2>11, <2>12, <2>13
    DEF Commit
<1>4. ASSUME NEW w \in Workers, Rollback(w) PROVE TypeOK'
  BY <1>4, FinishType DEF Rollback, TypeOK
<1>5. ASSUME NEW i \in Intents, DeclinePayment(i) PROVE TypeOK'
  BY <1>5 DEF DeclinePayment, TypeOK, IntentStatus
<1>6. ASSUME NEW s \in Stages, SubmitStage(s) PROVE TypeOK'
  BY <1>6 DEF SubmitStage, TypeOK
<1>7. CASE Settle
  <2>1. released' \in Nat /\ settlements' \in Nat /\ 0 \in Escrows
    BY <1>7, EscrowValues DEF Settle, SettlementEligible, TypeOK
  <2> QED
    BY <1>7, <2>1 DEF Settle, TypeOK
<1> QED
  BY <1>1, <1>2, <1>3, <1>4, <1>5, <1>6, <1>7 DEF Next

LEMMA TypeInit == Init => TypeOK
<1> SUFFICES ASSUME Init PROVE TypeOK
  OBVIOUS
<1>1. Idle \in Request
  BY EscrowValues DEF Idle, Request, Rows
<1>2. req \in [Workers -> Request]
  BY <1>1 DEF Init
<1>3. agreed \in Agreements /\ escrow \in Escrows
  BY EscrowValues DEF Init, Agreements
<1>4. status \in ContractStatus /\ staged \in BOOLEAN
  BY StartAssumption DEF Init, ContractStatus
<1>5. /\ intent \in [Intents -> IntentStatus]
      /\ deposits \in [Intents -> Nat]
      /\ completion \in [Completions -> CompletionStatus]
      /\ releases \in [Stages -> Nat]
  BY DEF Init, IntentStatus, CompletionStatus
<1>6. /\ {charges, booked, lost, restored, settlements, released} \subseteq Nat
      /\ {principal, refunded} \subseteq Int
      /\ submitted \subseteq Stages
  BY DEF Init
<1>7. signed \in BOOLEAN
  BY DEF Init
<1> QED
  BY <1>2, <1>3, <1>4, <1>5, <1>6, <1>7 DEF TypeOK

\* The type invariant holds whatever the contract starts from
\* (all endpoints of the module).
THEOREM TypeCorrect == Spec => []TypeOK
<1>1. TypeOK /\ [Next]_vars => TypeOK'
  BY TypeStep
<1> QED
  BY TypeInit, <1>1, PTL DEF Spec

-----------------------------------------------------------------------------
(***************************************************************************)
(* A contract that starts as a draft.                                      *)
(***************************************************************************)

\* What an endpoint that begins, or is rolled back, leaves alone.
LEMMA RequestsOnly ==
    ASSUME NEW w \in Workers, Begin(w) \/ Rollback(w)
    PROVE  UNCHANGED <<contractVars, fundingVars, completion, stageVars,
                       payoutVars, refunded>>
BY BeginFetches DEF Fetch, Rollback

\* The transactions that leave the intents and the payouts alone.
OtherCommit(w) ==
    \/ CommitPropose(w) \/ CommitAccept(w) \/ CommitSign(w)
    \/ CommitActivate(w) \/ CommitRequestCompletion(w)
    \/ CommitConfirmCompletion(w) \/ CommitRejectCompletion(w)
    \/ CommitCancel(w) \/ CommitApproveStage(w)

LEMMA OtherCommits ==
    ASSUME NEW w \in Workers, OtherCommit(w)
    PROVE  UNCHANGED <<charges, principal, booked, fundingVars, payoutVars>>
BY DEF OtherCommit, CommitPropose, CommitAccept, SaveRow, CommitSign,
       CommitActivate, CommitRequestCompletion, CommitConfirmCompletion,
       CommitRejectCompletion, CommitCancel, CommitApproveStage, ledgerVars,
       fundingVars, payoutVars

\* A payment intent that exists stays, and one that is paid stays paid.
LEMMA IntentsGrow ==
    ASSUME IInv, [Next]_vars
    PROVE  /\ Funded => Funded'
           /\ ~NoIntent => ~NoIntent'
<1> USE DEF contractVars, fundingVars, stageVars, payoutVars
<1> TypeOK
  BY DEF IInv
<1>1. CASE UNCHANGED intent
  BY <1>1 DEF Funded, NoIntent
<1>2. ASSUME NEW i \in Intents, NEW v \in {"pending", "paid", "failed"},
             intent' = [intent EXCEPT ![i] = v], intent[i] # "paid" \/ v = "paid"
      PROVE  (Funded => Funded') /\ ~NoIntent'
  BY <1>2 DEF TypeOK, Funded, NoIntent
<1>3. \/ UNCHANGED intent
      \/ \E i \in Intents, v \in {"pending", "paid", "failed"} :
            /\ intent' = [intent EXCEPT ![i] = v]
            /\ intent[i] # "paid" \/ v = "paid"
  <2>1. CASE \E w \in Workers : CommitMarkPaid(w)
    BY <2>1 DEF IInv, OneIntent, CommitMarkPaid
  <2>2. CASE \E w \in Workers : CommitFinalize(w)
    BY <2>2 DEF CommitFinalize, NoIntent
  <2>3. CASE \E w \in Workers : CommitCreateIntent(w)
    BY <2>3 DEF CommitCreateIntent
  <2>4. CASE \E w \in Workers : CommitConfirm(w)
    BY <2>4 DEF IInv, LockHolds, CommitConfirm
  <2>5. CASE \E i \in Intents : DeclinePayment(i)
    BY <2>5 DEF DeclinePayment, Confirmable
  <2>6. CASE \E w \in Workers : Begin(w) \/ Rollback(w)
    BY <2>6, RequestsOnly
  <2>7. CASE \E w \in Workers : OtherCommit(w)
    BY <2>7, OtherCommits
  <2>8. CASE (\E s \in Stages : SubmitStage(s)) \/ Settle \/ UNCHANGED vars
    BY <2>8 DEF SubmitStage, Settle, vars
  <2> QED
    BY <2>1, <2>2, <2>3, <2>4, <2>5, <2>6, <2>7, <2>8
    DEF Next, Commit, OtherCommit
<1> QED
  BY <1>1, <1>2, <1>3

\* A proposal or an acceptance that rewrites the row accounts for what it takes
\* out of the escrow, and for what it puts back.
LEMMA Rewritten ==
    ASSUME TypeOK, NEW w \in Workers, NEW s, NEW a, SaveRow(w, s, a)
    PROVE  /\ escrow <= restored => escrow' <= restored'
           /\ escrow + refunded + lost >= principal
                  => escrow' + refunded' + lost' >= principal'
           /\ lost' - Positive(-escrow') >= lost - Positive(-escrow)
           /\ lost' \in Nat /\ restored' \in Nat
           /\ escrow \in Int /\ escrow' \in Int
           /\ Positive(-escrow) \in Int /\ Positive(-escrow') \in Int
BY Held, EscrowValues DEF TypeOK, SaveRow, Positive

\* Every step of a contract that was a draft keeps the inductive invariant.
LEMMA InvStep ==
    ASSUME IInv, [Next]_vars
    PROVE  IInv'
<1> USE DEF contractVars, rowVars, ledgerVars, fundingVars, stageVars,
            payoutVars, IInv, TypeOK, Request, Idle, Funded, NoIntent,
            ChargedOnce, SettledOnce, SettledEscrowStaysEmpty, SettledIsFunded,
            WorkIsFunded, NoLostPrincipal, NothingBeforeCharge, OneIntent,
            LockHolds, Confirmable, CompletionIsFunded, CancelCoversPrincipal
<1> USE EscrowValues
<1> /\ TypeOK'
    /\ Funded => Funded'
    /\ ~NoIntent => ~NoIntent'
  BY TypeStep, IntentsGrow
\* No request is opened before the charge except those that cannot depend on it.
<1>1. ASSUME NEW w \in Workers,
             \/ BeginPropose(w) \/ BeginAccept(w) \/ BeginSign(w)
             \/ BeginFinalize(w)
      PROVE  IInv'
  <2>1. PICK op \in {"propose", "accept", "sign", "finalize"} :
          Fetch(w, op, NoRow)
    BY <1>1 DEF BeginPropose, BeginAccept, BeginSign, BeginFinalize
  <2>2. /\ req'[w].op = op /\ req'[w].escrow \in {0, escrow}
        /\ \A v \in Workers \ {w} : req'[v] = req[v]
        /\ UNCHANGED <<contractVars, fundingVars, completion, payoutVars,
                       refunded>>
    BY <2>1 DEF Fetch
  <2>3. NothingBeforeCharge' /\ CancelCoversPrincipal'
    BY <2>2
  <2>4. OneIntent'
    BY <2>2
  <2>5. LockHolds'
    BY <2>2
  <2>6. CompletionIsFunded'
    BY <2>2
  <2> QED
    BY <2>2, <2>3, <2>4, <2>5, <2>6
\* An intent exists as soon as the contract is in progress.
<1>2. ASSUME NEW w \in Workers, BeginCreateIntent(w) PROVE IInv'
  BY <1>2 DEF BeginCreateIntent, MayInsertIntent
<1>3. ASSUME NEW w \in Workers, NEW i \in Intents, BeginMarkPaid(w, i)
      PROVE  IInv'
  BY <1>3 DEF BeginMarkPaid, Fetch
\* Only one request confirms an intent at a time.
<1>4. ASSUME NEW w \in Workers, NEW i \in Intents, BeginConfirm(w, i)
      PROVE  IInv'
  BY <1>4 DEF BeginConfirm, Locked, Fetch
<1>5. ASSUME NEW w \in Workers, BeginActivate(w) PROVE IInv'
  BY <1>5 DEF BeginActivate, Fetch
<1>6. ASSUME NEW w \in Workers, BeginRequestCompletion(w) PROVE IInv'
  BY <1>6 DEF BeginRequestCompletion, Fetch
<1>7. ASSUME NEW w \in Workers, NEW c \in Completions,
             BeginConfirmCompletion(w, c) \/ BeginRejectCompletion(w, c)
      PROVE  IInv'
  <2>1. CASE BeginConfirmCompletion(w, c)
    BY <2>1 DEF BeginConfirmCompletion, FirstPending, Fetch
  <2>2. CASE BeginRejectCompletion(w, c)
    BY <2>2 DEF BeginRejectCompletion, FirstPending, Fetch
  <2> QED
    BY <1>7, <2>1, <2>2
\* The escrow a cancellation reads covers the principal when it reads it.
<1>8. ASSUME NEW w \in Workers, BeginCancel(w) PROVE IInv'
  BY <1>8 DEF BeginCancel, Fetch, UsesEscrow, Positive
<1>9. ASSUME NEW w \in Workers, NEW s \in Stages, BeginApproveStage(w, s)
      PROVE  IInv'
  BY <1>9 DEF BeginApproveStage, Fetch
\* Rows saved whole: nothing leaves the escrow unnoticed.
<1>10. ASSUME NEW w \in Workers, CommitPropose(w) \/ CommitAccept(w)
       PROVE  IInv'
  <2>1. PICK s, a : /\ s \in {"draft", "pending_acceptance", "pending_signatures"}
                    /\ SaveRow(w, s, a)
    BY <1>10 DEF CommitPropose, CommitAccept
  <2>2. /\ escrow <= restored => escrow' <= restored'
        /\ escrow + refunded + lost >= principal
               => escrow' + refunded' + lost' >= principal'
        /\ lost' - Positive(-escrow') >= lost - Positive(-escrow)
        /\ lost' \in Nat /\ restored' \in Nat
        /\ escrow \in Int /\ escrow' \in Int
        /\ Positive(-escrow) \in Int /\ Positive(-escrow') \in Int
        /\ UNCHANGED <<charges, principal, intent, settlements, refunded,
                       completion>>
    BY <2>1, Rewritten DEF SaveRow
  <2>3. SettledEscrowStaysEmpty' /\ NoLostPrincipal'
    <3>1. /\ charges' > 0 => charges > 0
          /\ settlements' > 0 => settlements > 0
          /\ settlements' = 0 => settlements = 0
      BY <2>2
    <3> QED
      BY <2>2, <3>1
  <2>4. CancelCoversPrincipal'
    <3> SUFFICES ASSUME charges > 0, settlements = 0, NEW v \in Workers,
                        req'[v].op = "cancel", req'[v].escrow > 0
                 PROVE  req'[v].escrow + refunded' + lost' - Positive(-escrow')
                            >= principal'
      BY <2>2
    <3>1. req'[v] = req[v]
      BY <2>1 DEF SaveRow, Finish
    <3>2. req[v].escrow + refunded + lost - Positive(-escrow) >= principal
      BY <3>1
    <3>3. {req[v].escrow, refunded, lost, principal} \subseteq Int
      BY Held
    <3> QED
      BY <2>2, <3>1, <3>2, <3>3
  <2>5. NothingBeforeCharge'
    BY <2>1 DEF SaveRow, Finish
  <2>6. OneIntent' /\ LockHolds' /\ CompletionIsFunded'
    BY <2>1 DEF SaveRow, Finish
  <2> QED
    BY <2>1, <2>2, <2>3, <2>4, <2>5, <2>6 DEF SaveRow
<1>11. ASSUME NEW w \in Workers, CommitSign(w) PROVE IInv'
  BY <1>11 DEF CommitSign, Finish
\* Cancellations in flight at the charge have read an escrow of zero.
<1>12. ASSUME NEW w \in Workers, CommitFinalize(w) PROVE IInv'
  <2>1. /\ charges = 0 /\ charges' = 1 /\ escrow' = principal'
        /\ NoIntent /\ ~Funded /\ settlements' = 0 /\ refunded' = 0
    BY <1>12 DEF CommitFinalize, AttestationFree
  <2>2. \A v \in Workers : req'[v].escrow = 0 /\ req'[v].op # "create_intent"
    BY <1>12, <2>1 DEF CommitFinalize, Finish
  <2>3. PICK i \in Intents : intent' = [intent EXCEPT ![i] = "pending"]
    BY <1>12, <2>1 DEF CommitFinalize
  <2>4. NoLostPrincipal' /\ CancelCoversPrincipal' /\ NothingBeforeCharge'
    BY <1>12, <2>1, <2>2 DEF CommitFinalize
  <2>5. OneIntent' /\ LockHolds'
    BY <1>12, <2>1, <2>2, <2>3 DEF CommitFinalize, Finish
  <2> QED
    BY <1>12, <2>1, <2>4, <2>5 DEF CommitFinalize, Finish
<1>13. ASSUME NEW w \in Workers, CommitCreateIntent(w) PROVE IInv'
  BY <1>13 DEF CommitCreateIntent
\* The only intent of a settled contract is paid: it cannot be confirmed again.
<1>14. ASSUME NEW w \in Workers, CommitConfirm(w) PROVE IInv'
  <2>1. /\ req[w].row \in Intents
        /\ intent[req[w].row] \in {"pending", "failed"}
        /\ escrow' = req[w].agreed
        /\ lost' = lost + Positive(escrow - req[w].agreed)
        /\ UNCHANGED <<charges, principal, restored, refunded, settlements>>
    BY <1>14 DEF CommitConfirm
  <2>2. ~Funded /\ charges > 0 /\ settlements = 0 /\ Funded'
    BY <1>14, <2>1 DEF CommitConfirm
  <2>3. NoLostPrincipal'
    BY <2>1, Held DEF Positive
  <2>4. CancelCoversPrincipal'
    BY <1>14, <2>1, <2>2, Held DEF CommitConfirm, Finish, Positive
  <2>5. OneIntent'
    BY <1>14, <2>1 DEF CommitConfirm, Finish
  <2>6. LockHolds'
    BY <1>14, <2>1 DEF CommitConfirm, Finish
  <2> QED
    BY <1>14, <2>1, <2>2, <2>3, <2>4, <2>5, <2>6 DEF CommitConfirm, Finish
<1>15. ASSUME NEW w \in Workers, CommitMarkPaid(w) PROVE IInv'
  BY <1>15 DEF CommitMarkPaid, Locked, Finish
<1>16. ASSUME NEW w \in Workers, CommitActivate(w) PROVE IInv'
  BY <1>16 DEF CommitActivate, FundedForActivation, Finish
<1>17. ASSUME NEW w \in Workers, CommitRequestCompletion(w) PROVE IInv'
  BY <1>17 DEF CommitRequestCompletion, Finish
<1>18. ASSUME NEW w \in Workers,
              CommitConfirmCompletion(w) \/ CommitRejectCompletion(w)
       PROVE  IInv'
  <2>1. CASE CommitConfirmCompletion(w)
    BY <2>1 DEF CommitConfirmCompletion, Finish
  <2>2. CASE CommitRejectCompletion(w)
    BY <2>2 DEF CommitRejectCompletion, Finish
  <2> QED
    BY <1>18, <2>1, <2>2
\* What leaves the escrow is refunded, or was by the request that emptied it.
<1>19. ASSUME NEW w \in Workers, CommitCancel(w) PROVE IInv'
  <2>1. /\ refunded' = refunded + Positive(req[w].escrow)
        /\ escrow' = IF req[w].escrow > 0 THEN 0 ELSE escrow
        /\ UNCHANGED <<charges, principal, lost, restored, settlements>>
    BY <1>19 DEF CommitCancel, EscrowAfterCancel
  <2>2. NoLostPrincipal'
    BY <1>19, <2>1, Held DEF CommitCancel, Positive
  <2>3. CancelCoversPrincipal'
    BY <1>19, <2>1, Held DEF CommitCancel, Finish, Positive
  <2>4. SettledEscrowStaysEmpty' /\ NothingBeforeCharge'
    BY <1>19, <2>1, Held DEF CommitCancel, Finish, Positive
  <2>5. OneIntent' /\ LockHolds' /\ CompletionIsFunded'
    BY <1>19 DEF CommitCancel, Finish
  <2> QED
    BY <1>19, <2>1, <2>2, <2>3, <2>4, <2>5 DEF CommitCancel
<1>20. ASSUME NEW w \in Workers, CommitApproveStage(w) PROVE IInv'
  BY <1>20 DEF CommitApproveStage, Finish
<1>21. ASSUME NEW w \in Workers, Rollback(w) PROVE IInv'
  BY <1>21 DEF Rollback, Finish
<1>22. ASSUME NEW i \in Intents, DeclinePayment(i) PROVE IInv'
  BY <1>22 DEF DeclinePayment, Locked
<1>23. ASSUME NEW s \in Stages, SubmitStage(s) PROVE IInv'
  BY <1>23 DEF SubmitStage
<1>24. CASE Settle
  BY <1>24
  DEF Settle, SettlementEligible, NotSettled, FundedForSettlement
<1>25. CASE UNCHANGED vars
  BY <1>25 DEF vars
<1> QED
  BY <1>1, <1>2, <1>3, <1>4, <1>5, <1>6, <1>7, <1>8, <1>9, <1>10, <1>11,
     <1>12, <1>13, <1>14, <1>15, <1>16, <1>17, <1>18, <1>19, <1>20, <1>21,
     <1>22, <1>23, <1>24, <1>25
  DEF Next, Begin, Commit

\* A draft satisfies the invariant.
LEMMA InvInit ==
    ASSUME StartStatus = "draft", Init
    PROVE  IInv
<1>1. TypeOK
  BY TypeInit
<1> QED
  BY <1>1
  DEF Init, IInv, Idle, Funded, NoIntent, ChargedOnce, SettledOnce,
      SettledEscrowStaysEmpty, SettledIsFunded, WorkIsFunded, NoLostPrincipal,
      NothingBeforeCharge, OneIntent, LockHolds, CompletionIsFunded,
      CancelCoversPrincipal

\* The inductive invariant holds throughout the life of such a contract.
LEMMA Invariance ==
    ASSUME StartStatus = "draft"
    PROVE  Spec => []IInv
<1>1. Init => IInv
  BY InvInit
<1>2. IInv /\ [Next]_vars => IInv'
  BY InvStep
<1> QED
  BY <1>1, <1>2, PTL DEF Spec

\* However many finalizations race, both parties are charged once
\* (finalize_signed_contract).
THEOREM ActivationChargedOnce ==
    ASSUME StartStatus = "draft"
    PROVE  Spec => []ChargedOnce
<1>1. IInv => ChargedOnce
  BY DEF IInv
<1> QED
  BY <1>1, Invariance, PTL

\* Once settled, a contract that went through signing holds no escrow but what
\* the save of an older row put back: no confirmation, finalization or
\* cancellation fills it again (confirm_sandbox_payment, accept_contract).
THEOREM SettlementEmptiesEscrow ==
    ASSUME StartStatus = "draft"
    PROVE  Spec => []SettledEscrowStaysEmpty
<1>1. IInv => SettledEscrowStaysEmpty
  BY DEF IInv
<1> QED
  BY <1>1, Invariance, PTL

\* Until it is settled, the principal charged at activation is in escrow or
\* refunded, whatever cancellations race with payments, or was written away by
\* the save of an older row, or by the confirmation of a changed amount
\* (Contract.cancel, update_contract_proposal, accept_contract).
THEOREM PrincipalIsKept ==
    ASSUME StartStatus = "draft"
    PROVE  Spec => []NoLostPrincipal
<1>1. IInv => NoLostPrincipal
  BY DEF IInv
<1> QED
  BY <1>1, Invariance, PTL

\* Active and completion-requested contracts are funded ones
\* (check_execution_eligibility, reject_completion).
THEOREM WorkOnlyWhenFunded ==
    ASSUME StartStatus = "draft"
    PROVE  Spec => []WorkIsFunded
<1>1. IInv => WorkIsFunded
  BY DEF IInv
<1> QED
  BY <1>1, Invariance, PTL

\* The endpoints implement EscrowPromise: every step is an activation, a
\* funding, a release or invisible, in that order and once each.
THEOREM Refinement ==
    ASSUME StartStatus = "draft"
    PROVE  Spec => KeepsPromise
<1>1. Init => Promise!Init
  BY DEF Init, Promise!Init, Funded
<1>2. IInv /\ [Next]_vars => [Promise!Next]_(Promise!vars)
  <2> SUFFICES ASSUME IInv, [Next]_vars
               PROVE  [Promise!Next]_(Promise!vars)
    OBVIOUS
  <2> USE DEF contractVars, ledgerVars, fundingVars, stageVars, payoutVars,
              Promise!Next, Promise!vars, Promise!Charge, Promise!Fund,
              Promise!Release
  <2>1. CASE UNCHANGED <<charges, intent, settlements>>
    BY <2>1 DEF Funded
  <2>2. ASSUME NEW w \in Workers, CommitFinalize(w)
        PROVE  Promise!Charge
    <3>1. charges = 0 /\ charges' = 1 /\ NoIntent /\ UNCHANGED settlements
      BY <2>2
      DEF CommitFinalize, AttestationFree, IInv, NothingBeforeCharge
    <3>2. ~Funded /\ ~Funded'
      BY <2>2, <3>1 DEF CommitFinalize, IInv, TypeOK, Funded, NoIntent
    <3>3. /\ ~(charges > 0) /\ (charges > 0)'
          /\ UNCHANGED <<Funded, settlements > 0>>
      BY <3>1, <3>2 DEF Funded
    <3> QED
      BY <3>3
  <2>3. ASSUME UNCHANGED <<charges, settlements>>,
               NEW i \in Intents, intent[i] # "none"
        PROVE  [Promise!Next]_(Promise!vars)
    <3>1. charges > 0
      BY <2>3 DEF IInv, TypeOK, NothingBeforeCharge, NoIntent
    <3>2. Funded => Funded'
      BY IntentsGrow
    <3>3. CASE Funded
      BY <2>3, <3>2, <3>3
    <3>4. CASE ~Funded /\ Funded'
      BY <2>3, <3>1, <3>4
    <3>5. CASE ~Funded /\ ~Funded'
      <4>1. UNCHANGED <<charges > 0, Funded, settlements > 0>>
        BY <2>3, <3>5 DEF Funded
      <4> QED
        BY <4>1
    <3> QED
      BY <3>3, <3>4, <3>5
  <2>4. CASE Settle
    <3>1. /\ Funded /\ settlements = 0 /\ settlements' = 1
          /\ UNCHANGED <<charges, intent>>
      BY <2>4
      DEF Settle, SettlementEligible, FundedForSettlement, NotSettled
    <3> QED
      BY <3>1 DEF Funded
  <2>5. CASE \E w \in Workers : CommitMarkPaid(w)
    BY <2>3, <2>5 DEF CommitMarkPaid, IInv, OneIntent
  <2>6. CASE \E w \in Workers : CommitConfirm(w)
    <3>1. PICK i \in Intents : intent[i] # "none"
      BY <2>6 DEF CommitConfirm, IInv, LockHolds, Confirmable
    <3> QED
      BY <2>3, <2>6, <3>1 DEF CommitConfirm
  <2>7. CASE \E i \in Intents : DeclinePayment(i)
    BY <2>3, <2>7 DEF DeclinePayment, Confirmable
  <2>8. CASE \E w \in Workers : Begin(w) \/ Rollback(w)
    BY <2>1, <2>8, RequestsOnly
  <2>9. CASE \E w \in Workers : OtherCommit(w)
    BY <2>1, <2>9, OtherCommits
  <2>10. CASE (\E s \in Stages : SubmitStage(s)) \/ UNCHANGED vars
    BY <2>1, <2>10 DEF SubmitStage, vars
  <2>11. ~ \E w \in Workers : CommitCreateIntent(w)
    BY DEF CommitCreateIntent, IInv, OneIntent
  <2> QED
    BY <2>2, <2>4, <2>5, <2>6, <2>7, <2>8, <2>9, <2>10, <2>11
    DEF Next, Commit, OtherCommit
<1> QED
  BY <1>1, <1>2, Invariance, PTL DEF Spec, KeepsPromise, Promise!Spec

\* A contract is settled at most once, also when it predates electronic signing
\* and several funding intents refill its escrow (settle_completed_contract).
THEOREM SettlesOnce == Spec => []SettledOnce
<1>1. Init => SettledOnce
  BY DEF Init, SettledOnce
<1>2. SettledOnce /\ [Next]_vars => SettledOnce'
  <2> SUFFICES ASSUME SettledOnce, [Next]_vars PROVE SettledOnce'
    OBVIOUS
  <2>1. CASE Settle
    BY <2>1 DEF Settle, SettlementEligible, NotSettled, SettledOnce
  <2>2. CASE UNCHANGED settlements
    BY <2>2 DEF SettledOnce
  <2>3. ASSUME NEW w \in Workers, OtherCommit(w) \/ Begin(w) \/ Rollback(w)
        PROVE  UNCHANGED settlements
    BY <2>3, OtherCommits, RequestsOnly DEF payoutVars
  <2>4. ASSUME NEW w \in Workers,
               \/ CommitFinalize(w) \/ CommitCreateIntent(w)
               \/ CommitConfirm(w) \/ CommitMarkPaid(w)
        PROVE  UNCHANGED settlements
    BY <2>4
    DEF CommitFinalize, CommitCreateIntent, CommitConfirm, CommitMarkPaid,
        payoutVars
  <2>5. ASSUME \/ \E i \in Intents : DeclinePayment(i)
               \/ \E s \in Stages : SubmitStage(s)
               \/ UNCHANGED vars
        PROVE  UNCHANGED settlements
    BY <2>5 DEF DeclinePayment, SubmitStage, vars, payoutVars
  <2> QED
    BY <2>1, <2>2, <2>3, <2>4, <2>5 DEF Next, Commit, OtherCommit
<1> QED
  BY <1>1, <1>2, PTL DEF Spec

-----------------------------------------------------------------------------
(***************************************************************************)
(* Disputes.                                                               *)
(***************************************************************************)

\* A handler of disputes either only moves the status of its dispute, or
\* resolves it with a refund from the escrow or from the technician's wallet.
Refunds(a) ==
    /\ refunded' = refunded + RefundFromEscrow(a)
    /\ escrowRefunds' = escrowRefunds + RefundFromEscrow(a)
    /\ escrow' = escrow - RefundFromEscrow(a)
    /\ settlements = 0
    /\ UNCHANGED <<status, agreed, staged, signed, ledgerVars, fundingVars,
                   completion, stageVars, payoutVars, req, reversed>>

LEMMA DisputeEffect ==
    ASSUME DisputeTypeOK, DisputeStep
    PROVE  /\ dispute' \in [Disputes -> DisputeStatus]
           /\ \/ UNCHANGED <<vars, escrowRefunds>> /\ reversed' \in Nat
              \/ \E a \in Nat : Refunds(a)
<1>1. PICK d \in Disputes :
        \/ OpenDispute(d) \/ Respond(d) \/ CancelDispute(d)
        \/ StartReview(d) \/ StartMediation(d) \/ ProposeResolution(d)
        \/ RejectDispute(d) \/ CloseDispute(d)
        \/ \E a \in RefundAmounts :
              ResolveFromEscrow(d, a) \/ ResolveFromWallet(d, a)
  BY DEF DisputeStep
<1>2. ASSUME NEW a \in RefundAmounts, ResolveFromEscrow(d, a)
      PROVE  dispute' \in [Disputes -> DisputeStatus] /\ a \in Nat /\ Refunds(a)
  BY <1>2, RefundAssumption
  DEF ResolveFromEscrow, Refunds, EscrowAfterRefund, DisputeTypeOK, DisputeStatus
<1>3. ASSUME NEW a \in RefundAmounts, ResolveFromWallet(d, a)
      PROVE  /\ dispute' \in [Disputes -> DisputeStatus]
             /\ UNCHANGED <<vars, escrowRefunds>> /\ reversed' \in Nat
  BY <1>3, RefundAssumption
  DEF ResolveFromWallet, DisputeTypeOK, DisputeStatus
<1>4. ASSUME \/ OpenDispute(d) \/ Respond(d) \/ CancelDispute(d)
             \/ StartReview(d) \/ StartMediation(d) \/ ProposeResolution(d)
             \/ RejectDispute(d) \/ CloseDispute(d)
      PROVE  /\ dispute' \in [Disputes -> DisputeStatus]
             /\ UNCHANGED <<vars, escrowRefunds>> /\ reversed' \in Nat
  BY <1>4
  DEF OpenDispute, Respond, CancelDispute, StartReview, StartMediation,
      ProposeResolution, RejectDispute, CloseDispute, Move, DisputeTypeOK,
      DisputeStatus
<1> QED
  BY <1>1, <1>2, <1>3, <1>4

\* A resolution takes part of an escrow that is positive, and clears, at most,
\* one that is negative.
LEMMA RefundMoves ==
    ASSUME TypeOK, NEW a \in Nat, Refunds(a)
    PROVE  /\ escrow \in Int /\ escrow' \in Escrows /\ escrow' \in Int
           /\ RefundFromEscrow(a) \in Int
           /\ escrow' + refunded' = escrow + refunded
           /\ Positive(escrow') <= Positive(escrow) - RefundFromEscrow(a)
           /\ refunded' - Positive(-escrow') >= refunded - Positive(-escrow)
           /\ refunded \in Int /\ refunded' \in Int
           /\ escrow = 0 => escrow' = 0 /\ refunded' = refunded
<1>1. escrow \in Escrows /\ escrow \in Int /\ refunded \in Int
  BY EscrowValues DEF TypeOK
<1>2. CASE escrow > 0
  <2>1. RefundFromEscrow(a) \in Int /\ 0 <= RefundFromEscrow(a)
           /\ RefundFromEscrow(a) <= escrow
    BY <1>1, <1>2 DEF RefundFromEscrow
  <2>2. escrow' \in Escrows /\ escrow' \in Int
    BY <1>1, <2>1, EscrowLeft, EscrowValues DEF Refunds
  <2> QED
    BY <1>1, <1>2, <2>1, <2>2 DEF Refunds, Positive
<1>3. CASE escrow <= 0
  <2>1. RefundFromEscrow(a) = 0 \/ RefundFromEscrow(a) = escrow
    BY <1>1, <1>3 DEF RefundFromEscrow
  <2>2. escrow' \in Escrows /\ escrow' \in Int
    BY <1>1, <2>1, EscrowValues DEF Refunds
  <2> QED
    BY <1>1, <1>3, <2>1, <2>2 DEF Refunds, Positive
<1> QED
  BY <1>1, <1>2, <1>3

\* Resolutions keep the escrow and the refunds well-formed.
LEMMA RefundType ==
    ASSUME TypeOK, NEW a \in Nat, Refunds(a)
    PROVE  TypeOK'
BY RefundMoves
DEF TypeOK, Refunds, ledgerVars, fundingVars, stageVars, payoutVars

LEMMA DisputeTypeStep ==
    ASSUME DisputeTypeOK, [DisputeNext]_allVars
    PROVE  DisputeTypeOK'
<1>1. CASE Next /\ UNCHANGED disputeVars
  BY <1>1, TypeStep DEF DisputeTypeOK, disputeVars
<1>2. CASE DisputeStep
  <2>1. CASE UNCHANGED <<vars, escrowRefunds>> /\ reversed' \in Nat
    BY <1>2, <2>1, DisputeEffect, TypeStep DEF DisputeTypeOK
  <2>2. ASSUME NEW a \in Nat, Refunds(a) PROVE DisputeTypeOK'
    BY <1>2, <2>2, DisputeEffect, RefundMoves, RefundType
    DEF DisputeTypeOK, Refunds
  <2> QED
    BY <1>2, <2>1, <2>2, DisputeEffect
<1>3. CASE UNCHANGED allVars
  <2>1. UNCHANGED vars /\ UNCHANGED disputeVars
    BY <1>3 DEF allVars
  <2> QED
    BY <2>1, TypeStep DEF DisputeTypeOK, disputeVars
<1> QED
  BY <1>1, <1>2, <1>3 DEF DisputeNext

\* A resolution keeps the inductive invariant of a contract that was a draft:
\* what it takes out of the escrow has been refunded.
LEMMA RefundKeepsInv ==
    ASSUME IInv, NEW a \in Nat, Refunds(a)
    PROVE  IInv'
<1> TypeOK
  BY DEF IInv
<1>1. TypeOK'
  BY RefundType
<1>2. /\ escrow' + refunded' = escrow + refunded
      /\ refunded' - Positive(-escrow') >= refunded - Positive(-escrow)
      /\ escrow = 0 => escrow' = 0 /\ refunded' = refunded
      /\ escrow \in Int /\ escrow' \in Int
      /\ refunded \in Int /\ refunded' \in Int
  BY RefundMoves
<1>3. UNCHANGED <<status, charges, principal, booked, lost, restored, intent,
                  completion, settlements, req>>
  BY DEF Refunds, ledgerVars, fundingVars, payoutVars
<1>4. settlements = 0 /\ settlements' = 0
  BY <1>3 DEF Refunds
<1>5. principal \in Int /\ lost \in Int
  BY DEF TypeOK
<1>6. NoLostPrincipal'
  <2>1. escrow' + refunded' + lost' = escrow + refunded + lost
    BY <1>2, <1>3, <1>5
  <2> QED
    BY <1>3, <1>4, <2>1 DEF IInv, NoLostPrincipal
<1>7. CancelCoversPrincipal'
  <2> SUFFICES ASSUME charges > 0, NEW w \in Workers, req[w].op = "cancel",
                      req[w].escrow > 0
               PROVE  req[w].escrow + refunded' + lost - Positive(-escrow')
                          >= principal
    BY <1>3 DEF CancelCoversPrincipal
  <2>1. req[w].escrow + refunded + lost - Positive(-escrow) >= principal
    BY <1>4 DEF IInv, CancelCoversPrincipal
  <2>2. Positive(-escrow) \in Int /\ Positive(-escrow') \in Int
    <3>1. \A n \in Int : Positive(-n) \in Int
      BY DEF Positive
    <3> QED
      BY <1>2, <3>1
  <2>3. req[w].escrow \in Int
    BY Held
  <2> QED
    BY <1>2, <1>5, <2>1, <2>2, <2>3
<1>8. NothingBeforeCharge'
  BY <1>2, <1>3 DEF IInv, NothingBeforeCharge, NoIntent
<1>9. SettledEscrowStaysEmpty' /\ SettledOnce' /\ SettledIsFunded'
  BY <1>4 DEF SettledEscrowStaysEmpty, SettledOnce, SettledIsFunded
<1> QED
  BY <1>1, <1>3, <1>6, <1>7, <1>8, <1>9
  DEF IInv, ChargedOnce, WorkIsFunded, Funded, NoIntent, OneIntent, LockHolds,
      Confirmable, CompletionIsFunded

\* A contract that was a draft and the disputes over it.
LEMMA DisputeInvStep ==
    ASSUME DisputeTypeOK, IInv, [DisputeNext]_allVars
    PROVE  IInv'
<1>1. CASE [Next]_vars
  BY <1>1, InvStep
<1>2. CASE DisputeStep
  <2>1. ASSUME NEW a \in Nat, Refunds(a) PROVE IInv'
    BY <2>1, RefundKeepsInv
  <2> QED
    BY <1>1, <1>2, <2>1, DisputeEffect
<1> QED
  BY <1>1, <1>2 DEF DisputeNext, allVars

\* Such a contract keeps its principal under disputes as well: refunds of
\* resolutions that run between the fetch and the commit of a cancellation, a
\* proposal or an acceptance
\* (_execute_refund, Contract.cancel, confirm_sandbox_payment).
THEOREM PrincipalSurvives ==
    ASSUME StartStatus = "draft"
    PROVE  DisputeSpec => []PrincipalSurvivesDisputes
<1> DEFINE DInv == DisputeTypeOK /\ IInv
<1>1. DisputeInit => DInv
  BY InvInit DEF DisputeInit, DisputeTypeOK, DisputeStatus, IInv
<1>2. DInv /\ [DisputeNext]_allVars => DInv'
  BY DisputeTypeStep, DisputeInvStep
<1>3. DInv => PrincipalSurvivesDisputes
  BY DEF IInv, PrincipalSurvivesDisputes
<1> QED
  BY <1>1, <1>2, <1>3, PTL DEF DisputeSpec

\* A contract that starts in progress is never signed or finalized: only a
\* draft, or what one became, leads there.
Unsigned ==
    /\ status \in {"in_progress", "active", "completion_requested",
                   "completed", "canceled"}
    /\ \A w \in Workers :
          req[w].op \notin {"propose", "accept", "sign", "finalize"}

LEMMA UnsignedStep ==
    ASSUME DisputeTypeOK, Unsigned, [DisputeNext]_allVars
    PROVE  Unsigned'
<1> TypeOK
  BY DEF DisputeTypeOK
<1> USE DEF contractVars, rowVars, Unsigned
<1>1. ASSUME NEW w \in Workers, Begin(w) PROVE Unsigned'
  <2>1. PICK op \in Ops \ {"propose", "accept", "sign", "finalize"}, r \in Rows :
          Fetch(w, op, r)
    BY <1>1
    DEF Begin, BeginPropose, BeginAccept, BeginSign, BeginFinalize,
        BeginCreateIntent, BeginConfirm, BeginMarkPaid, BeginActivate,
        BeginRequestCompletion, BeginConfirmCompletion,
        BeginRejectCompletion, BeginCancel, BeginApproveStage, Ops, Rows
  <2> QED
    BY <2>1 DEF Fetch, TypeOK
<1>2. ASSUME NEW w \in Workers, Commit(w) \/ Rollback(w) PROVE Unsigned'
  <2>1. Finish(w)
    BY <1>2
    DEF Commit, Rollback, CommitPropose, CommitAccept, SaveRow, CommitSign,
        CommitFinalize, CommitCreateIntent, CommitConfirm, CommitMarkPaid,
        CommitActivate, CommitRequestCompletion, CommitConfirmCompletion,
        CommitRejectCompletion, CommitCancel, CommitApproveStage
  <2>2. \A v \in Workers :
           req'[v].op \notin {"propose", "accept", "sign", "finalize"}
    BY <2>1 DEF Finish, Idle, TypeOK
  <2>3. status' \in {status, "active", "completion_requested", "completed",
                     "canceled"}
    BY <1>2
    DEF Commit, Rollback, CommitPropose, CommitAccept, CommitSign,
        CommitFinalize, CommitCreateIntent, CommitConfirm, CommitMarkPaid,
        CommitActivate, CommitRequestCompletion, CommitConfirmCompletion,
        CommitRejectCompletion, CommitCancel, CommitApproveStage
  <2> QED
    BY <2>2, <2>3
<1>3. ASSUME \/ \E i \in Intents : DeclinePayment(i)
             \/ \E s \in Stages : SubmitStage(s)
             \/ Settle \/ UNCHANGED vars
      PROVE  Unsigned'
  BY <1>3 DEF DeclinePayment, SubmitStage, Settle, vars
<1>4. ASSUME NEW a \in Nat, Refunds(a) PROVE Unsigned'
  BY <1>4 DEF Refunds
<1> QED
  BY <1>1, <1>2, <1>3, <1>4, DisputeEffect DEF DisputeNext, Next, allVars

\* What the save of an older row puts back into the escrow is counted.
LEMMA PutBack ==
    ASSUME TypeOK, NEW w \in Workers, NEW s, NEW a, SaveRow(w, s, a)
    PROVE  /\ Positive(escrow') - restored' <= Positive(escrow) - restored
           /\ Positive(escrow') \in Int
BY Held, EscrowValues DEF TypeOK, SaveRow, Positive

\* No step of the contract takes more into the escrow, or out of it to the
\* technician, than is booked or put back.
EscrowPays ==
    Positive(escrow') + released' - booked' - restored'
        <= Positive(escrow) + released - booked - restored

LEMMA EscrowPaysStep ==
    ASSUME TypeOK, [Next]_vars, IInv \/ Unsigned
    PROVE  EscrowPays
<1> USE DEF contractVars, rowVars, ledgerVars, payoutVars
<1>1. /\ escrow \in Int /\ Positive(escrow) \in Int /\ 0 <= Positive(escrow)
      /\ released \in Int /\ booked \in Int /\ restored \in Int
  BY EscrowValues DEF TypeOK, Positive
<1>2. ASSUME UNCHANGED <<escrow, released, booked, restored>> PROVE EscrowPays
  BY <1>1, <1>2 DEF EscrowPays, Positive
<1>3. ASSUME NEW w \in Workers, CommitPropose(w) \/ CommitAccept(w)
      PROVE  EscrowPays
  <2>1. PICK s, a : SaveRow(w, s, a)
    BY <1>3 DEF CommitPropose, CommitAccept
  <2>2. /\ Positive(escrow') - restored' <= Positive(escrow) - restored
        /\ Positive(escrow') \in Int /\ restored' \in Int
        /\ UNCHANGED <<released, booked>>
    BY <2>1, PutBack, Rewritten DEF SaveRow
  <2> QED
    BY <1>1, <2>2 DEF EscrowPays
<1>4. ASSUME NEW w \in Workers, CommitFinalize(w) PROVE EscrowPays
  <2>1. charges = 0 /\ req[w].op = "finalize"
    BY <1>4 DEF CommitFinalize, AttestationFree
  <2>2. req[w].escrow = 0
    BY <2>1 DEF IInv, NothingBeforeCharge, Unsigned
  <2>3. /\ escrow' = req[w].agreed
        /\ booked' = booked + Positive(req[w].agreed)
        /\ UNCHANGED <<released, restored>>
    BY <1>4, <2>2, Held DEF CommitFinalize, Charged
  <2> QED
    BY <1>1, <2>3, Held DEF EscrowPays, Positive
<1>5. ASSUME NEW w \in Workers, CommitConfirm(w) PROVE EscrowPays
  BY <1>1, <1>5, Held DEF CommitConfirm, EscrowPays, Positive
<1>6. ASSUME NEW w \in Workers, CommitCancel(w) PROVE EscrowPays
  BY <1>1, <1>6 DEF CommitCancel, EscrowAfterCancel, EscrowPays, Positive
<1>7. CASE Settle
  BY <1>1, <1>7 DEF Settle, SettlementEligible, EscrowPays, Positive
<1>8. ASSUME NEW w \in Workers, Begin(w) \/ Rollback(w) PROVE EscrowPays
  BY <1>2, <1>8, RequestsOnly
<1>9. ASSUME NEW w \in Workers,
             \/ CommitSign(w) \/ CommitCreateIntent(w) \/ CommitMarkPaid(w)
             \/ CommitActivate(w) \/ CommitRequestCompletion(w)
             \/ CommitConfirmCompletion(w) \/ CommitRejectCompletion(w)
             \/ CommitApproveStage(w)
      PROVE  EscrowPays
  BY <1>2, <1>9
  DEF CommitSign, CommitCreateIntent, CommitMarkPaid, CommitActivate,
      CommitRequestCompletion, CommitConfirmCompletion,
      CommitRejectCompletion, CommitApproveStage
<1>10. ASSUME \/ \E i \in Intents : DeclinePayment(i)
              \/ \E s \in Stages : SubmitStage(s)
              \/ UNCHANGED vars
       PROVE  EscrowPays
  BY <1>2, <1>10 DEF DeclinePayment, SubmitStage, vars
<1> QED
  BY <1>3, <1>4, <1>5, <1>6, <1>7, <1>8, <1>9, <1>10 DEF Next, Commit

\* An intent is paid exactly when a deposit was written for it.
DepositsMatch == \A i \in Intents : intent[i] = "paid" <=> deposits[i] > 0

LEMMA DepositsStep ==
    ASSUME TypeOK, DepositsMatch, [Next]_vars
    PROVE  DepositsMatch'
<1> USE DEF contractVars, fundingVars
<1>1. CASE UNCHANGED <<intent, deposits>>
  BY <1>1 DEF DepositsMatch
\* A payment is received.
<1>2. ASSUME NEW r, intent' = [intent EXCEPT ![r] = "paid"],
             deposits' = [deposits EXCEPT ![r] = @ + 1]
      PROVE  DepositsMatch'
  BY <1>2 DEF DepositsMatch, TypeOK
\* An intent that is not paid stays so.
<1>3. ASSUME NEW i \in Intents, NEW s \in {"pending", "failed"},
             intent[i] # "paid", intent' = [intent EXCEPT ![i] = s],
             UNCHANGED deposits
      PROVE  DepositsMatch'
  BY <1>3 DEF DepositsMatch, TypeOK
<1>4. ASSUME NEW w \in Workers, CommitFinalize(w) PROVE DepositsMatch'
  BY <1>1, <1>3, <1>4 DEF CommitFinalize, NoIntent
<1>5. ASSUME NEW w \in Workers, CommitCreateIntent(w) PROVE DepositsMatch'
  BY <1>3, <1>5 DEF CommitCreateIntent
<1>6. ASSUME NEW w \in Workers, CommitConfirm(w) \/ CommitMarkPaid(w)
      PROVE  DepositsMatch'
  BY <1>2, <1>6 DEF CommitConfirm, CommitMarkPaid
<1>7. ASSUME NEW i \in Intents, DeclinePayment(i) PROVE DepositsMatch'
  BY <1>3, <1>7 DEF DeclinePayment, Confirmable
<1>8. ASSUME NEW w \in Workers, OtherCommit(w) \/ Begin(w) \/ Rollback(w)
      PROVE  DepositsMatch'
  BY <1>1, <1>8, OtherCommits, RequestsOnly
<1>9. CASE (\E s \in Stages : SubmitStage(s)) \/ Settle \/ UNCHANGED vars
  BY <1>1, <1>9 DEF SubmitStage, Settle, vars
<1> QED
  BY <1>4, <1>5, <1>6, <1>7, <1>8, <1>9 DEF Next, Commit, OtherCommit

\* What resolutions and the settlement take out of the escrow was booked into
\* it, or put back by the save of an older row, whatever the contract starts
\* from and however often its escrow is refilled; an intent is paid exactly when
\* its deposit was made
\* (_execute_refund, settle_completed_contract, confirm_sandbox_payment).
THEOREM PayoutsBacked == DisputeSpec => []PayoutsAreBacked
<1> DEFINE PInv == /\ DisputeTypeOK /\ PayoutsAreBacked
                   /\ IInv \/ Unsigned
<1>1. DisputeInit => PInv
  <2> SUFFICES ASSUME DisputeInit PROVE PInv
    OBVIOUS
  <2>1. DisputeTypeOK
    BY TypeInit DEF DisputeInit, DisputeTypeOK, DisputeStatus
  <2>2. IInv \/ Unsigned
    BY InvInit, StartAssumption DEF DisputeInit, Init, Unsigned, Idle
  <2>3. PayoutsAreBacked
    BY DEF DisputeInit, Init, PayoutsAreBacked, Positive
  <2> QED
    BY <2>1, <2>2, <2>3
<1>2. PInv /\ [DisputeNext]_allVars => PInv'
  <2> SUFFICES ASSUME PInv, [DisputeNext]_allVars PROVE PInv'
    OBVIOUS
  <2>1. DisputeTypeOK' /\ (IInv \/ Unsigned)'
    BY DisputeTypeStep, DisputeInvStep, UnsignedStep
  <2> TypeOK /\ TypeOK'
    BY <2>1 DEF DisputeTypeOK
  <2>2. /\ Positive(escrow) \in Int /\ Positive(escrow') \in Int
        /\ released \in Int /\ booked \in Int /\ restored \in Int
        /\ released' \in Int /\ booked' \in Int /\ restored' \in Int
        /\ escrowRefunds \in Int /\ escrowRefunds' \in Int
    <3>1. escrow \in Int /\ escrow' \in Int
      BY EscrowValues DEF TypeOK
    <3> QED
      BY <2>1, <3>1 DEF DisputeTypeOK, TypeOK, Positive
  <2>3. DepositsMatch /\
        Positive(escrow) + escrowRefunds + released <= booked + restored
    BY DEF PayoutsAreBacked, DepositsMatch
  <2>4. CASE [Next]_vars /\ UNCHANGED escrowRefunds
    <3>1. EscrowPays /\ DepositsMatch'
      BY <2>3, <2>4, EscrowPaysStep, DepositsStep
    <3> QED
      BY <2>1, <2>2, <2>3, <2>4, <3>1
      DEF EscrowPays, DepositsMatch, PayoutsAreBacked
  <2>5. ASSUME NEW a \in Nat, Refunds(a) PROVE PInv'
    <3>1. Positive(escrow') + escrowRefunds' <= Positive(escrow) + escrowRefunds
      BY <2>2, <2>5, RefundMoves DEF Refunds
    <3>2. UNCHANGED <<booked, restored, intent, deposits, released>>
      BY <2>5 DEF Refunds, ledgerVars, fundingVars, payoutVars
    <3> QED
      BY <2>1, <2>2, <2>3, <3>1, <3>2 DEF PayoutsAreBacked, DepositsMatch
  <2>6. CASE DisputeStep
    BY <2>4, <2>5, <2>6, DisputeEffect DEF DisputeTypeOK
  <2> QED
    BY <2>4, <2>6 DEF DisputeNext, allVars, disputeVars
<1>3. PInv => PayoutsAreBacked
  OBVIOUS
<1> QED
  BY <1>1, <1>2, <1>3, PTL DEF DisputeSpec

-----------------------------------------------------------------------------
(***************************************************************************)
(* The staff's desk for the disputes and chargebacks of a contract, for    *)
(* any number of disputes, chargebacks and requests of staff.              *)
(***************************************************************************)
\* The handlers that only move the status of a dispute.
StatusMove(d) ==
    \/ D!OpenDispute(d) \/ D!Respond(d) \/ D!Cancel(d) \/ D!StartReview(d)
    \/ D!StartMediation(d) \/ D!Propose(d) \/ D!Close(d)

\* What such a handler does: the status moves along one of these edges.
Edge(from, to) ==
    \/ from = "none" /\ to = "open"
    \/ from = "open" /\ to = "awaiting_response"
    \/ from \in {"open", "awaiting_response"} /\ to \in {"canceled", "under_review"}
    \/ from \in {"under_review", "resolution_proposed"} /\ to = "mediation"
    \/ from \in {"under_review", "mediation"} /\ to = "resolution_proposed"
    \/ from \in {"resolved", "rejected"} /\ to = "closed"

LEMMA StatusMoves ==
    ASSUME NEW d \in Disputes, StatusMove(d)
    PROVE  /\ \E to \in D!DisputeStatus :
                 /\ Edge(case[d], to)
                 /\ case' = [case EXCEPT ![d] = to]
           /\ UNCHANGED <<D!moneyVars, resolutions, refund, liability,
                          chargeback, desk>>
<1>1. CASE D!OpenDispute(d)
  BY <1>1 DEF D!OpenDispute, Edge, D!DisputeStatus
<1>2. CASE ~D!OpenDispute(d)
  BY <1>2
  DEF StatusMove, D!Respond, D!Cancel, D!StartReview, D!StartMediation, D!Propose, D!Close,
      D!Move, Edge, D!DisputeStatus
<1> QED
  BY <1>1, <1>2

\* The handlers of chargebacks that move its status alone.
LEMMA ChargebackMoves ==
    ASSUME D!TypeOK, NEW c \in Chargebacks, D!ChargebackStep(c)
    PROVE  /\ chargeback' \in [Chargebacks -> D!ChargebackEvent]
           /\ UNCHANGED <<D!moneyVars, case, resolutions, refund, liability, desk>>
<1>1. CASE D!RejectChargeback(c) \/ D!UpholdPartly(c)
  <2>1. PICK s \in {"rejected", "partially_upheld"} : D!Decide(c, s)
    BY <1>1 DEF D!RejectChargeback, D!UpholdPartly
  <2> QED
    BY <2>1 DEF D!Decide, D!TypeOK, D!ChargebackEvent, D!ChargebackStatus
<1>2. CASE D!ReceiveChargeback(c)
  BY <1>2 DEF D!ReceiveChargeback, D!TypeOK, D!ChargebackEvent, D!ChargebackStatus
<1>3. CASE D!ReviewChargeback(c) \/ D!SubmitEvidence(c)
  BY <1>3
  DEF D!ReviewChargeback, D!SubmitEvidence, D!MoveChargeback, D!TypeOK, D!ChargebackEvent,
      D!ChargebackStatus
<1> QED
  BY <1>1, <1>2, <1>3 DEF D!ChargebackStep

\* What a resolution moves is there, and at most what staff entered.
LEMMA MovedAmount ==
    ASSUME D!TypeOK, NEW a \in Nat
    PROVE  LET moved == D!AtMost(a, IF settled THEN technician ELSE held)
           IN  /\ moved \in Nat /\ moved <= a
               /\ settled => moved <= technician
               /\ ~settled => moved <= held
BY DeskAssumption DEF D!TypeOK, D!AtMost

\* A resolution, whether it comes with a liability or not.
LEMMA Resolutions ==
    ASSUME NEW d \in Disputes,
           \/ \E a, owed \in Entered \cup {0} : D!Resolve(d, a, owed)
           \/ \E a \in Entered : D!RefundInFull(d, a)
    PROVE  \E a, owed \in Nat : D!Resolve(d, a, owed)
BY DeskAssumption DEF D!RefundInFull

\* A resolution moves money between the two of them.
LEMMA ResolveMoney ==
    ASSUME D!TypeOK, D!MoneyAddsUp, NEW d \in Disputes, NEW a \in Nat,
           NEW owed \in Nat, D!Resolve(d, a, owed)
    PROVE  D!MoneyAddsUp'
<1> DEFINE moved == D!AtMost(a, IF settled THEN technician ELSE held)
<1>1. moved \in Nat
  BY MovedAmount
<1> HIDE DEF moved
<1>2. /\ client' = client + moved /\ UNCHANGED settled
      /\ IF settled
         THEN technician' = technician - moved /\ UNCHANGED held
         ELSE held' = held - moved /\ UNCHANGED technician
  BY DEF D!Resolve, moved
<1>3. held \in Nat /\ technician \in Nat /\ client \in Nat
  BY DEF D!TypeOK
<1>4. CASE settled
  BY <1>1, <1>2, <1>3, <1>4, DeskAssumption DEF D!MoneyAddsUp
<1>5. CASE ~settled
  BY <1>1, <1>2, <1>3, <1>5, DeskAssumption DEF D!MoneyAddsUp
<1> QED
  BY <1>4, <1>5

LEMMA ResolveType ==
    ASSUME D!TypeOK, NEW d \in Disputes, NEW a \in Nat, NEW owed \in Nat,
           D!Resolve(d, a, owed)
    PROVE  D!TypeOK'
<1> DEFINE moved == D!AtMost(a, IF settled THEN technician ELSE held)
<1>1. /\ moved \in Nat /\ moved <= a
      /\ settled => moved <= technician
      /\ ~settled => moved <= held
  BY MovedAmount
<1> HIDE DEF moved
<1>2. /\ client' = client + moved
      /\ IF settled
         THEN technician' = technician - moved /\ UNCHANGED held
         ELSE held' = held - moved /\ UNCHANGED technician
  BY DEF D!Resolve, moved
<1>3. {held', technician', client'} \subseteq Nat
  <2>1. held \in Nat /\ technician \in Nat /\ client \in Nat
    BY DEF D!TypeOK
  <2>2. CASE settled
    BY <1>1, <1>2, <2>1, <2>2 DEF D!TypeOK
  <2>3. CASE ~settled
    BY <1>1, <1>2, <2>1, <2>3 DEF D!TypeOK
  <2> QED
    BY <2>2, <2>3
<1>4. refund' \in [Disputes -> D!RefundRecord]
  <2>1. CASE a = 0
    BY <2>1 DEF D!Resolve, D!TypeOK
  <2>2. CASE a # 0
    <3>1. [status |-> "completed", moved |-> moved,
           amount |-> IF settled THEN a ELSE moved] \in D!RefundRecord
      BY <1>1 DEF D!RefundRecord, D!RefundStatus
    <3>2. refund' = [refund EXCEPT ![d] =
                       [status |-> "completed", moved |-> moved,
                        amount |-> IF settled THEN a ELSE moved]]
      BY <2>2 DEF D!Resolve, moved
    <3> QED
      BY <3>1, <3>2 DEF D!TypeOK
  <2> QED
    BY <2>1, <2>2
<1>5. case' \in [Disputes -> D!DisputeStatus]
  BY DEF D!Resolve, D!TypeOK, D!DisputeStatus
<1>6. resolutions' \in [Disputes -> Seq(Nat)]
  BY DEF D!Resolve, D!TypeOK
<1>7. liability' \in [Disputes -> Seq(Nat)]
  BY DEF D!Resolve, D!TypeOK, D!Liable
<1>8. UNCHANGED <<settled, chargeback, desk>>
  BY DEF D!Resolve
<1> QED
  BY <1>3, <1>4, <1>5, <1>6, <1>7, <1>8 DEF D!TypeOK

\* The end of a request leaves every worker with a well-formed request.
LEMMA DeskFinishType ==
    ASSUME D!TypeOK, NEW w \in Workers, D!Finish(w)
    PROVE  /\ desk' \in [Workers -> D!Request]
           /\ \A v \in Workers : desk'[v] = desk[v] \/ desk'[v] = D!NoRequest
BY DEF D!TypeOK, D!Finish, D!Request

\* A refund that changes its status stays well-formed.
LEMMA RefundStatusMoves ==
    ASSUME D!TypeOK, NEW d \in Disputes, NEW s \in D!RefundStatus,
           refund' = [refund EXCEPT ![d].status = s]
    PROVE  refund' \in [Disputes -> D!RefundRecord]
<1>1. refund \in [Disputes -> D!RefundRecord]
  BY DEF D!TypeOK
<1>2. PICK r : r = [refund[d] EXCEPT !.status = s]
  OBVIOUS
<1>3. r \in D!RefundRecord
  BY <1>1, <1>2 DEF D!RefundRecord
<1>4. refund' = [refund EXCEPT ![d] = r]
  BY <1>2
<1> QED
  BY <1>1, <1>3, <1>4

\* A request in flight names rows that exist.
LEMMA RequestRows ==
    ASSUME D!TypeOK, NEW w \in Workers
    PROVE  /\ D!InFlight(w, "confirm") \/ D!InFlight(w, "retry")
                 \/ D!InFlight(w, "uphold") => desk[w].on \in Disputes
           /\ D!InFlight(w, "uphold") => desk[w].chargeback \in Chargebacks
BY DEF D!TypeOK, D!Request, D!InFlight, D!NoRequest

\* Every step keeps the type invariant, one step per action.
LEMMA DeskTypeStep ==
    ASSUME D!TypeOK, [D!Next]_(D!vars)
    PROVE  D!TypeOK'
<1> USE DEF D!moneyVars, D!recordVars
<1>1. CASE UNCHANGED D!vars
  BY <1>1 DEF D!TypeOK, D!vars
<1>2. CASE D!Settle
  BY <1>2, DeskAssumption DEF D!Settle, D!TypeOK
<1>3. ASSUME NEW d \in Disputes, D!DisputeStep(d) PROVE D!TypeOK'
  <2>1. CASE StatusMove(d)
    BY <2>1, StatusMoves DEF D!TypeOK
  <2>2. CASE D!Reject(d)
    BY <2>2 DEF D!Reject, D!TypeOK, D!DisputeStatus
  <2>3. CASE D!FailRefund(d)
    BY <2>3 DEF D!FailRefund, D!TypeOK, D!RefundRecord, D!RefundStatus
  <2> QED
    BY <1>3, <2>1, <2>2, <2>3, Resolutions, ResolveType
    DEF D!DisputeStep, StatusMove
<1>4. ASSUME NEW c \in Chargebacks, D!ChargebackStep(c) PROVE D!TypeOK'
  BY <1>4, ChargebackMoves DEF D!TypeOK
<1>5. ASSUME NEW w \in Workers, NEW d \in Disputes,
             D!BeginConfirm(w, d) \/ D!BeginRetry(w, d)
      PROVE  D!TypeOK'
  <2>1. desk' \in [Workers -> D!Request]
    <3>1. \A op \in {"confirm", "retry"} : [op |-> op, on |-> d] \in D!Request
      BY DEF D!Request
    <3> QED
      BY <1>5, <3>1 DEF D!BeginConfirm, D!BeginRetry, D!TypeOK
  <2>2. refund' \in [Disputes -> D!RefundRecord]
    <3>1. CASE refund' = [refund EXCEPT ![d].status = "processing"]
      <4>1. "processing" \in D!RefundStatus
        BY DEF D!RefundStatus
      <4> QED
        BY <3>1, <4>1, RefundStatusMoves
    <3>2. CASE refund' = refund
      BY <3>2 DEF D!TypeOK
    <3> QED
      BY <1>5, <3>1, <3>2 DEF D!BeginConfirm, D!BeginRetry, D!recordVars
  <2> QED
    BY <1>5, <2>1, <2>2 DEF D!BeginConfirm, D!BeginRetry, D!TypeOK
<1>6. ASSUME NEW w \in Workers, NEW c \in Chargebacks, D!BeginUphold(w, c)
      PROVE  D!TypeOK'
  <2>1. PICK d \in Disputes :
          desk' = [desk EXCEPT ![w] =
                      [op |-> "uphold", chargeback |-> c, on |-> d]]
    BY <1>6 DEF D!BeginUphold, D!UnderReview
  <2>2. [op |-> "uphold", chargeback |-> c, on |-> d] \in D!Request
    BY DEF D!Request
  <2> QED
    BY <1>6, <2>1, <2>2 DEF D!BeginUphold, D!TypeOK
<1>7. ASSUME NEW w \in Workers, D!SaveConfirm(w) \/ D!EndRetry(w) PROVE D!TypeOK'
  <2>1. desk' \in [Workers -> D!Request]
    BY <1>7, DeskFinishType DEF D!SaveConfirm, D!EndRetry
  <2>2. refund' \in [Disputes -> D!RefundRecord]
    <3>1. PICK d \in Disputes : d = desk[w].on
      BY <1>7, RequestRows DEF D!SaveConfirm, D!EndRetry, D!InFlight
    <3>2. PICK s : /\ s \in {"completed", "failed"}
                   /\ refund' = [refund EXCEPT ![d].status = s]
      BY <1>7, <3>1 DEF D!SaveConfirm, D!EndRetry, D!AfterRetry
    <3>3. s \in D!RefundStatus
      BY <3>2 DEF D!RefundStatus
    <3> QED
      BY <3>2, <3>3, RefundStatusMoves
  <2> QED
    BY <1>7, <2>1, <2>2 DEF D!SaveConfirm, D!EndRetry, D!TypeOK
<1>8. ASSUME NEW w \in Workers, NEW a \in Entered, D!CommitUphold(w, a)
      PROVE  D!TypeOK'
  <2>1. desk' \in [Workers -> D!Request]
    BY <1>8, DeskFinishType DEF D!CommitUphold
  <2>2. a \in Nat
    BY DeskAssumption
  <2>3. /\ case' \in [Disputes -> D!DisputeStatus]
        /\ resolutions' \in [Disputes -> Seq(Nat)]
        /\ chargeback' \in [Chargebacks -> D!ChargebackEvent]
    <3>1. desk[w].on \in Disputes /\ desk[w].chargeback \in Chargebacks
      BY <1>8, RequestRows DEF D!CommitUphold
    <3>2. chargeback' \in [Chargebacks -> D!ChargebackEvent]
      BY <1>8, <3>1 DEF D!CommitUphold, D!TypeOK, D!ChargebackEvent, D!ChargebackStatus
    <3> QED
      BY <1>8, <2>2, <3>1, <3>2 DEF D!CommitUphold, D!TypeOK, D!DisputeStatus
  <2> QED
    BY <1>8, <2>1, <2>3 DEF D!CommitUphold, D!TypeOK
<1>9. ASSUME NEW w \in Workers, D!FailUphold(w) PROVE D!TypeOK'
  BY <1>9, DeskFinishType DEF D!FailUphold, D!TypeOK
<1> QED
  BY <1>1, <1>2, <1>3, <1>4, <1>5, <1>6, <1>7, <1>8, <1>9 DEF D!Next, D!Finishing

\* Without a resolution, a decision writes the first one.
LEMMA FirstResolution ==
    ASSUME D!TypeOK, D!ResolutionMatchesStatus, NEW d \in Disputes,
           D!ResolutionFree(d), NEW a \in Nat, NEW to \in {"resolved", "rejected"},
           case' = [case EXCEPT ![d] = to],
           resolutions' = [resolutions EXCEPT ![d] = Append(@, a)]
    PROVE  /\ D!ResolutionMatchesStatus'
           /\ resolutions'[d] = <<a>>
           /\ \A e \in Disputes \ {d} : resolutions'[e] = resolutions[e]
           /\ case[d] \notin {"resolved", "rejected", "closed"}
<1>1. resolutions[d] = <<>> /\ resolutions'[d] = <<a>>
  BY DEF D!TypeOK, D!ResolutionFree
<1>2. /\ Len(resolutions[d]) = 0 /\ Len(resolutions'[d]) = 1
      /\ case'[d] = to
      /\ \A e \in Disputes \ {d} :
            resolutions'[e] = resolutions[e] /\ case'[e] = case[e]
  BY <1>1 DEF D!TypeOK
<1> QED
  BY <1>1, <1>2 DEF D!ResolutionMatchesStatus

\* Every step leaves the resolutions and the statuses alone, moves a status
\* along an edge, or writes the first resolution of a dispute that it decides.
Decision(d, to, a) ==
    /\ D!ResolutionFree(d)
    /\ case' = [case EXCEPT ![d] = to]
    /\ resolutions' = [resolutions EXCEPT ![d] = Append(@, a)]

LEMMA DecisionStep ==
    ASSUME D!TypeOK, [D!Next]_(D!vars)
    PROVE  \/ UNCHANGED <<case, resolutions>>
           \/ \E d \in Disputes : StatusMove(d)
           \/ \E d \in Disputes, to \in {"resolved", "rejected"}, a \in Nat :
                 Decision(d, to, a)
<1> USE DEF D!moneyVars, D!recordVars
<1>1. ASSUME NEW d \in Disputes, D!Reject(d) PROVE Decision(d, "rejected", 0)
  BY <1>1 DEF D!Reject, Decision
<1>2. ASSUME NEW d \in Disputes, NEW a \in Nat, NEW owed \in Nat,
             D!Resolve(d, a, owed)
      PROVE  Decision(d, "resolved", a)
  BY <1>2 DEF D!Resolve, Decision
<1>3. ASSUME NEW w \in Workers, NEW a \in Entered, D!CommitUphold(w, a)
      PROVE  /\ desk[w].on \in Disputes /\ a \in Nat
             /\ Decision(desk[w].on, "resolved", a)
  BY <1>3, RequestRows, DeskAssumption DEF D!CommitUphold, Decision
<1>4. ASSUME NEW d \in Disputes, D!FailRefund(d)
      PROVE  UNCHANGED <<case, resolutions>>
  BY <1>4 DEF D!FailRefund
<1>5. ASSUME NEW c \in Chargebacks, D!ChargebackStep(c)
      PROVE  UNCHANGED <<case, resolutions>>
  BY <1>5, ChargebackMoves
<1>6. ASSUME NEW w \in Workers,
             \/ \E d \in Disputes : D!BeginConfirm(w, d) \/ D!BeginRetry(w, d)
             \/ \E c \in Chargebacks : D!BeginUphold(w, c)
             \/ D!SaveConfirm(w) \/ D!EndRetry(w) \/ D!FailUphold(w)
      PROVE  UNCHANGED <<case, resolutions>>
  BY <1>6
  DEF D!BeginConfirm, D!BeginRetry, D!BeginUphold, D!SaveConfirm, D!EndRetry, D!FailUphold
<1>7. CASE D!Settle \/ UNCHANGED D!vars
  BY <1>7 DEF D!Settle, D!vars
<1>8. ASSUME NEW d \in Disputes, D!DisputeStep(d)
      PROVE  \/ StatusMove(d) \/ D!Reject(d) \/ D!FailRefund(d)
             \/ \E a, owed \in Nat : D!Resolve(d, a, owed)
  BY <1>8, Resolutions DEF D!DisputeStep, StatusMove
<1> QED
  BY <1>1, <1>2, <1>3, <1>4, <1>5, <1>6, <1>7, <1>8 DEF D!Next, D!Finishing

LEMMA ResolutionsStep ==
    ASSUME D!TypeOK, D!ResolutionMatchesStatus, [D!Next]_(D!vars)
    PROVE  D!ResolutionMatchesStatus'
<1>1. CASE UNCHANGED <<case, resolutions>>
  BY <1>1 DEF D!ResolutionMatchesStatus
<1>2. ASSUME NEW d \in Disputes, StatusMove(d)
      PROVE  D!ResolutionMatchesStatus'
  BY <1>2, StatusMoves DEF D!ResolutionMatchesStatus, Edge, D!TypeOK
<1>3. ASSUME NEW d \in Disputes, NEW to \in {"resolved", "rejected"},
             NEW a \in Nat, Decision(d, to, a)
      PROVE  D!ResolutionMatchesStatus'
  BY <1>3, FirstResolution DEF Decision
<1> QED
  BY <1>1, <1>2, <1>3, DecisionStep

\* A dispute is opened when none is being reviewed.
LEMMA BeforeDecisionStep ==
    ASSUME D!TypeOK, D!OneBeforeDecision, [D!Next]_(D!vars)
    PROVE  D!OneBeforeDecision'
<1> USE DEF D!moneyVars, D!recordVars
<1>1. CASE UNCHANGED case
  BY <1>1 DEF D!OneBeforeDecision
<1>2. ASSUME NEW d \in Disputes, NEW to,
             case' = [case EXCEPT ![d] = to],
             to \in D!BeforeDecision => case[d] \in D!BeforeDecision
      PROVE  D!OneBeforeDecision'
  BY <1>2 DEF D!OneBeforeDecision, D!TypeOK
<1>3. ASSUME NEW d \in Disputes, D!OpenDispute(d) PROVE D!OneBeforeDecision'
  <2>1. \A e \in Disputes : case[e] \notin D!BeforeDecision
    BY <1>3 DEF D!OpenDispute, D!ActiveStatus, D!BeforeDecision
  <2> QED
    BY <1>3, <2>1 DEF D!OpenDispute, D!OneBeforeDecision, D!TypeOK
<1>4. ASSUME NEW d \in Disputes, StatusMove(d), ~D!OpenDispute(d)
      PROVE  D!OneBeforeDecision'
  <2>1. PICK to \in D!DisputeStatus : /\ Edge(case[d], to)
                                    /\ case' = [case EXCEPT ![d] = to]
    BY <1>4, StatusMoves
  <2>2. to \in D!BeforeDecision => case[d] \in D!BeforeDecision
    <3>1. case[d] # "none"
      BY <1>4
      DEF StatusMove, D!Respond, D!Cancel, D!StartReview, D!StartMediation, D!Propose,
          D!Close, D!Move
    <3> QED
      BY <2>1, <3>1 DEF Edge, D!BeforeDecision
  <2> QED
    BY <1>2, <2>1, <2>2
<1>5. ASSUME NEW d \in Disputes, NEW to \in {"resolved", "rejected"}, NEW a \in Nat,
             Decision(d, to, a)
      PROVE  D!OneBeforeDecision'
  BY <1>2, <1>5 DEF Decision, D!BeforeDecision
<1> QED
  BY <1>1, <1>3, <1>4, <1>5, DecisionStep

\* A refund is recorded by the resolution of its dispute alone; later steps only
\* move the status of the record.
LEMMA RefundStep ==
    ASSUME D!TypeOK, D!RefundsStay, [D!Next]_(D!vars)
    PROVE  \/ /\ UNCHANGED <<refund, client>>
              /\ \/ UNCHANGED <<case, resolutions>>
                 \/ \E d \in Disputes : StatusMove(d)
                 \/ \E d \in Disputes, to \in {"resolved", "rejected"}, a \in Nat :
                       Decision(d, to, a)
           \/ /\ UNCHANGED <<case, resolutions, client>>
              /\ \E d \in Disputes, s \in D!RefundStatus \ {"none"} :
                    /\ refund[d].status # "none"
                    /\ refund' = [refund EXCEPT ![d].status = s]
           \/ \E d \in Disputes, a, owed \in Nat : D!Resolve(d, a, owed)
<1> USE DEF D!moneyVars, D!recordVars
<1>1. ASSUME NEW d \in Disputes, D!DisputeStep(d)
      PROVE  \/ StatusMove(d) \/ D!Reject(d) \/ D!FailRefund(d)
             \/ \E a, owed \in Nat : D!Resolve(d, a, owed)
  BY <1>1, Resolutions DEF D!DisputeStep, StatusMove
<1>2. ASSUME NEW d \in Disputes, StatusMove(d) PROVE UNCHANGED <<refund, client>>
  BY <1>2, StatusMoves
<1>3. ASSUME NEW d \in Disputes, D!Reject(d)
      PROVE  UNCHANGED <<refund, client>> /\ Decision(d, "rejected", 0)
  BY <1>3 DEF D!Reject, Decision
<1>4. ASSUME NEW d \in Disputes, D!FailRefund(d)
      PROVE  /\ UNCHANGED <<case, resolutions, client>>
             /\ refund[d].status # "none"
             /\ refund' = [refund EXCEPT ![d].status = "failed"]
  BY <1>4 DEF D!FailRefund
<1>5. ASSUME NEW c \in Chargebacks, D!ChargebackStep(c)
      PROVE  UNCHANGED <<refund, client, case, resolutions>>
  BY <1>5, ChargebackMoves
<1>6. ASSUME NEW w \in Workers, NEW d \in Disputes, D!BeginConfirm(w, d)
      PROVE  UNCHANGED <<refund, client, case, resolutions>>
  BY <1>6 DEF D!BeginConfirm
<1>7. ASSUME NEW w \in Workers, NEW d \in Disputes, D!BeginRetry(w, d)
      PROVE  /\ UNCHANGED <<case, resolutions, client>>
             /\ refund[d].status # "none"
             /\ refund' = [refund EXCEPT ![d].status = "processing"]
  BY <1>7 DEF D!BeginRetry
<1>8. ASSUME NEW w \in Workers, D!SaveConfirm(w) \/ D!EndRetry(w)
      PROVE  /\ UNCHANGED <<case, resolutions, client>>
             /\ desk[w].on \in Disputes /\ refund[desk[w].on].status # "none"
             /\ \E s \in D!RefundStatus \ {"none"} :
                   refund' = [refund EXCEPT ![desk[w].on].status = s]
  <2>1. desk[w].on \in Disputes /\ refund[desk[w].on].status # "none"
    BY <1>8, RequestRows DEF D!SaveConfirm, D!EndRetry, D!RefundsStay
  <2> QED
    BY <1>8, <2>1 DEF D!SaveConfirm, D!EndRetry, D!AfterRetry, D!RefundStatus
<1>9. ASSUME NEW w \in Workers,
             (\E c \in Chargebacks : D!BeginUphold(w, c)) \/ D!FailUphold(w)
      PROVE  UNCHANGED <<refund, client, case, resolutions>>
  BY <1>9 DEF D!BeginUphold, D!FailUphold
<1>10. ASSUME NEW w \in Workers, NEW a \in Entered, D!CommitUphold(w, a)
       PROVE  /\ UNCHANGED <<refund, client>>
              /\ desk[w].on \in Disputes /\ a \in Nat
              /\ Decision(desk[w].on, "resolved", a)
  BY <1>10, RequestRows, DeskAssumption DEF D!CommitUphold, Decision
<1>11. CASE D!Settle \/ UNCHANGED D!vars
  BY <1>11 DEF D!Settle, D!vars
<1>12. {"failed", "processing"} \subseteq D!RefundStatus \ {"none"}
  BY DEF D!RefundStatus
<1>13. CASE \E d \in Disputes : D!DisputeStep(d)
  BY <1>1, <1>2, <1>3, <1>4, <1>12, <1>13
<1>14. CASE \E w \in Workers, d \in Disputes : D!BeginConfirm(w, d) \/ D!BeginRetry(w, d)
  BY <1>6, <1>7, <1>12, <1>14
<1>15. CASE \E w \in Workers : D!Finishing(w)
  BY <1>8, <1>9, <1>10, <1>15 DEF D!Finishing
<1> QED
  BY <1>5, <1>9, <1>11, <1>13, <1>14, <1>15 DEF D!Next

\* What a resolution records.
LEMMA ResolveRefund ==
    ASSUME D!IInv, NEW d \in Disputes, NEW a \in Nat, NEW owed \in Nat,
           D!Resolve(d, a, owed)
    PROVE  /\ Decision(d, "resolved", a)
           /\ \A e \in Disputes \ {d} : refund'[e] = refund[e]
           /\ \/ UNCHANGED <<refund, client>>
              \/ /\ refund'[d].status = "completed"
                 /\ refund'[d].moved <= refund'[d].amount
                 /\ refund'[d].amount <= a
<1> DEFINE moved == D!AtMost(a, IF settled THEN technician ELSE held)
<1>1. moved \in Nat /\ moved <= a
  BY MovedAmount DEF D!IInv
<1>2. a = 0 => moved = 0
  BY <1>1
<1> HIDE DEF moved
<1>3. Decision(d, "resolved", a)
  BY DEF D!Resolve, Decision
<1>4. /\ client' = client + moved
      /\ refund' = IF a = 0 THEN refund
                   ELSE [refund EXCEPT ![d] =
                            [status |-> "completed", moved |-> moved,
                             amount |-> IF settled THEN a ELSE moved]]
  BY DEF D!Resolve, moved
<1>5. CASE a = 0
  <2>1. client \in Nat
    BY DeskAssumption DEF D!IInv, D!TypeOK
  <2> QED
    BY <1>2, <1>3, <1>4, <1>5, <2>1
<1>6. CASE a # 0
  <2>1. refund' = [refund EXCEPT ![d] =
                      [status |-> "completed", moved |-> moved,
                       amount |-> IF settled THEN a ELSE moved]]
    BY <1>4, <1>6
  <2>2. /\ refund'[d] = [status |-> "completed", moved |-> moved,
                         amount |-> IF settled THEN a ELSE moved]
        /\ \A e \in Disputes \ {d} : refund'[e] = refund[e]
    BY <2>1 DEF D!IInv, D!TypeOK
  <2> QED
    BY <1>1, <1>3, <2>2
<1> QED
  BY <1>5, <1>6

LEMMA RefundsAreResolvedStep ==
    ASSUME D!IInv, [D!Next]_(D!vars)
    PROVE  D!RefundsAreResolved'
<1> D!TypeOK /\ D!ResolutionMatchesStatus /\ D!RefundsAreResolved /\ D!RefundsStay
  BY DEF D!IInv
<1>1. CASE UNCHANGED <<refund, client, case, resolutions>>
  BY <1>1 DEF D!RefundsAreResolved
<1>2. ASSUME UNCHANGED <<refund, client>>, NEW d \in Disputes, StatusMove(d)
      PROVE  D!RefundsAreResolved'
  <2>1. PICK to : /\ Edge(case[d], to)
                  /\ case' = [case EXCEPT ![d] = to]
                  /\ UNCHANGED resolutions
    BY <1>2, StatusMoves
  <2>2. case[d] \in {"resolved", "closed"} => to = "closed"
    BY <2>1 DEF Edge
  <2>3. \A e \in Disputes : case[e] \in {"resolved", "closed"}
                                => case'[e] \in {"resolved", "closed"}
    BY <2>1, <2>2 DEF D!TypeOK
  <2> QED
    BY <1>2, <2>1, <2>3 DEF D!RefundsAreResolved
\* A dispute that is decided had no refund yet.
<1>3. ASSUME NEW d \in Disputes, NEW to \in {"resolved", "rejected"}, NEW a \in Nat,
             Decision(d, to, a)
      PROVE  /\ refund[d] = D!NoRefund
             /\ resolutions'[d] = <<a>> /\ case'[d] = to
             /\ \A e \in Disputes \ {d} :
                   resolutions'[e] = resolutions[e] /\ case'[e] = case[e]
  <2>1. /\ resolutions'[d] = <<a>>
        /\ \A e \in Disputes \ {d} : resolutions'[e] = resolutions[e]
        /\ case[d] \notin {"resolved", "rejected", "closed"}
    BY <1>3, FirstResolution DEF Decision
  <2> QED
    BY <1>3, <2>1 DEF Decision, D!RefundsAreResolved, D!TypeOK
<1>4. ASSUME UNCHANGED <<refund, client>>, NEW d \in Disputes,
             NEW to \in {"resolved", "rejected"}, NEW a \in Nat, Decision(d, to, a)
      PROVE  D!RefundsAreResolved'
  BY <1>3, <1>4 DEF D!RefundsAreResolved
<1>5. ASSUME UNCHANGED <<case, resolutions, client>>, NEW d \in Disputes,
             NEW s \in D!RefundStatus \ {"none"}, refund[d].status # "none",
             refund' = [refund EXCEPT ![d].status = s]
      PROVE  D!RefundsAreResolved'
  <2>1. refund[d] # D!NoRefund
    BY <1>5 DEF D!NoRefund
  <2>2. \A e \in Disputes : /\ refund'[e].moved = refund[e].moved
                            /\ refund'[e].amount = refund[e].amount
                            /\ e # d => refund'[e] = refund[e]
    BY <1>5 DEF D!TypeOK, D!RefundRecord
  <2>3. \A e \in Disputes : refund'[e] # D!NoRefund => refund[e] # D!NoRefund
    BY <2>1, <2>2
  <2>4. refund'[d] # D!NoRefund
    <3>1. refund'[d].status = s
      BY <1>5 DEF D!TypeOK, D!RefundRecord
    <3> QED
      BY <1>5, <3>1 DEF D!NoRefund
  <2> QED
    BY <1>5, <2>2, <2>3, <2>4 DEF D!RefundsAreResolved
<1>6. ASSUME NEW d \in Disputes, NEW a \in Nat, NEW owed \in Nat, D!Resolve(d, a, owed)
      PROVE  D!RefundsAreResolved'
  <2>1. /\ Decision(d, "resolved", a)
        /\ \A e \in Disputes \ {d} : refund'[e] = refund[e]
        /\ \/ UNCHANGED <<refund, client>>
           \/ /\ refund'[d].status = "completed"
              /\ refund'[d].moved <= refund'[d].amount
              /\ refund'[d].amount <= a
    BY <1>6, ResolveRefund
  <2>2. CASE UNCHANGED <<refund, client>>
    BY <1>4, <2>1, <2>2
  <2>3. CASE /\ refund'[d].status = "completed"
             /\ refund'[d].moved <= refund'[d].amount
             /\ refund'[d].amount <= a
    <3>1. refund'[d] # D!NoRefund
      BY <2>3 DEF D!NoRefund
    <3> QED
      BY <1>3, <2>1, <2>3, <3>1 DEF D!RefundsAreResolved
  <2> QED
    BY <2>1, <2>2, <2>3
<1> QED
  BY <1>1, <1>2, <1>4, <1>5, <1>6, RefundStep

\* A request on a refund finds a record, which stays.
LEMMA RefundsStayStep ==
    ASSUME D!IInv, [D!Next]_(D!vars)
    PROVE  D!RefundsStay'
<1> USE DEF D!moneyVars, D!recordVars
<1> D!TypeOK /\ D!RefundsStay
  BY DEF D!IInv
<1> DEFINE Record(d) == /\ refund'[d].status = "none" => refund'[d] = D!NoRefund
                        /\ refund[d].status # "none" => refund'[d].status # "none"
\* The records.
<1>1. \A d \in Disputes : Record(d)
  <2>1. CASE UNCHANGED refund
    BY <2>1 DEF D!RefundsStay
  <2>2. ASSUME NEW d \in Disputes, NEW s \in D!RefundStatus \ {"none"},
               refund[d].status # "none",
               refund' = [refund EXCEPT ![d].status = s]
        PROVE  \A e \in Disputes : Record(e)
    <3>1. refund'[d].status = s /\ \A e \in Disputes \ {d} : refund'[e] = refund[e]
      BY <2>2 DEF D!TypeOK, D!RefundRecord
    <3> QED
      BY <2>2, <3>1 DEF D!RefundsStay
  <2>3. ASSUME NEW d \in Disputes, NEW a \in Nat, NEW owed \in Nat,
               D!Resolve(d, a, owed)
        PROVE  \A e \in Disputes : Record(e)
    BY <2>3, ResolveRefund DEF D!RefundsStay
  <2> QED
    BY <2>1, <2>2, <2>3, RefundStep
\* The requests.
<1>2. ASSUME NEW w \in Workers,
             desk'[w] = desk[w] \/ desk'[w] = D!NoRequest \/ desk'[w].op = "uphold"
                 \/ /\ desk'[w].on \in Disputes
                    /\ refund[desk'[w].on].status # "none"
      PROVE  D!InFlight(w, "confirm")' \/ D!InFlight(w, "retry")'
                 => refund'[desk'[w].on].status # "none"
  <2> SUFFICES ASSUME desk'[w].op \in {"confirm", "retry"}
               PROVE  refund'[desk'[w].on].status # "none"
    BY DEF D!InFlight
  <2>1. desk'[w] # D!NoRequest /\ desk'[w].op # "uphold"
    BY DEF D!NoRequest
  <2>2. CASE desk'[w] = desk[w]
    <3>1. desk[w].on \in Disputes /\ refund[desk[w].on].status # "none"
      BY <2>2, RequestRows DEF D!InFlight, D!RefundsStay
    <3> QED
      BY <1>1, <2>2, <3>1
  <2> QED
    BY <1>1, <1>2, <2>1, <2>2
<1>3. ASSUME NEW w \in Workers
      PROVE  \/ desk'[w] = desk[w] \/ desk'[w] = D!NoRequest \/ desk'[w].op = "uphold"
             \/ /\ desk'[w].on \in Disputes
                /\ refund[desk'[w].on].status # "none"
  <2>1. CASE UNCHANGED desk
    BY <2>1
  <2>2. ASSUME NEW v \in Workers, D!Finish(v)
        PROVE  desk'[w] = desk[w] \/ desk'[w] = D!NoRequest
    BY <2>2, DeskFinishType
  <2>3. ASSUME NEW v \in Workers, NEW d \in Disputes,
               D!BeginConfirm(v, d) \/ D!BeginRetry(v, d)
        PROVE  \/ desk'[w] = desk[w]
               \/ desk'[w].on = d /\ refund[d].status # "none"
    BY <2>3 DEF D!BeginConfirm, D!BeginRetry, D!TypeOK
  <2>4. ASSUME NEW v \in Workers, NEW c \in Chargebacks, D!BeginUphold(v, c)
        PROVE  desk'[w] = desk[w] \/ desk'[w].op = "uphold"
    BY <2>4 DEF D!BeginUphold, D!TypeOK
  <2>5. ASSUME NEW d \in Disputes, D!DisputeStep(d) PROVE UNCHANGED desk
    <3>1. \/ StatusMove(d) \/ D!Reject(d) \/ D!FailRefund(d)
          \/ \E a, owed \in Nat : D!Resolve(d, a, owed)
      BY <2>5, Resolutions DEF D!DisputeStep, StatusMove
    <3>2. StatusMove(d) => UNCHANGED desk
      BY StatusMoves
    <3> QED
      BY <3>1, <3>2 DEF D!Reject, D!FailRefund, D!Resolve
  <2>6. ASSUME NEW c \in Chargebacks, D!ChargebackStep(c) PROVE UNCHANGED desk
    BY <2>6, ChargebackMoves
  <2>7. CASE D!Settle \/ UNCHANGED D!vars
    BY <2>7 DEF D!Settle, D!vars
  <2>8. ASSUME NEW v \in Workers, D!Finishing(v) PROVE D!Finish(v)
    BY <2>8 DEF D!Finishing, D!SaveConfirm, D!EndRetry, D!CommitUphold, D!FailUphold
  <2> QED
    BY <2>1, <2>2, <2>3, <2>4, <2>5, <2>6, <2>7, <2>8 DEF D!Next
<1> HIDE DEF Record
<1>4. \A w \in Workers :
          D!InFlight(w, "confirm")' \/ D!InFlight(w, "retry")'
              => refund'[desk'[w].on].status # "none"
  BY <1>2, <1>3
<1> QED
  BY <1>1, <1>4 DEF D!RefundsStay, Record

\* Only the settlement and resolutions move money; the settlement pays what it
\* owes, of which refunds have taken less than the principal.
LEMMA MoneyStep ==
    ASSUME D!TypeOK, D!MoneyAddsUp, [D!Next]_(D!vars)
    PROVE  D!MoneyAddsUp'
<1> USE DEF D!moneyVars, D!recordVars
<1>1. CASE UNCHANGED D!moneyVars
  BY <1>1 DEF D!MoneyAddsUp
<1>2. CASE D!Settle
  <2>1. /\ held \in Nat /\ held > 0 /\ client \in Nat
        /\ technician = Savings /\ held + client = Principal
        /\ settled' /\ held' = 0 /\ client' = client
        /\ technician' = technician + TechnicianNet
    BY <1>2 DEF D!Settle, D!TypeOK, D!MoneyAddsUp
  <2> QED
    BY <2>1, DeskAssumption DEF D!MoneyAddsUp
<1>3. ASSUME NEW d \in Disputes, D!DisputeStep(d) PROVE D!MoneyAddsUp'
  <2>1. \/ StatusMove(d) \/ D!Reject(d) \/ D!FailRefund(d)
        \/ \E a, owed \in Nat : D!Resolve(d, a, owed)
    BY <1>3, Resolutions DEF D!DisputeStep, StatusMove
  <2>2. StatusMove(d) \/ D!Reject(d) \/ D!FailRefund(d)
           => UNCHANGED D!moneyVars
    BY StatusMoves DEF D!Reject, D!FailRefund
  <2> QED
    BY <1>1, <2>1, <2>2, ResolveMoney
<1>4. ASSUME NEW c \in Chargebacks, D!ChargebackStep(c)
      PROVE  UNCHANGED D!moneyVars
  BY <1>4, ChargebackMoves
<1>5. ASSUME NEW w \in Workers,
             \/ \E d \in Disputes : D!BeginConfirm(w, d) \/ D!BeginRetry(w, d)
             \/ \E c \in Chargebacks : D!BeginUphold(w, c)
             \/ D!Finishing(w)
      PROVE  UNCHANGED D!moneyVars
  BY <1>5
  DEF D!BeginConfirm, D!BeginRetry, D!BeginUphold, D!Finishing, D!SaveConfirm,
      D!EndRetry, D!CommitUphold, D!FailUphold
<1> QED
  BY <1>1, <1>2, <1>3, <1>4, <1>5 DEF D!Next, D!vars

\* Every step keeps the inductive invariant.
LEMMA DeskInvStep ==
    ASSUME D!IInv, [D!Next]_(D!vars)
    PROVE  D!IInv'
<1> D!MoneyAddsUp'
  BY MoneyStep DEF D!IInv
<1>1. D!TypeOK' /\ D!ResolutionMatchesStatus' /\ D!OneBeforeDecision'
  BY DeskTypeStep, ResolutionsStep, BeforeDecisionStep DEF D!IInv
<1> QED
  BY <1>1, RefundsStayStep, RefundsAreResolvedStep DEF D!IInv

LEMMA DeskInvInit == D!Init => D!IInv
<1> SUFFICES ASSUME D!Init PROVE D!IInv
  OBVIOUS
<1>1. D!TypeOK
  <2>1. {held, technician, client} \subseteq Nat
    BY DeskAssumption DEF D!Init
  <2>2. resolutions \in [Disputes -> Seq(Nat)] /\ liability \in [Disputes -> Seq(Nat)]
    <3>1. <<>> \in Seq(Nat)
      OBVIOUS
    <3> QED
      BY <3>1 DEF D!Init
  <2>3. refund \in [Disputes -> D!RefundRecord]
    BY DEF D!Init, D!NoRefund, D!RefundRecord, D!RefundStatus
  <2>4. chargeback \in [Chargebacks -> D!ChargebackEvent]
    BY DEF D!Init, D!NoChargeback, D!ChargebackEvent, D!ChargebackStatus
  <2> QED
    BY <2>1, <2>2, <2>3, <2>4 DEF D!Init, D!TypeOK, D!DisputeStatus, D!Request
<1>2. D!ResolutionMatchesStatus
  BY DEF D!Init, D!ResolutionMatchesStatus
<1>3. D!OneBeforeDecision
  BY DEF D!Init, D!OneBeforeDecision, D!BeforeDecision
<1>4. D!RefundsStay /\ D!RefundsAreResolved
  BY DEF D!Init, D!RefundsStay, D!RefundsAreResolved, D!InFlight, D!NoRequest
<1>5. D!MoneyAddsUp
  BY DeskAssumption DEF D!Init, D!MoneyAddsUp
<1> QED
  BY <1>1, <1>2, <1>3, <1>4, <1>5 DEF D!IInv

\* The inductive invariant of the desk holds in every state, since the contract
\* does not move: DeskInvInit and DeskInvStep.
THEOREM DeskInvariance == DeskSpec => []D!IInv
<1>1. DeskInit => D!IInv
  BY DeskInvInit DEF DeskInit
<1>2. D!IInv /\ [DeskNext]_<<deskVars, allVars>> => D!IInv'
  <2>1. [DeskNext]_<<deskVars, allVars>> => [D!Next]_(D!vars)
    BY DEF DeskNext, deskVars, D!vars, D!moneyVars, D!recordVars
  <2> QED
    BY <2>1, DeskInvStep
<1> QED
  BY <1>1, <1>2, PTL DEF DeskSpec

\* The desk's records are well formed; before the settlement every dinar is in
\* escrow or with the client, and the settlement, which pays the technician's net
\* amount whatever refunds have left, overpays by no more than those refunds
\* (_execute_refund, settle_completed_contract).
THEOREM DeskMoney == DeskSpec => []DeskMoneyAddsUp
<1>1. D!IInv => DeskMoneyAddsUp
  BY DEF D!IInv, DeskMoneyAddsUp
<1> QED
  BY <1>1, DeskInvariance, PTL

\* A dispute has its one resolution exactly when it is decided, and a contract at
\* most one dispute under review, although the upholding of a chargeback decides
\* a dispute that it did not lock (sandbox_uphold_chargeback, resolve_dispute).
THEOREM ResolutionsAgreeAlways == DeskSpec => []ResolutionsAgree
<1>1. \A T : D!Cardinality(T) = Cardinality(T)
  BY DEF D!Cardinality, Cardinality, D!IsFiniteSet, IsFiniteSet
<1>2. D!IInv => ResolutionsAgree
  <2> SUFFICES ASSUME D!IInv PROVE D!OneUnderReview
    BY DEF D!IInv, ResolutionsAgree, D!ResolutionsAgree
  <2>1. CASE D!UnderReview = {}
    BY <1>1, <2>1, FS_EmptySet DEF D!OneUnderReview
  <2>2. ASSUME NEW d \in D!UnderReview PROVE D!OneUnderReview
    <3>1. D!UnderReview = {d}
      BY <2>2 DEF D!IInv, D!OneBeforeDecision, D!BeforeDecision, D!UnderReview
    <3> QED
      BY <1>1, <3>1, FS_Singleton DEF D!OneUnderReview
  <2> QED
    BY <2>1, <2>2
<1> QED
  BY <1>2, DeskInvariance, PTL

\* Money comes back to the client only with the record of a resolution of at
\* least that amount: retries, confirmations and chargebacks move none
\* (_execute_refund, AdminRefundRetryView, sandbox_uphold_chargeback).
THEOREM RefundsResolved == DeskSpec => []RefundsAreResolved
<1>1. D!IInv => RefundsAreResolved
  BY DEF D!IInv, RefundsAreResolved
<1> QED
  BY <1>1, DeskInvariance, PTL
=============================================================================
