----------------------------- MODULE Dealership -----------------------------
(***************************************************************************)
(* One dealership: the recharges it sells to clients against its           *)
(* guarantees, the cash-outs it pays them, and its settlements with the    *)
(* platform.  The exposure and the capacity are summed from the committed  *)
(* rows without a lock on the dealership; only a client's wallet is locked.*)
(***************************************************************************)
EXTENDS Integers, Sequences, FiniteSetsExt, Functions

CONSTANTS
    Requests,         \* concurrent recharges, cash-outs and confirmations
    Clients,
    Guarantees,
    RechargeAmounts,  \* amounts a caller may name, of any sign
    CashoutAmounts,
    Keys,             \* idempotency keys of recharges
    InitialBalance,   \* of each client's wallet
    GuaranteeLimit,   \* usable credit limit that one verified guarantee adds
    SingleLimit,      \* single_cashout_limit, zero when there is none
    DailyLimit,       \* daily_cashout_limit, zero when there is none
    FeePercent,
    MinFee,
    MaxFee,
    MaxRecharges,     \* bounds of the model
    MaxCashouts,
    MaxSettlements

\* Only a cash-out's amount is tested to be positive, not a recharge's; what a
\* guarantee is worth is entered by staff.
ASSUME AmountsAssumption ==
    /\ RechargeAmounts \subseteq Int /\ CashoutAmounts \subseteq Nat
    /\ InitialBalance \in Nat /\ GuaranteeLimit \in Nat
    /\ FeePercent \in Int /\ MinFee \in Int /\ MaxFee \in Int

ASSUME PartiesAssumption == IsFiniteSet(Clients) /\ IsFiniteSet(Guarantees)

VARIABLES
    profile,      \* is_operational and financially_locked of the profile
    guarantee,    \* status of each guarantee, "none" before it exists
    wallet,       \* balance of each client
    recharges,    \* completed recharges, in order
    cashouts,
    settlements,
    ledger,       \* sums of the ledger's entries, by kind
    work,         \* what each request has read
    excused       \* history: what has happened that may break a sum or a limit

rows == <<recharges, cashouts, settlements>>
vars == <<profile, guarantee, wallet, rows, ledger, work, excused>>

Total(list, amount(_)) == SumFunction([i \in DOMAIN list |-> amount(list[i])])

-----------------------------------------------------------------------------
(* Fees: amounts are whole units and a half rounds away from zero.         *)

Percent(n) ==
    LET share == n * FeePercent
    IN  IF share >= 0 THEN (share + 50) \div 100 ELSE -((50 - share) \div 100)
Capped(fee) == Min({MaxFee, Max({MinFee, fee})})

\* calculate_recharge_fee: what the client pays, receives and is charged.
Terms(mode, amount) ==
    LET fee == Capped(Percent(amount))
    IN  IF mode = "added_on_top"
        THEN [cash |-> amount + fee, credit |-> amount, fee |-> fee]
        ELSE [cash |-> amount, credit |-> Max({0, amount - fee}), fee |-> fee]

-----------------------------------------------------------------------------
(* The sums.                                                               *)

Limit == GuaranteeLimit * Cardinality({g \in Guarantees : guarantee[g] = "verified"})

Settled(direction) ==
    Total(settlements, LAMBDA s : IF s.status = "completed" /\ s.direction = direction
                                  THEN s.net ELSE 0)

\* The formula of calculate_net_exposure's docstring.
DocumentedExposure ==
    Total(recharges, LAMBDA r : r.credit)
      - Total(cashouts, LAMBDA c : IF c.status = "completed" THEN c.amount ELSE 0)
      - Settled("to platform") - Settled("from platform")

NetExposure ==
    Total(recharges, LAMBDA r : r.credit)
      - Total(cashouts, LAMBDA c : IF c.status = "completed" THEN c.amount ELSE 0)
      - Settled("to platform") + Settled("from platform")

FitsAlone(credit, net, limit) == credit <= limit
Fits(credit, net, limit) == credit <= limit - net

ReachesPast(credit, net, limit) == limit <= 0 \/ net + credit > limit
ReachesLimit(credit, net, limit) == limit <= 0 \/ net + credit >= limit

\* _update_financial_lock_after_cashout, with the lock flag the caller holds
\* and the exposure once its own row is saved.
LockAfter(held, net) == IF held /\ Limit > 0 /\ net < Limit THEN FALSE ELSE profile.locked

-----------------------------------------------------------------------------
Idle == [op |-> "idle"]

Init ==
    /\ profile = [operational |-> FALSE, locked |-> FALSE]
    /\ guarantee = [g \in Guarantees |-> "none"]
    /\ wallet = [c \in Clients |-> InitialBalance]
    /\ recharges = <<>>
    /\ cashouts = <<>>
    /\ settlements = <<>>
    /\ ledger = [recharged |-> 0, paidOut |-> 0, settled |-> 0]
    /\ work = [r \in Requests |-> Idle]
    /\ excused = {}

\* The request ends with an error: its transaction leaves nothing behind.
Rollback(r) ==
    /\ work' = [work EXCEPT ![r] = Idle]
    /\ UNCHANGED <<profile, guarantee, wallet, rows, ledger, excused>>

\* create_cashout holds the client's wallet from its test to its commit.
WalletFree(c) == \A r \in Requests : work[r].op = "cashout checked" => work[r].client # c

-----------------------------------------------------------------------------
(* Recharges.                                                              *)

\* create_recharge's tests of the profile that the view fetched.
BeginRecharge(r, c, mode, amount, key) ==
    /\ work[r] = Idle
    /\ Len(recharges) < MaxRecharges
    /\ profile.operational
    /\ ~profile.locked
    /\ work' = [work EXCEPT ![r] = [op |-> "recharge", client |-> c, key |-> key,
                                    terms |-> Terms(mode, amount)]]
    /\ UNCHANGED <<profile, guarantee, wallet, rows, ledger, excused>>

KeyIgnored(key) == TRUE
KeyFree(key) == \A i \in DOMAIN recharges : recharges[i].key # key

\* The look-up of the key and the tests of the capacity.
CheckRecharge(r) ==
    LET w == work[r]
    IN  /\ w.op = "recharge"
        /\ IF KeyFree(w.key) /\ Fits(w.terms.credit, NetExposure, Limit)
           THEN work' = [work EXCEPT ![r] =
                    [op |-> "recharge checked", client |-> w.client, key |-> w.key,
                     terms |-> w.terms, room |-> Limit - NetExposure,
                     lock |-> ReachesLimit(w.terms.credit, NetExposure, Limit)]]
           ELSE work' = [work EXCEPT ![r] = Idle]
        /\ UNCHANGED <<profile, guarantee, wallet, rows, ledger, excused>>

EnteredCash(terms) == terms.cash
Entered(terms) == terms.credit

\* Wallet.save raises an error rather than store a negative balance: a recharge
\* may name a negative amount.
AnyBalance(balance) == TRUE
Storable(balance) == balance >= 0

Creditable(w) == Storable(wallet[w.client] + w.terms.credit)

\* The insert, refused by the unique key, the locked wallet, the ledger entry
\* and the lock that was decided before.
CommitRecharge(r) ==
    LET w == work[r]
    IN  /\ w.op = "recharge checked"
        /\ WalletFree(w.client)
        /\ Len(recharges) < MaxRecharges
        /\ KeyFree(w.key)
        /\ Creditable(w)
        /\ recharges' = Append(recharges, [key |-> w.key, credit |-> w.terms.credit])
        /\ wallet' = [wallet EXCEPT ![w.client] = @ + w.terms.credit]
        /\ ledger' = [ledger EXCEPT !.recharged = @ + Entered(w.terms)]
        /\ profile' = [profile EXCEPT !.locked = @ \/ w.lock]
        /\ work' = [work EXCEPT ![r] = Idle]
        /\ excused' = excused \union (IF Limit - NetExposure < w.room THEN {"limit"} ELSE {})
        /\ UNCHANGED <<guarantee, cashouts, settlements>>

RefuseRecharge(r) ==
    /\ work[r].op = "recharge checked"
    /\ KeyFree(work[r].key) => WalletFree(work[r].client) /\ ~Creditable(work[r])
    /\ Rollback(r)

-----------------------------------------------------------------------------
(* Cash-outs.                                                              *)

UnderWay == {r \in Requests : work[r].op \in {"cashout", "cashout checked"}}

BeginCashout(r, c, amount) ==
    /\ work[r] = Idle
    /\ Len(cashouts) + Cardinality(UnderWay) < MaxCashouts
    /\ profile.operational
    /\ work' = [work EXCEPT ![r] = [op |-> "cashout", client |-> c, amount |-> amount]]
    /\ UNCHANGED <<profile, guarantee, wallet, rows, ledger, excused>>

UsedToday ==
    Total(cashouts, LAMBDA c : IF c.status \in {"completed", "code_issued"}
                               THEN c.amount ELSE 0)

\* A limit of zero is no limit.
Within(limit, amount) == limit = 0 \/ amount <= limit

\* create_cashout up to the insert, the wallet locked.
CheckCashout(r) ==
    LET w == work[r]
    IN  /\ w.op = "cashout"
        /\ WalletFree(w.client)
        /\ IF /\ w.amount <= wallet[w.client]
              /\ Within(SingleLimit, w.amount)
              /\ Within(DailyLimit, UsedToday + w.amount)
           THEN work' = [work EXCEPT ![r].op = "cashout checked"]
           ELSE work' = [work EXCEPT ![r] = Idle]
        /\ UNCHANGED <<profile, guarantee, wallet, rows, ledger, excused>>

CommitCashout(r) ==
    LET w == work[r]
    IN  /\ w.op = "cashout checked"
        /\ cashouts' = Append(cashouts, [client |-> w.client, amount |-> w.amount,
                                         status |-> "code_issued", fresh |-> TRUE])
        /\ work' = [work EXCEPT ![r] = Idle]
        /\ UNCHANGED <<profile, guarantee, wallet, recharges, settlements, ledger, excused>>

\* The confirmation view fetches the cash-out and, to verify the code, the
\* profile; confirm_cashout tests what was fetched.
BeginConfirm(r, k) ==
    /\ work[r] = Idle
    /\ cashouts[k].status = "code_issued"
    /\ cashouts[k].fresh
    /\ profile.operational
    /\ work' = [work EXCEPT ![r] = [op |-> "confirm", cashout |-> k, held |-> profile.locked]]
    /\ UNCHANGED <<profile, guarantee, wallet, rows, ledger, excused>>

Affordable(c) == c.amount <= wallet[c.client]

\* The tests made with the wallet locked; Wallet.save's test follows from them.
MayConfirm(c) == c.fresh /\ Affordable(c)

CommitConfirm(r) ==
    LET k == work[r].cashout
        c == cashouts[k]
        net == NetExposure - (IF c.status = "completed" THEN 0 ELSE c.amount)
    IN  /\ work[r].op = "confirm"
        /\ WalletFree(c.client)
        /\ MayConfirm(c)
        /\ wallet' = [wallet EXCEPT ![c.client] = @ - c.amount]
        /\ cashouts' = [cashouts EXCEPT ![k].status = "completed"]
        /\ ledger' = [ledger EXCEPT !.paidOut = @ + c.amount]
        /\ profile' = [profile EXCEPT !.locked = LockAfter(work[r].held, net)]
        /\ work' = [work EXCEPT ![r] = Idle]
        /\ excused' = excused \union (IF c.status = "completed" THEN {"drift"} ELSE {})
        /\ UNCHANGED <<guarantee, recharges, settlements>>

\* Saving EXPIRED or CANCELLED is undone by the error that follows it.
RefuseConfirm(r) ==
    /\ work[r].op = "confirm"
    /\ ~MayConfirm(cashouts[work[r].cashout])
    /\ Rollback(r)

CodeRunsOut(k) ==
    /\ cashouts[k].fresh
    /\ cashouts' = [cashouts EXCEPT ![k].fresh = FALSE]
    /\ UNCHANGED <<profile, guarantee, wallet, recharges, settlements, ledger, work, excused>>

\* expire_old_cashout_codes_task
ExpireCodes ==
    LET late(c) == c.status = "code_issued" /\ ~c.fresh
    IN  /\ \E i \in DOMAIN cashouts : late(cashouts[i])
        /\ cashouts' = [i \in DOMAIN cashouts |->
                          IF late(cashouts[i]) THEN [cashouts[i] EXCEPT !.status = "expired"]
                          ELSE cashouts[i]]
        /\ UNCHANGED <<profile, guarantee, wallet, recharges, settlements, ledger,
                       work, excused>>

-----------------------------------------------------------------------------
(* Settlements.                                                            *)

PeriodNet ==
    Total(recharges, LAMBDA r : r.credit)
      - Total(cashouts, LAMBDA c : IF c.status = "completed" THEN c.amount ELSE 0)

\* generate_settlement for a period that holds every row there is.
GenerateSettlement ==
    /\ Len(settlements) < MaxSettlements
    /\ settlements' = Append(settlements,
          [status |-> "draft", net |-> Max({PeriodNet, -PeriodNet}),
           direction |-> IF PeriodNet > 0 THEN "to platform"
                         ELSE IF PeriodNet < 0 THEN "from platform" ELSE "zero"])
    /\ UNCHANGED <<profile, guarantee, wallet, recharges, cashouts, ledger, work, excused>>

BeginComplete(r, s) ==
    /\ work[r] = Idle
    /\ settlements[s].status = "draft"
    /\ work' = [work EXCEPT ![r] = [op |-> "complete", settlement |-> s]]
    /\ UNCHANGED <<profile, guarantee, wallet, rows, ledger, excused>>

\* complete_settlement: its docstring says "unlocks or locks", it only unlocks.
CommitComplete(r) ==
    LET s == work[r].settlement
        row == settlements[s]
        move == IF row.direction = "to platform" THEN -row.net ELSE row.net
        net == NetExposure + (IF row.status = "completed" THEN 0 ELSE move)
    IN  /\ work[r].op = "complete"
        /\ settlements' = [settlements EXCEPT ![s].status = "completed"]
        /\ ledger' = [ledger EXCEPT !.settled = @ + move]
        /\ profile' = [profile EXCEPT !.locked = LockAfter(profile.locked, net)]
        /\ work' = [work EXCEPT ![r] = Idle]
        /\ excused' = excused
             \union (IF row.status = "completed" THEN {"drift"} ELSE {})
             \union (IF row.direction = "from platform" THEN {"limit"} ELSE {})
        /\ UNCHANGED <<guarantee, wallet, recharges, cashouts>>

-----------------------------------------------------------------------------
(* Administration.                                                         *)

SetProfile(p) == profile' = p /\ UNCHANGED <<guarantee, wallet, rows, ledger, work>>

\* Approval clears suspended and blocked; either of them ends operation.
Approve == SetProfile([profile EXCEPT !.operational = TRUE]) /\ UNCHANGED excused
SuspendOrBlock == SetProfile([profile EXCEPT !.operational = FALSE]) /\ UNCHANGED excused
Unlock ==
    /\ profile.locked
    /\ SetProfile([profile EXCEPT !.locked = FALSE])
    /\ excused' = excused \union {"unlock"}

\* The guarantee endpoints accept any status; an amount never changes.
SetGuarantee(g, status) ==
    /\ guarantee' = [guarantee EXCEPT ![g] = status]
    /\ UNCHANGED <<profile, wallet, rows, ledger, work>>

CreateGuarantee(g) ==
    guarantee[g] = "none" /\ SetGuarantee(g, "pending") /\ UNCHANGED excused
VerifyGuarantee(g) ==
    guarantee[g] # "none" /\ SetGuarantee(g, "verified") /\ UNCHANGED excused
RejectGuarantee(g) ==
    /\ guarantee[g] # "none"
    /\ SetGuarantee(g, "rejected")
    /\ excused' = excused \union (IF guarantee[g] = "verified" THEN {"limit"} ELSE {})

Next ==
    \/ \E r \in Requests, c \in Clients :
          \/ \E mode \in {"added_on_top", "deducted_from_deposit"},
                a \in RechargeAmounts, key \in Keys : BeginRecharge(r, c, mode, a, key)
          \/ \E a \in CashoutAmounts : BeginCashout(r, c, a)
    \/ \E r \in Requests :
          \/ CheckRecharge(r) \/ CommitRecharge(r) \/ RefuseRecharge(r)
          \/ CheckCashout(r) \/ CommitCashout(r)
          \/ CommitConfirm(r) \/ RefuseConfirm(r)
          \/ CommitComplete(r)
          \/ \E k \in DOMAIN cashouts : BeginConfirm(r, k)
          \/ \E s \in DOMAIN settlements : BeginComplete(r, s)
    \/ \E k \in DOMAIN cashouts : CodeRunsOut(k)
    \/ ExpireCodes
    \/ GenerateSettlement
    \/ Approve \/ SuspendOrBlock \/ Unlock
    \/ \E g \in Guarantees : CreateGuarantee(g) \/ VerifyGuarantee(g) \/ RejectGuarantee(g)

Spec == Init /\ [][Next]_vars

-----------------------------------------------------------------------------
(* Every row has a known status and every amount is a number.  No client's *)
(* wallet is overdrawn, though a recharge may name a negative amount and   *)
(* several cash-outs may be pending against one balance (create_recharge,  *)
(* confirm_cashout, Wallet.save).                                          *)
TypeOK ==
    /\ profile \in [operational : BOOLEAN, locked : BOOLEAN]
    /\ guarantee \in [Guarantees -> {"none", "pending", "verified", "rejected"}]
    /\ wallet \in [Clients -> Nat]
    /\ \A i \in DOMAIN recharges : recharges[i].credit \in Int
    /\ \A i \in DOMAIN cashouts :
          cashouts[i].status \in {"code_issued", "completed", "expired"}
    /\ \A i \in DOMAIN settlements :
          /\ settlements[i].status \in {"draft", "completed"}
          /\ settlements[i].net \in Nat

(* What the clients hold is what they began with and what the ledger says  *)
(* the dealership recharged and paid out, whatever fee mode was used and   *)
(* however confirmations overlapped.                                       *)
WalletsMatchLedger ==
    SumFunction(wallet)
      = InitialBalance * Cardinality(Clients) + ledger.recharged - ledger.paidOut

(* A retried recharge credits its client once: no two recharges have one   *)
(* idempotency key, also when both requests looked it up before either     *)
(* was saved.                                                              *)
RechargedOncePerKey ==
    \A i, j \in DOMAIN recharges : recharges[i].key = recharges[j].key => i = j

(* The ledger's entries add up to the net exposure summed from the rows,   *)
(* unless two confirmations of one cash-out, or two completions of one     *)
(* settlement, overlapped.                                                 *)
LedgerMatchesExposure ==
    \/ ledger.recharged - ledger.paidOut + ledger.settled = NetExposure
    \/ "drift" \in excused

(* The exposure passes the credit limit only after two recharges           *)
(* overlapped, a verified guarantee was rejected or the platform paid a    *)
(* settlement.                                                             *)
ExposureWithinLimit ==
    \/ NetExposure <= Limit
    \/ "limit" \in excused

(* A dealership whose exposure reached its limit is financially locked,    *)
(* with the same exceptions and that of an administrator's unlock.         *)
LockedAtLimit ==
    \/ NetExposure < Limit
    \/ Limit = 0
    \/ profile.locked
    \/ excused \intersect {"limit", "unlock"} # {}

\* Wallets, ledger and rows tell of the same recharges and cash-outs, each
\* recharge made once (create_recharge, confirm_cashout, complete_settlement).
BooksAgree == WalletsMatchLedger /\ LedgerMatchesExposure /\ RechargedOncePerKey

\* The exposure stays within the limit, and reaching it locks, unless the named
\* exceptions happened (create_recharge, _update_financial_lock_after_cashout).
LimitHolds == ExposureWithinLimit /\ LockedAtLimit
-----------------------------------------------------------------------------
(* Why they hold.                                                          *)

RechargeRow == [key : Keys, credit : Int]
CashoutRow == [client : Clients, amount : Nat, fresh : BOOLEAN,
               status : {"code_issued", "completed", "expired"}]
SettlementRow == [status : {"draft", "completed"}, net : Nat,
                  direction : {"to platform", "from platform", "zero"}]
Charges == [cash : Int, credit : Int, fee : Int]

\* What each kind of request has read.
Jobs ==
    [op : {"recharge"}, client : Clients, key : Keys, terms : Charges]
        \union [op : {"recharge checked"}, client : Clients, key : Keys,
                terms : Charges, room : Int, lock : BOOLEAN]
        \union [op : {"cashout", "cashout checked"}, client : Clients, amount : Nat]
        \union [op : {"confirm"}, cashout : Nat, held : BOOLEAN]
        \union [op : {"complete"}, settlement : Nat]
        \union {Idle}

WellTyped ==
    /\ profile \in [operational : BOOLEAN, locked : BOOLEAN]
    /\ guarantee \in [Guarantees -> {"none", "pending", "verified", "rejected"}]
    /\ wallet \in [Clients -> Nat]
    /\ recharges \in Seq(RechargeRow)
    /\ cashouts \in Seq(CashoutRow)
    /\ settlements \in Seq(SettlementRow)
    /\ ledger \in [recharged : Int, paidOut : Int, settled : Int]
    /\ work \in [Requests -> Jobs]

\* A checked recharge fits the room that was left when it was checked, and locks
\* if it fills it.  Rows are never deleted.
Founded(j) ==
    /\ j.op = "recharge checked" =>
          j.terms.credit <= j.room /\ (j.room <= j.terms.credit => j.lock)
    /\ j.op = "confirm" => j.cashout \in DOMAIN cashouts
    /\ j.op = "complete" => j.settlement \in DOMAIN settlements

RequestsFounded == \A r \in Requests : Founded(work[r])

ZeroMovesNothing ==
    \A i \in DOMAIN settlements : settlements[i].direction = "zero" => settlements[i].net = 0

IInv ==
    /\ WellTyped /\ RequestsFounded
    /\ ZeroMovesNothing /\ BooksAgree /\ LimitHolds
=============================================================================
