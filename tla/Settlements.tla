----------------------------- MODULE Settlements -----------------------------
(***************************************************************************)
(* The amounts of several contracts between one client and one technician: *)
(* the activation fee, the payment breakdown, what a stage approval, a     *)
(* settlement and a dispute after it write to the wallets, the platform    *)
(* wallet and the earnings, and what the reconciliation reports of them    *)
(* (contract/models.py, wallet/services.py, settlement_services.py,        *)
(* reconciliation_services.py, dispute/services.py).                       *)
(*                                                                         *)
(* Settlements and dispute resolutions lock the wallets they change; the   *)
(* other writers read a balance and save it later.  Which status allows    *)
(* which step is modelled in ContractEscrow.  A contract has one stage.    *)
(***************************************************************************)
EXTENDS Integers, Sequences, Functions

CONSTANTS
    Clerks,            \* requests in flight that lock no wallet
    Agreements,        \* contracts
    Agreed,            \* agreed_amount of each, in hundredths
    ActivationRate,    \* PLATFORM_FEE_RATE, in percent
    CommissionRate,    \* rates of the PlatformFeeConfig, in percent
    ServiceRate,
    ClientOpening,     \* balances at the start
    TechnicianOpening,
    Refunds,           \* amounts that a resolution may name
    Reversals,
    MaxResolutions     \* bound on the resolutions of a settled contract

VARIABLES
    wallet,     \* balances of client, technician and platform
    collected,  \* total_fees_collected of the platform wallet
    deal,       \* the contract row, its settlement and its resolutions
    paid,       \* RELEASE transactions of each contract, in order
    credits,    \* PlatformWalletTransactions of each contract, in order
    earnings,   \* PlatformEarnings of each contract, in order
    held,       \* what each request in flight has read
    overwritten \* history: a request saved over a newer platform balance

vars == <<wallet, collected, deal, paid, credits, earnings, held, overwritten>>

Idle == [op |-> "none"]
Sum(seq) == SumFunction(seq)

-----------------------------------------------------------------------------
(***************************************************************************)
(* Amounts                                                                 *)
(***************************************************************************)
\* quantize with ROUND_HALF_UP, of wallet/services.py.
HalfUp(n) == (n + 50) \div 100
\* quantize with the default ROUND_HALF_EVEN, of contract/models.py.
HalfEven(n) ==
    IF n % 100 = 50 THEN 2 * ((n \div 100 + 1) \div 2) ELSE HalfUp(n)

ActivationFee == HalfEven(Agreed * ActivationRate)
Commission    == HalfUp(Agreed * CommissionRate)
ServiceFee    == HalfUp(Agreed * ServiceRate)
ClientTotal   == Agreed + ServiceFee
NetAmount     == Agreed - Commission

\* A contract's ContractPaymentBreakdown; the fee configuration does not change.
Breakdown ==
    [technician_commission |-> Commission, client_service_fee |-> ServiceFee,
     client_total |-> ClientTotal, technician_net |-> NetAmount]

\* The ContractSettlement row that a settlement of this escrow creates.
Settlement(escrow) ==
    [released_principal |-> escrow, technician_net |-> Breakdown.technician_net,
     platform_fee |-> Breakdown.technician_commission + Breakdown.client_service_fee]

-----------------------------------------------------------------------------
\* No balance is negative, also when it is saved from an older one.
TypeOK ==
    /\ wallet \in [client : Nat, technician : Nat, platform : Nat]
    /\ \A c \in Agreements :
          /\ deal[c].status \in {"signed", "working", "completed"}
          /\ deal[c].escrow \in {0, Agreed}

\* A contract waits for its finalization, or predates signing.
Init ==
    /\ wallet = [client |-> ClientOpening, technician |-> TechnicianOpening, platform |-> 0]
    /\ collected = 0
    /\ \E started \in SUBSET Agreements :
          deal = [c \in Agreements |->
             [status |-> IF c \in started THEN "working" ELSE "signed", escrow |-> 0,
              client_platform_fee |-> 0, staged |-> FALSE,
              funded |-> FALSE, settled |-> FALSE, resolutions |-> 0]]
    /\ paid = [c \in Agreements |-> <<>>]
    /\ credits = [c \in Agreements |-> <<>>]
    /\ earnings = [c \in Agreements |-> <<>>]
    /\ held = [w \in Clerks |-> Idle]
    /\ overwritten = FALSE

-----------------------------------------------------------------------------
(***************************************************************************)
(* Requests that lock no wallet: they read balances and save sums          *)
(***************************************************************************)
Begin(w, op, c, read) ==
    /\ held[w] = Idle
    /\ held' = [held EXCEPT ![w] = [op |-> op, on |-> c, read |-> read]]
    /\ UNCHANGED <<wallet, collected, deal, paid, credits, earnings, overwritten>>

BeginActivate(w, c) ==
    /\ deal[c].status = "signed"
    /\ wallet.client >= Agreed + ActivationFee
    /\ wallet.technician >= ActivationFee
    /\ Begin(w, "activate", c, [wallets |-> wallet, collected |-> collected])

BeginFund(w, c) ==
    /\ deal[c].status # "signed" /\ ~deal[c].funded
    /\ Begin(w, "fund", c, [client |-> wallet.client])

BeginApproveStage(w, c) ==
    /\ deal[c].status # "signed" /\ ~deal[c].staged
    /\ Begin(w, "approve_stage", c, [technician |-> wallet.technician])

Abandon(w) ==
    /\ held[w] # Idle
    /\ held' = [held EXCEPT ![w] = Idle]
    /\ UNCHANGED <<wallet, collected, deal, paid, credits, earnings, overwritten>>

\* _setup_contract_escrow, once for each attestation; the platform wallet is
\* read and saved like the others.
CommitActivate(w) ==
    /\ held[w].op = "activate" /\ deal[held[w].on].status = "signed"
    /\ LET c == held[w].on
       IN  /\ wallet' =
                 [client |-> held[w].read.wallets.client - Agreed - ActivationFee,
                  technician |-> held[w].read.wallets.technician - ActivationFee,
                  platform |-> held[w].read.wallets.platform + 2 * ActivationFee]
           /\ collected' = held[w].read.collected + 2 * ActivationFee
           /\ deal' = [deal EXCEPT ![c].status = "working", ![c].escrow = Agreed,
                                    ![c].client_platform_fee = ActivationFee]
           /\ credits' = [credits EXCEPT ![c] = @ \o <<ActivationFee, ActivationFee>>]
    /\ overwritten' = (overwritten \/ held[w].read.wallets.platform # wallet.platform)
    /\ held' = [held EXCEPT ![w] = Idle]
    /\ UNCHANGED <<paid, earnings>>

\* confirm_sandbox_payment: the deposit is the client's, and the escrow is the
\* agreed amount whatever it was.
CommitFund(w) ==
    /\ held[w].op = "fund" /\ ~deal[held[w].on].funded
    /\ wallet' = [wallet EXCEPT !.client = held[w].read.client + Breakdown.client_total]
    /\ deal' = [deal EXCEPT ![held[w].on].funded = TRUE, ![held[w].on].escrow = Agreed]
    /\ held' = [held EXCEPT ![w] = Idle]
    /\ UNCHANGED <<collected, paid, credits, earnings, overwritten>>

CommissionEarned ==
    <<[type |-> "commission", amount |-> Commission, status |-> "earned"]>>
\* The earnings of a contract, and of its one stage.
Earned ==
    <<[type |-> "commission", amount |-> Commission, status |-> "earned"],
      [type |-> "service fee", amount |-> ServiceFee, status |-> "earned"]>>

\* approve_stage: the whole stage amount is released, and its earnings are
\* recorded without a credit to the platform.
CommitApproveStage(w) ==
    /\ held[w].op = "approve_stage"
    /\ LET c == held[w].on
       IN  /\ wallet' = [wallet EXCEPT !.technician = held[w].read.technician + Agreed]
           /\ paid' = [paid EXCEPT ![c] = Append(@, Agreed)]
           /\ earnings' = [earnings EXCEPT ![c] =
                 IF deal[c].staged THEN @ ELSE @ \o Earned]
           /\ deal' = [deal EXCEPT ![c].status = "completed", ![c].staged = TRUE]
    /\ held' = [held EXCEPT ![w] = Idle]
    /\ UNCHANGED <<collected, credits, overwritten>>

Complete(c) ==
    /\ deal[c].status = "working" /\ deal[c].funded
    /\ deal' = [deal EXCEPT ![c].status = "completed"]
    /\ UNCHANGED <<wallet, collected, paid, credits, earnings, held, overwritten>>

-----------------------------------------------------------------------------
(***************************************************************************)
(* Settlement, and a dispute after it                                      *)
(***************************************************************************)
MaySettle(c) ==
    /\ deal[c].status = "completed" /\ deal[c].funded
    /\ deal[c].escrow > 0 /\ ~deal[c].settled

Release(c) ==
    LET row == Settlement(deal[c].escrow)
    IN  /\ wallet' = [wallet EXCEPT !.technician = @ + row.technician_net,
                                    !.platform = @ + row.platform_fee]
        /\ collected' = collected + row.platform_fee
        /\ deal' = [deal EXCEPT ![c].escrow = @ - row.released_principal,
                                ![c].settled = TRUE]
        /\ paid' = [paid EXCEPT ![c] = Append(@, row.technician_net)]
        /\ earnings' = [earnings EXCEPT ![c] = @ \o Earned]
        /\ credits' = [credits EXCEPT ![c] = @ \o <<Commission, ServiceFee>>]
        /\ UNCHANGED <<held, overwritten>>

Settle(c) == MaySettle(c) /\ Release(c)

Smaller(a, b) == IF a < b THEN a ELSE b

AsNamed(fee) == fee
\* A reversal takes no more than the platform has.
Recoverable(fee) == Smaller(fee, wallet.platform)

\* _reverse_platform_earnings: in order, until one does not fit.
Reversed(list, amount) ==
    LET rest[i \in 0 .. Len(list)] ==
            IF i = 0 THEN amount
            ELSE IF rest[i - 1] <= 0 \/ list[i].status # "earned" THEN rest[i - 1]
            ELSE IF list[i].amount <= rest[i - 1] THEN rest[i - 1] - list[i].amount
            ELSE 0
    IN  [i \in DOMAIN list |->
            IF /\ rest[i - 1] > 0 /\ list[i].status = "earned"
               /\ list[i].amount <= rest[i - 1]
            THEN [list[i] EXCEPT !.status = "reversed"] ELSE list[i]]

\* resolve_dispute of a settled contract: from the technician to the client,
\* and fees out of the platform's wallet.
Resolve(c, refund, fee) ==
    LET recoverable == Smaller(refund, wallet.technician)
        back == IF recoverable > 0 THEN recoverable ELSE 0
        returned == IF fee > 0 THEN Recoverable(fee) ELSE 0
    IN  /\ deal[c].settled /\ deal[c].resolutions < MaxResolutions
        /\ wallet' = [client |-> wallet.client + back,
                      technician |-> wallet.technician - back,
                      platform |-> wallet.platform - returned]
        /\ collected' = collected - returned
        /\ deal' = [deal EXCEPT ![c].resolutions = @ + 1]
        /\ credits' = [credits EXCEPT ![c] = IF fee > 0 THEN Append(@, -returned) ELSE @]
        /\ earnings' = [earnings EXCEPT ![c] = Reversed(@, fee)]
        /\ UNCHANGED <<paid, held, overwritten>>

Next ==
    \/ \E w \in Clerks :
          \/ \E c \in Agreements :
                BeginActivate(w, c) \/ BeginFund(w, c) \/ BeginApproveStage(w, c)
          \/ CommitActivate(w) \/ CommitFund(w) \/ CommitApproveStage(w) \/ Abandon(w)
    \/ \E c \in Agreements :
          \/ Complete(c) \/ Settle(c)
          \/ \E refund \in Refunds, fee \in Reversals : Resolve(c, refund, fee)

Spec == Init /\ [][Next]_vars

-----------------------------------------------------------------------------
(***************************************************************************)
(* Reconciliation                                                          *)
(***************************************************************************)
AmountsOf(list) == [i \in DOMAIN list |-> list[i].amount]
Losses(list) == [i \in DOMAIN list |-> Smaller(list[i], 0)]
Twice(list, type) == \E i, j \in DOMAIN list : i # j /\ list[i].type = type /\ list[j].type = type

\* reconcile_contract, for a settled contract; an empty set is BALANCED.
Discrepancies(c) ==
    LET earned == Sum(AmountsOf(earnings[c]))
        When(code, holds) == IF holds THEN {code} ELSE {}
    IN  When("release total", Sum(paid[c]) # NetAmount)
          \cup When("earnings total", earned # Commission + ServiceFee)
          \cup When("platform credit", Sum(credits[c]) # earned)
          \cup When("duplicate commission", Twice(earnings[c], "commission"))
          \cup When("duplicate service fee", Twice(earnings[c], "service fee"))
          \cup When("duplicate release", Len(paid[c]) > 1)

-----------------------------------------------------------------------------
(***************************************************************************)
(* Properties                                                              *)
(***************************************************************************)

\* What its transactions have brought the platform.
Credited == SumFunction([c \in Agreements |-> Sum(credits[c])])

\* No balance is negative, and the platform's is what the platform counts as
\* collected and the sum of its transactions over all contracts, unless an
\* activation saved a sum of a balance it had read before another credit or
\* reversal (_setup_contract_escrow, settle_completed_contract,
\* _reverse_platform_fees).
PlatformBooksAgree ==
    /\ TypeOK
    /\ \/ overwritten
       \/ /\ wallet.platform = collected
          /\ wallet.platform = Credited

\* The reconciliation calls a settled contract balanced exactly when no stage
\* approval has paid it too, and what disputes reversed of the platform's fees is
\* what its activation had charged (reconcile_contract, _setup_contract_escrow,
\* record_stage_release_with_fees, _reverse_platform_fees).
ReconciliationIsExplained ==
    \A c \in Agreements :
        deal[c].settled =>
            (Discrepancies(c) = {} <=>
                /\ ~deal[c].staged
                /\ Sum(Losses(credits[c])) = -2 * deal[c].client_platform_fee)

-----------------------------------------------------------------------------
(***************************************************************************)
(* Why they hold.                                                          *)
(***************************************************************************)
Wallet == [client : Int, technician : Int, platform : Nat]
Deal ==
    [status : {"signed", "working", "completed"}, escrow : {0, Agreed},
     client_platform_fee : {0, ActivationFee},
     staged : BOOLEAN, funded : BOOLEAN, settled : BOOLEAN, resolutions : Nat]
Earning ==
    [type : {"commission", "service fee"}, amount : {Commission, ServiceFee},
     status : {"earned", "reversed"}]
Holding ==
    [op : {"activate"}, on : Agreements, read : [wallets : Wallet, collected : Int]]
        \cup [op : {"fund"}, on : Agreements, read : [client : Int]]
        \cup [op : {"approve_stage"}, on : Agreements, read : [technician : Int]]
        \cup {Idle}

WellTyped ==
    /\ wallet \in Wallet /\ collected \in Int /\ overwritten \in BOOLEAN
    /\ deal \in [Agreements -> Deal]
    /\ paid \in [Agreements -> Seq(Int)] /\ credits \in [Agreements -> Seq(Int)]
    /\ earnings \in [Agreements -> Seq(Earning)]
    /\ held \in [Clerks -> Holding]

\* Both fees fit into the balances that an activation has read.
Covered(j) ==
    j.op = "activate" =>
        /\ j.read.wallets.client >= Agreed + ActivationFee
        /\ j.read.wallets.technician >= ActivationFee

\* A commission of no more than the amount leaves no one in debt.
Solvent ==
    CommissionRate <= 100 =>
        /\ wallet.client >= 0 /\ wallet.technician >= 0
        /\ \A w \in Clerks :
              /\ held[w].op = "fund" => held[w].read.client >= 0
              /\ held[w].op = "approve_stage" => held[w].read.technician >= 0

\* The books agree, and so did those that an activation has read.
InBalance ==
    overwritten \/
        /\ wallet.platform = collected /\ wallet.platform = Credited
        /\ \A w \in Clerks :
              held[w].op = "activate" =>
                  held[w].read.wallets.platform = held[w].read.collected

FullyEarned(list) ==
    /\ Len(list) = 2
    /\ list[1].type = "commission" /\ list[1].amount = Commission
    /\ list[2].type = "service fee" /\ list[2].amount = ServiceFee

\* What the rows of a contract are made of.
Explained(c) ==
    /\ deal[c].status = "signed" => deal[c].client_platform_fee = 0
    /\ Sum(credits[c]) = 2 * deal[c].client_platform_fee + Sum(Losses(credits[c]))
                         + (IF deal[c].settled THEN Commission + ServiceFee ELSE 0)
    /\ deal[c].staged => Len(paid[c]) > IF deal[c].settled THEN 1 ELSE 0
    /\ ~deal[c].staged =>
          IF deal[c].settled
          THEN paid[c] = <<NetAmount>> /\ FullyEarned(earnings[c])
          ELSE paid[c] = <<>> /\ earnings[c] = <<>>

IInv ==
    /\ WellTyped /\ Solvent /\ InBalance
    /\ \A w \in Clerks : Covered(held[w])
    /\ \A c \in Agreements : Explained(c)
=============================================================================
